------------------------------- MODULE Worker -------------------------------
(***************************************************************************)
(* The job consumer of the SDK: class OJSWorker of src/src/worker.ts.      *)
(*                                                                         *)
(* JavaScript runs one callback at a time, so every action below is the    *)
(* code that runs between two awaits: a call of start() or stop(), a timer *)
(* that fires, an answer that arrives, a promise callback.  The processes  *)
(* that interleave are                                                     *)
(*   - the calls of start(), one per member of Starts, each of which goes  *)
(*     on as the poll chain and the heartbeat interval it sets up;         *)
(*   - the calls of stop(), one per member of Stops, made by the           *)
(*     application, by a signal handler or by a heartbeat answer;          *)
(*   - the deliveries <<j, n>>: the n-th time job j was handed to          *)
(*     processJob, its promise chain and its ack / nack requests;          *)
(*   - the server, which leases jobs and may lose any request or answer.   *)
(***************************************************************************)
EXTENDS Integers, FiniteSets

CONSTANTS
  Jobs,               \* jobs of the queues the worker polls
  Starts,             \* calls of start()
  Stops,              \* calls of stop()
  None,               \* null
  Concurrency,        \* config.concurrency
  FetchMax,           \* most jobs one fetch asks for (10 in the code)
  MaxTries,           \* ACK_NACK_MAX_RETRIES
  MaxDeliveries,      \* bound: deliveries of one job to this worker
  MaxBeats,           \* bound: heartbeats in flight at once
  HandleSignals,      \* config.handleSignals
  Unhandled,          \* jobs of a type without a registered handler
  SyncThrowers,       \* jobs whose handler throws before it returns a promise
  Timed,              \* jobs that carry a timeout
  ThrowingListeners,  \* event listeners may throw
  MayOverlap,         \* the server may hand a job out again while this
                      \* worker still processes an earlier delivery of it
  CallsOverlap        \* stop() may be called before start() has resolved

ASSUME WorkerAssumption ==
  /\ IsFiniteSet(Jobs)
  /\ Concurrency \in Nat \ {0}
  /\ FetchMax \in Nat \ {0}
  /\ MaxTries \in Nat \ {0}
  /\ MaxDeliveries \in Nat \ {0}
  /\ MaxBeats \in Nat
  /\ None \notin Starts \cup Stops
  /\ {HandleSignals, ThrowingListeners, MayOverlap, CallsOverlap} \subseteq BOOLEAN
  /\ Unhandled \cup SyncThrowers \cup Timed \subseteq Jobs
  /\ Unhandled \cap SyncThrowers = {}

VARIABLES
  state,            \* this.state
  active,           \* this.activeJobs: delivery whose controller job j maps to, 0 if none
  jobsCompleted,    \* this.jobsCompleted
  phase,            \* where the promise chain of delivery <<j, n>> is
  tries,            \* failed attempts of its current ack / nack request
  aborted,          \* abort reason of its controller
  delivered,        \* deliveries of job j so far
  srv,              \* the server's state of job j
  chain,            \* where the poll chain of start() call s is
  req,              \* jobs its fetch in flight asked for
  pollTimer,        \* this.pollTimer: the chain that armed it last
  beating,          \* the heartbeat interval of start() call s is installed
  heartbeatTimer,   \* this.heartbeatTimer
  beatsOut,         \* heartbeat requests in flight
  listening,        \* the signal handlers of start() call s are installed
  signalHandler,    \* this.signalHandler
  stopPhase,        \* where call t of stop() is
  shutdownResolve,  \* this.shutdownResolve: the call whose promise it resolves
  graceTimerId,     \* this.graceTimerId
  graceArmed        \* the grace timer of call t is pending

execVars   == <<phase, tries, aborted, delivered>>
pollVars   == <<chain, req, pollTimer>>
timerVars  == <<beating, heartbeatTimer, listening, signalHandler>>
stopVars   == <<stopPhase, shutdownResolve, graceTimerId, graceArmed>>
vars == <<state, active, jobsCompleted, execVars, srv, pollVars, timerVars,
          beatsOut, stopVars>>

WorkerStates == {"running", "quiet", "terminate", "terminated"}
Numbers      == 1..MaxDeliveries
LivePhases   == {"handling", "acking", "completed", "nacking", "failed", "rejecting"}
ExecPhases   == LivePhases \cup {"unused", "settled", "rejected", "leaked"}
ChainPhases  == {"idle", "starting", "timer", "fetching", "ended"}
StopPhases   == {"idle", "waiting", "woken", "emitting", "done"}
JobStates    == {"available", "leased", "completed", "discarded"}
Reasons      == {"no", "timeout", "shutdown"}
Requesting   == {"acking", "nacking", "rejecting"}

ActiveJobs  == {j \in Jobs : active[j] # 0}
activeJobCount == Cardinality(ActiveJobs)
Deliveries  == Jobs \X Numbers
Live(d)     == phase[d[1]][d[2]] \in LivePhases
LiveDeliveries == {d \in Deliveries : Live(d)}

\* Every variable has its type.
TypeOK ==
  /\ state \in WorkerStates
  /\ active \in [Jobs -> 0..MaxDeliveries]
  /\ jobsCompleted \in Nat
  /\ phase \in [Jobs -> [Numbers -> ExecPhases]]
  /\ tries \in [Jobs -> [Numbers -> 0..(MaxTries - 1)]]
  /\ aborted \in [Jobs -> [Numbers -> Reasons]]
  /\ delivered \in [Jobs -> 0..MaxDeliveries]
  /\ srv \in [Jobs -> JobStates]
  /\ chain \in [Starts -> ChainPhases]
  /\ req \in [Starts -> 0..FetchMax]
  /\ pollTimer \in Starts \cup {None}
  /\ beating \in [Starts -> BOOLEAN]
  /\ heartbeatTimer \in Starts \cup {None}
  /\ beatsOut \in 0..MaxBeats
  /\ listening \in [Starts -> BOOLEAN]
  /\ signalHandler \in Starts \cup {None}
  /\ stopPhase \in [Stops -> StopPhases]
  /\ shutdownResolve \in Stops \cup {None}
  /\ graceTimerId \in Stops \cup {None}
  /\ graceArmed \in [Stops -> BOOLEAN]

Init ==
  /\ state = "terminated"
  /\ active = [j \in Jobs |-> 0]
  /\ jobsCompleted = 0
  /\ phase = [j \in Jobs |-> [n \in Numbers |-> "unused"]]
  /\ tries = [j \in Jobs |-> [n \in Numbers |-> 0]]
  /\ aborted = [j \in Jobs |-> [n \in Numbers |-> "no"]]
  /\ delivered = [j \in Jobs |-> 0]
  /\ srv = [j \in Jobs |-> "available"]
  /\ chain = [s \in Starts |-> "idle"]
  /\ req = [s \in Starts |-> 0]
  /\ pollTimer = None
  /\ beating = [s \in Starts |-> FALSE]
  /\ heartbeatTimer = None
  /\ beatsOut = 0
  /\ listening = [s \in Starts |-> FALSE]
  /\ signalHandler = None
  /\ stopPhase = [t \in Stops |-> "idle"]
  /\ shutdownResolve = None
  /\ graceTimerId = None
  /\ graceArmed = [t \in Stops |-> FALSE]

-----------------------------------------------------------------------------
(* The poll loop *)

\* Mutant: always ask for a full batch.
FetchCountIgnoresSlots == FetchMax

\* fetchAndProcess asks for as many jobs as there are free slots, 10 at most.
FetchCount == LET slotsAvailable == Concurrency - activeJobCount
              IN  IF slotsAvailable < FetchMax THEN slotsAvailable ELSE FetchMax

ArmPollTimer(s) ==
  /\ chain' = [chain EXCEPT ![s] = "timer"]
  /\ pollTimer' = s

\* poll() as run by chain s: it ends when the worker is not running, waits
\* when every slot is taken, and otherwise sends a fetch.
poll(s) ==
  \/ /\ state # "running"
     /\ chain' = [chain EXCEPT ![s] = "ended"]
     /\ UNCHANGED <<req, pollTimer>>
  \/ /\ state = "running"
     /\ activeJobCount >= Concurrency
     /\ ArmPollTimer(s)
     /\ UNCHANGED req
  \/ /\ state = "running"
     /\ activeJobCount < Concurrency
     /\ chain' = [chain EXCEPT ![s] = "fetching"]
     /\ req' = [req EXCEPT ![s] = FetchCount]
     /\ UNCHANGED pollTimer

PollTimerFires(s) ==
  /\ chain[s] = "timer"
  /\ poll(s)
  /\ UNCHANGED <<state, active, jobsCompleted, execVars, srv, timerVars, beatsOut, stopVars>>

\* The callbacks of fetchAndProcess(): the next poll is scheduled only while
\* the worker is running; success and failure differ in the delay alone.
ScheduleNextPoll(s) ==
  /\ req' = [req EXCEPT ![s] = 0]
  /\ IF state = "running"
     THEN ArmPollTimer(s)
     ELSE /\ chain' = [chain EXCEPT ![s] = "ended"]
          /\ UNCHANGED pollTimer

clearPollTimer ==
  /\ chain' = IF pollTimer \in Starts /\ chain[pollTimer] = "timer"
              THEN [chain EXCEPT ![pollTimer] = "ended"]
              ELSE chain
  /\ pollTimer' = None

\* The phase a delivery starts in: the nack of a job without handler, the
\* handler otherwise; a handler that throws before it returns its promise
\* leaves an entry behind that no callback will remove.
FirstPhase(j) == CASE j \in Unhandled    -> "rejecting"
                   [] j \in SyncThrowers -> "leaked"
                   [] OTHER              -> "handling"

\* processJob() for each job of P: a new controller replaces whatever entry
\* the job had.
processJobs(P) ==
  /\ active' = [j \in Jobs |-> IF j \in P THEN delivered[j] + 1 ELSE active[j]]
  /\ delivered' = [j \in Jobs |-> IF j \in P THEN delivered[j] + 1 ELSE delivered[j]]
  /\ phase' = [j \in Jobs |-> IF j \in P
                 THEN [phase[j] EXCEPT ![delivered[j] + 1] = FirstPhase(j)]
                 ELSE phase[j]]
  /\ UNCHANGED <<tries, aborted>>

\* The jobs the server may lease to this worker.
Leasable == {j \in Jobs : /\ srv[j] = "available"
                          /\ delivered[j] < MaxDeliveries
                          /\ active[j] = 0 \/ MayOverlap}

\* The answer to the fetch of chain s carries the jobs of batch.  The loop
\* over them runs in one go; it is cut short by the first handler that
\* throws synchronously, whose delivery is the last one of P.
FetchReturns(s) ==
  /\ chain[s] = "fetching"
  /\ \E batch \in SUBSET Leasable, P \in SUBSET Leasable :
       /\ Cardinality(batch) <= req[s]
       /\ P \subseteq batch
       /\ IF batch \cap SyncThrowers = {}
          THEN P = batch
          ELSE Cardinality(P \cap SyncThrowers) = 1
       /\ srv' = [j \in Jobs |-> IF j \in batch THEN "leased" ELSE srv[j]]
       /\ processJobs(P)
  /\ ScheduleNextPoll(s)
  /\ UNCHANGED <<state, jobsCompleted, timerVars, beatsOut, stopVars>>

\* The fetch fails; jobs the server leased for the lost answer stay leased.
FetchFails(s) ==
  /\ chain[s] = "fetching"
  /\ \E batch \in SUBSET Leasable :
       /\ Cardinality(batch) <= req[s]
       /\ srv' = [j \in Jobs |-> IF j \in batch THEN "leased" ELSE srv[j]]
  /\ ScheduleNextPoll(s)
  /\ UNCHANGED <<state, active, jobsCompleted, execVars, timerVars, beatsOut, stopVars>>

-----------------------------------------------------------------------------
(* Shutdown helpers *)

Settle(j, n, p) == phase' = [phase EXCEPT ![j][n] = p]

\* Mutants: the entry stays; every entry goes.
deleteNothing(j) == j \in Jobs /\ UNCHANGED active
deleteAll(j) == j \in Jobs /\ active' = [i \in Jobs |-> 0]

\* activeJobs.delete(job.id): by job, whatever delivery the entry is for.
deleteActive(j) == active' = [active EXCEPT ![j] = 0]

clearGraceTimer ==
  /\ graceArmed' = [t \in Stops |-> graceArmed[t] /\ t # graceTimerId]
  /\ graceTimerId' = None

wake(t) == stopPhase' = [stopPhase EXCEPT ![t] = IF @ = "waiting" THEN "woken" ELSE @]

\* Mutant: a worker in state terminate is not woken.
resolveOnlyQuiet ==
  IF /\ \A j \in Jobs : active'[j] = 0
     /\ shutdownResolve \in Stops
     /\ state = "quiet"
  THEN /\ clearGraceTimer
       /\ wake(shutdownResolve)
       /\ shutdownResolve' = None
  ELSE UNCHANGED stopVars

\* Mutant: the first delivery to finish cancels the grace timer.
resolveClearsTimerFirst ==
  IF shutdownResolve \in Stops /\ state \in {"terminate", "quiet"}
  THEN /\ clearGraceTimer
       /\ IF \A j \in Jobs : active'[j] = 0
          THEN wake(shutdownResolve) /\ shutdownResolve' = None
          ELSE UNCHANGED <<stopPhase, shutdownResolve>>
  ELSE UNCHANGED stopVars

\* Runs after the entry of a finished delivery has been deleted.
resolveShutdownIfIdle ==
  IF /\ \A j \in Jobs : active'[j] = 0
     /\ shutdownResolve \in Stops
     /\ state \in {"terminate", "quiet"}
  THEN /\ clearGraceTimer
       /\ wake(shutdownResolve)
       /\ shutdownResolve' = None
  ELSE UNCHANGED stopVars

\* The finally callback of processJob.
finish(j, n, p) ==
  /\ Settle(j, n, p)
  /\ deleteActive(j)
  /\ tries' = [tries EXCEPT ![j][n] = 0]
  /\ UNCHANGED <<aborted, delivered>>
  /\ resolveShutdownIfIdle

-----------------------------------------------------------------------------
(* A delivery: handler, ack, nack *)

\* The retryable field of a nack: true for every error of a handler, one that
\* says retryable = false included; false when there is no handler.
NackRetryable(j) == j \notin Unhandled

\* What a request of a delivery in phase p does at the server when it gets there.
ServerMay(j, p) ==
  IF srv[j] # "leased" THEN {srv[j]}
  ELSE IF p = "acking" THEN {"completed"}
  ELSE {"discarded"} \cup {v \in {"available"} : NackRetryable(j)}

ServerTakes(j, p) == \E v \in ServerMay(j, p) : srv' = [srv EXCEPT ![j] = v]

\* composeExecution(...)(ctx) resolves.
HandlerReturns(j, n) ==
  /\ phase[j][n] = "handling"
  /\ Settle(j, n, "acking")
  /\ UNCHANGED <<state, active, jobsCompleted, tries, aborted, delivered, srv,
                 pollVars, timerVars, beatsOut, stopVars>>

\* It rejects: the handler failed, timed out or saw its signal abort.
HandlerFails(j, n) ==
  /\ phase[j][n] = "handling"
  /\ Settle(j, n, "nacking")
  /\ UNCHANGED <<state, active, jobsCompleted, tries, aborted, delivered, srv,
                 pollVars, timerVars, beatsOut, stopVars>>

\* The job's timeout aborts the controller; an aborted controller keeps its
\* first reason.  The timer is cleared only by the finally callback.
TimeoutFires(j, n) ==
  /\ j \in Timed
  /\ Live(<<j, n>>)
  /\ aborted[j][n] = "no"
  /\ aborted' = [aborted EXCEPT ![j][n] = "timeout"]
  /\ UNCHANGED <<state, active, jobsCompleted, phase, tries, delivered, srv,
                 pollVars, timerVars, beatsOut, stopVars>>

\* An attempt fails and another one is left: the request was lost, or the
\* server took it and the answer was lost.
RetryRequest(j, n) ==
  /\ phase[j][n] \in Requesting
  /\ tries[j][n] + 1 < MaxTries
  /\ tries' = [tries EXCEPT ![j][n] = @ + 1]
  /\ UNCHANGED srv \/ ServerTakes(j, phase[j][n])
  /\ UNCHANGED <<state, active, jobsCompleted, phase, aborted, delivered,
                 pollVars, timerVars, beatsOut, stopVars>>

\* Mutant: the slot is freed before the listeners of job.completed are done.
AckFreesSlot(j, n) ==
  /\ phase[j][n] = "acking"
  /\ ServerTakes(j, "acking")
  /\ Settle(j, n, "completed")
  /\ deleteActive(j)
  /\ tries' = [tries EXCEPT ![j][n] = 0]
  /\ jobsCompleted' = jobsCompleted + 1
  /\ UNCHANGED <<state, aborted, delivered, pollVars, timerVars, beatsOut, stopVars>>

\* The ack is answered: the execution counts as completed, whatever happens
\* to the listeners of job.completed.
AckAnswered(j, n) ==
  /\ phase[j][n] = "acking"
  /\ ServerTakes(j, "acking")
  /\ Settle(j, n, "completed")
  /\ tries' = [tries EXCEPT ![j][n] = 0]
  /\ jobsCompleted' = jobsCompleted + 1
  /\ UNCHANGED <<state, active, aborted, delivered, pollVars, timerVars, beatsOut, stopVars>>

\* The last attempt to ack fails: the catch callback nacks the job.
AckGivesUp(j, n) ==
  /\ phase[j][n] = "acking"
  /\ tries[j][n] + 1 = MaxTries
  /\ UNCHANGED srv \/ ServerTakes(j, "acking")
  /\ Settle(j, n, "nacking")
  /\ tries' = [tries EXCEPT ![j][n] = 0]
  /\ UNCHANGED <<state, active, jobsCompleted, aborted, delivered, pollVars, timerVars,
                 beatsOut, stopVars>>

\* The listeners of job.completed are done.
CompletedEmitted(j, n) ==
  /\ phase[j][n] = "completed"
  /\ finish(j, n, "settled")
  /\ UNCHANGED <<state, jobsCompleted, srv, pollVars, timerVars, beatsOut>>

\* A listener of job.completed throws: the catch callback nacks the job.
CompletedEmitThrows(j, n) ==
  /\ ThrowingListeners
  /\ phase[j][n] = "completed"
  /\ Settle(j, n, "nacking")
  /\ UNCHANGED <<state, active, jobsCompleted, tries, aborted, delivered, srv,
                 pollVars, timerVars, beatsOut, stopVars>>

NackAnswered(j, n) ==
  /\ phase[j][n] = "nacking"
  /\ ServerTakes(j, "nacking")
  /\ Settle(j, n, "failed")
  /\ tries' = [tries EXCEPT ![j][n] = 0]
  /\ UNCHANGED <<state, active, jobsCompleted, aborted, delivered, pollVars, timerVars,
                 beatsOut, stopVars>>

\* Mutant: after the last attempt the loop starts over.
NackStartsOver(j, n) ==
  /\ phase[j][n] = "nacking"
  /\ tries[j][n] + 1 = MaxTries
  /\ tries' = [tries EXCEPT ![j][n] = 0]
  /\ UNCHANGED <<state, active, jobsCompleted, phase, aborted, delivered, srv,
                 pollVars, timerVars, beatsOut, stopVars>>

\* The last attempt to nack fails: the chain is left rejected, unhandled.
NackGivesUp(j, n) ==
  /\ phase[j][n] = "nacking"
  /\ tries[j][n] + 1 = MaxTries
  /\ UNCHANGED srv \/ ServerTakes(j, "nacking")
  /\ finish(j, n, "rejected")
  /\ UNCHANGED <<state, jobsCompleted, pollVars, timerVars, beatsOut>>

\* The listeners of job.failed are done, or one of them throws.
FailedEmitted(j, n) ==
  /\ phase[j][n] = "failed"
  /\ \E p \in IF ThrowingListeners THEN {"settled", "rejected"} ELSE {"settled"} :
       finish(j, n, p)
  /\ UNCHANGED <<state, jobsCompleted, srv, pollVars, timerVars, beatsOut>>

\* Mutant: the entry is deleted only when the nack succeeds.
RejectKeepsEntry(j, n) ==
  /\ phase[j][n] = "rejecting"
  /\ \/ ServerTakes(j, "rejecting") /\ Settle(j, n, "settled") /\ deleteActive(j)
     \/ /\ tries[j][n] + 1 = MaxTries
        /\ Settle(j, n, "rejected")
        /\ UNCHANGED <<srv, active>>
  /\ tries' = [tries EXCEPT ![j][n] = 0]
  /\ UNCHANGED <<state, jobsCompleted, aborted, delivered, pollVars, timerVars,
                 beatsOut, stopVars>>

\* The nack of a job without handler ends; unlike finish, the entry is
\* deleted without telling a waiting stop().
RejectEnds(j, n) ==
  /\ phase[j][n] = "rejecting"
  /\ \/ ServerTakes(j, "rejecting") /\ Settle(j, n, "settled")
     \/ /\ tries[j][n] + 1 = MaxTries
        /\ UNCHANGED srv \/ ServerTakes(j, "rejecting")
        /\ Settle(j, n, "rejected")
  /\ tries' = [tries EXCEPT ![j][n] = 0]
  /\ deleteActive(j)
  /\ UNCHANGED <<state, jobsCompleted, aborted, delivered, pollVars, timerVars,
                 beatsOut, stopVars>>

-----------------------------------------------------------------------------
(* start(), stop() and the heartbeat *)

\* start() up to the await of emit('worker.started').
StartCalled(s) ==
  /\ chain[s] = "idle"
  /\ state \notin {"running", "quiet"}
  /\ state' = "running"
  /\ jobsCompleted' = 0
  /\ chain' = [chain EXCEPT ![s] = "starting"]
  /\ UNCHANGED <<active, execVars, srv, req, pollTimer, timerVars, beatsOut, stopVars>>

\* The rest of start(): it does not look at the state again.
StartContinues(s) ==
  /\ chain[s] = "starting"
  /\ beating' = [beating EXCEPT ![s] = TRUE]
  /\ heartbeatTimer' = s
  /\ IF HandleSignals
     THEN /\ listening' = [listening EXCEPT ![s] = TRUE]
          /\ signalHandler' = s
     ELSE UNCHANGED <<listening, signalHandler>>
  /\ poll(s)
  /\ UNCHANGED <<state, active, jobsCompleted, execVars, srv, beatsOut, stopVars>>

\* A listener of worker.started throws: start() rejects with the state left
\* at running, no poll loop, no heartbeat.
StartThrows(s) ==
  /\ ThrowingListeners
  /\ chain[s] = "starting"
  /\ chain' = [chain EXCEPT ![s] = "ended"]
  /\ UNCHANGED <<state, active, jobsCompleted, execVars, srv, req, pollTimer,
                 timerVars, beatsOut, stopVars>>

clearHeartbeat ==
  /\ beating' = [s \in Starts |-> beating[s] /\ s # heartbeatTimer]
  /\ heartbeatTimer' = None

\* Mutant: the reference is dropped, the handlers stay installed.
forgetSignalHandlers ==
  /\ UNCHANGED listening
  /\ signalHandler' = None

removeSignalHandlers ==
  /\ listening' = [s \in Starts |-> listening[s] /\ s # signalHandler]
  /\ signalHandler' = None

\* Mutant: nothing is aborted.
abortNothing == UNCHANGED aborted

\* Abort the controllers that are still in activeJobs.
abortRemaining ==
  aborted' = [j \in Jobs |-> [n \in Numbers |->
                IF active[j] = n /\ aborted[j][n] = "no" THEN "shutdown" ELSE aborted[j][n]]]

\* stop() from the end of its wait to the await of emit('worker.stopped').
terminateNow(t) ==
  /\ abortRemaining
  /\ state' = "terminated"
  /\ stopPhase' = [stopPhase EXCEPT ![t] = "emitting"]

\* stop() up to its first await.  With no active job it does not wait.
stop(t) ==
  /\ stopPhase[t] = "idle"
  /\ IF state = "terminated"
     THEN /\ stopPhase' = [stopPhase EXCEPT ![t] = "done"]
          /\ UNCHANGED <<state, aborted, pollVars, timerVars, shutdownResolve,
                         graceTimerId, graceArmed>>
     ELSE /\ clearPollTimer
          /\ clearHeartbeat
          /\ removeSignalHandlers
          /\ IF ActiveJobs = {}
             THEN /\ clearGraceTimer
                  /\ terminateNow(t)
                  /\ UNCHANGED shutdownResolve
             ELSE /\ state' = "terminate"
                  /\ stopPhase' = [stopPhase EXCEPT ![t] = "waiting"]
                  /\ shutdownResolve' = t
                  /\ graceTimerId' = t
                  /\ graceArmed' = [graceArmed EXCEPT ![t] = TRUE]
                  /\ UNCHANGED aborted
          /\ UNCHANGED req
  /\ UNCHANGED <<active, jobsCompleted, phase, tries, delivered, srv>>

\* The application calls stop().
StopCalled(t) ==
  /\ CallsOverlap \/ \A s \in Starts : chain[s] # "starting"
  /\ stop(t)
  /\ UNCHANGED beatsOut

\* SIGTERM or SIGINT arrives and an installed handler calls stop().
SignalArrives(t) ==
  /\ \E s \in Starts : listening[s]
  /\ stop(t)
  /\ UNCHANGED beatsOut

\* The grace timer of call t fires: the race is over at once.  The call then
\* clears whatever timer graceTimerId names, its own or a later call's.
GraceTimerFires(t) ==
  /\ graceArmed[t]
  /\ IF stopPhase[t] = "waiting"
     THEN /\ graceArmed' = [u \in Stops |-> graceArmed[u] /\ u \notin {t, graceTimerId}]
          /\ graceTimerId' = None
          /\ terminateNow(t)
     ELSE /\ graceArmed' = [graceArmed EXCEPT ![t] = FALSE]
          /\ UNCHANGED <<state, aborted, stopPhase, graceTimerId>>
  /\ UNCHANGED <<active, jobsCompleted, phase, tries, delivered, srv, pollVars,
                 timerVars, beatsOut, shutdownResolve>>

\* waitForActiveJobs() has been resolved and the promise callbacks that were
\* queued before it have run: the call goes on.
StopContinues(t) ==
  /\ stopPhase[t] = "woken"
  /\ clearGraceTimer
  /\ terminateNow(t)
  /\ UNCHANGED <<active, jobsCompleted, phase, tries, delivered, srv, pollVars,
                 timerVars, beatsOut, shutdownResolve>>

\* The listeners of worker.stopped are done: the promise of stop() settles.
StopReturns(t) ==
  /\ stopPhase[t] = "emitting"
  /\ stopPhase' = [stopPhase EXCEPT ![t] = "done"]
  /\ UNCHANGED <<state, active, jobsCompleted, execVars, srv, pollVars, timerVars,
                 beatsOut, shutdownResolve, graceTimerId, graceArmed>>

HeartbeatFires(s) ==
  /\ beating[s]
  /\ beatsOut < MaxBeats
  /\ beatsOut' = beatsOut + 1
  /\ UNCHANGED <<state, active, jobsCompleted, execVars, srv, pollVars, timerVars, stopVars>>

\* A heartbeat fails or its answer names no state to go to.
HeartbeatEnds ==
  /\ beatsOut > 0
  /\ beatsOut' = beatsOut - 1
  /\ UNCHANGED <<state, active, jobsCompleted, execVars, srv, pollVars, timerVars, stopVars>>

\* Mutant: the directive is followed in any state.
QuietAlways ==
  /\ beatsOut > 0
  /\ beatsOut' = beatsOut - 1
  /\ state' = "quiet"
  /\ clearPollTimer
  /\ UNCHANGED <<active, jobsCompleted, execVars, srv, req, timerVars, stopVars>>

QuietDirective ==
  /\ beatsOut > 0
  /\ beatsOut' = beatsOut - 1
  /\ state = "running"
  /\ state' = "quiet"
  /\ clearPollTimer
  /\ UNCHANGED <<active, jobsCompleted, execVars, srv, req, timerVars, stopVars>>

TerminateDirective(t) ==
  /\ beatsOut > 0
  /\ beatsOut' = beatsOut - 1
  /\ state # "terminate"
  /\ stop(t)

\* The visibility timeout of a lease expires at the server.
LeaseExpires(j) ==
  /\ srv[j] = "leased"
  /\ active[j] = 0 \/ MayOverlap
  /\ srv' = [srv EXCEPT ![j] = "available"]
  /\ UNCHANGED <<state, active, jobsCompleted, execVars, pollVars, timerVars,
                 beatsOut, stopVars>>

-----------------------------------------------------------------------------

\* The steps of the promise chain of delivery <<j, n>> after its handler.
ChainStep(j, n) ==
  \/ RetryRequest(j, n)
  \/ AckAnswered(j, n)
  \/ AckGivesUp(j, n)
  \/ CompletedEmitted(j, n)
  \/ CompletedEmitThrows(j, n)
  \/ NackAnswered(j, n)
  \/ NackGivesUp(j, n)
  \/ FailedEmitted(j, n)
  \/ RejectEnds(j, n)

HandlerEnds(j, n) == HandlerReturns(j, n) \/ HandlerFails(j, n)

FetchEnds(s) == FetchReturns(s) \/ FetchFails(s)

StopStep(t) == GraceTimerFires(t) \/ StopContinues(t) \/ StopReturns(t)

Next ==
  \/ \E s \in Starts :
       \/ StartCalled(s)
       \/ StartContinues(s)
       \/ StartThrows(s)
       \/ PollTimerFires(s)
       \/ FetchEnds(s)
       \/ HeartbeatFires(s)
  \/ \E j \in Jobs, n \in Numbers :
       \/ HandlerEnds(j, n)
       \/ TimeoutFires(j, n)
       \/ ChainStep(j, n)
  \/ \E t \in Stops :
       \/ StopCalled(t)
       \/ SignalArrives(t)
       \/ TerminateDirective(t)
       \/ StopStep(t)
  \/ HeartbeatEnds
  \/ QuietDirective
  \/ \E j \in Jobs : LeaseExpires(j)

Spec == Init /\ [][Next]_vars

\* The steps of that chain that wait for a request, not for a listener.
RequestStep(j, n) ==
  \/ RetryRequest(j, n)
  \/ AckAnswered(j, n)
  \/ AckGivesUp(j, n)
  \/ NackAnswered(j, n)
  \/ NackGivesUp(j, n)
  \/ RejectEnds(j, n)

\* Timers fire, promise callbacks run, and every request is answered or given
\* up by the transport, which bounds it with a timeout of its own.  What waits
\* for the application is not fair: a handler may never end, nor a promise
\* that a listener returns, which emit() awaits (StartContinues,
\* CompletedEmitted, FailedEmitted, StopReturns).
Fairness ==
  /\ \A s \in Starts : WF_vars(PollTimerFires(s)) /\ WF_vars(FetchEnds(s))
  /\ \A j \in Jobs, n \in Numbers : WF_vars(RequestStep(j, n))
  /\ \A t \in Stops : WF_vars(GraceTimerFires(t) \/ StopContinues(t))

FairSpec == Spec /\ Fairness
=============================================================================
