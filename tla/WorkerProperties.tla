-------------------------- MODULE WorkerProperties --------------------------
(***************************************************************************)
(* What is claimed of the worker: safety, action and liveness properties,  *)
(* and the abstract specifications it is shown to implement.               *)
(***************************************************************************)
EXTENDS Worker

\* A slot is never leaked: an entry of activeJobs belongs to a delivery whose
\* promise chain will still delete it.  The exception is a handler that throws
\* before it returns its promise (processJob, :439).
SlotsHeldByLiveDeliveries ==
  \A j \in ActiveJobs : j \in SyncThrowers \/ Live(<<j, active[j]>>)

\* A job that is being processed is never dropped from activeJobs, which is
\* what poll() counts, stop() waits for and the heartbeat reports.
LiveDeliveriesTracked ==
  \A d \in LiveDeliveries : active[d[1]] = d[2]

\* "Maximum number of concurrent jobs" (worker.ts:34): never more executions
\* under way than config.concurrency.
ConcurrencyRespected == Cardinality(LiveDeliveries) <= Concurrency

\* A running worker has a poll chain that is still alive: no order of answers,
\* timers and stop calls leaves it running but deaf.
RunningKeepsPolling ==
  state = "running" => \E s \in Starts : chain[s] \in {"starting", "timer", "fetching"}

\* stop() does not go on waiting for an idle worker: as long as its call
\* waits there is a job it waits for (resolveShutdownIfIdle reaches it).
NoIdleWait == \A t \in Stops : stopPhase[t] = "waiting" => ActiveJobs # {}

\* A terminated worker has no heartbeat interval, no process signal handler
\* and no poll timer left ("Remove signal handlers to prevent memory leaks
\* and duplicate triggers", worker.ts:293; removed "on stop()", :52-57).
TerminatedIsQuiescent ==
  state = "terminated" =>
    \A s \in Starts : ~beating[s] /\ ~listening[s] /\ chain[s] # "timer"

\* When the worker terminates, every execution still under way has had its
\* signal aborted.
TerminationAborts ==
  [][state # "terminated" /\ state' = "terminated" =>
       \A d \in LiveDeliveries' : aborted'[d[1]][d[2]] # "no"]_vars

\* stop() "waits for active jobs to complete within the shutdown timeout"
\* (worker.ts:268-269): its wait ends, even when a handler never does, nor a
\* listener that a delivery waits for.  What is left then is to emit
\* worker.stopped, whose listeners may keep the promise from settling.
StopEventuallyTerminates ==
  \A t \in Stops : stopPhase[t] = "waiting" ~> stopPhase[t] \in {"emitting", "done"}

\* A delivery waits for the application: for its handler, or for what the
\* listeners of job.completed or job.failed have returned to emit().
AwaitsApplication(d) == phase[d[1]][d[2]] \in {"handling", "completed", "failed"}

\* Once its handler has ended, a delivery does not go on for ever with its ack
\* and nack, whatever requests and answers are lost: it is settled, or waits
\* for listeners.
EveryDeliveryReports ==
  \A j \in Jobs, n \in Numbers :
    phase[j][n] \in Requesting
      ~> phase[j][n] \in {"settled", "rejected"} \/ AwaitsApplication(<<j, n>>)

\* A worker that stays running comes back to fetching, over and over, unless
\* the application keeps a slot or, with a listener of worker.started, keeps
\* start() from polling: neither a lost answer, a full pool nor a failed nack
\* stops the flow of jobs.
RunningKeepsFetching ==
  state = "running" ~> \/ state # "running"
                       \/ \E s \in Starts : chain[s] \in {"starting", "fetching"}
                       \/ \E d \in Deliveries : AwaitsApplication(d)

-----------------------------------------------------------------------------
\* The life cycle of the README: the worker's own state variable.
Lifecycle == INSTANCE WorkerLifecycle

\* The worker goes through the states of the README's diagram, in its order,
\* and a terminate ends although a handler may never do.
ImplementsLifecycle == Lifecycle!FairSpec

\* Only the order, with no promise of progress.
FollowsLifecycle == Lifecycle!Spec

\* The pool of slots: the jobs of activeJobs are busy, a fetch in flight
\* holds what it asked for.
Pool == INSTANCE SlotPool WITH
          Fetchers <- Starts, Size <- Concurrency,
          busy <- ActiveJobs, reserved <- req

\* poll, processJob and the finally callbacks use activeJobs as a pool of
\* Concurrency slots with at most one reservation out.
ImplementsPool == Pool!Spec
=============================================================================
