----------------------------- MODULE Middleware -----------------------------
(***************************************************************************)
(* The execution middleware of a worker: MiddlewareChain and               *)
(* composeExecution of src/src/middleware.ts, with the middleware that the *)
(* SDK ships.                                                              *)
(*                                                                         *)
(* A chain is a sequence of middleware, named by what they do:             *)
(*   "retry"     middleware/retry.ts                                       *)
(*   "timeout"   middleware/timeout.ts                                     *)
(*   "observer"  logging.ts, metrics.ts, otel.ts: report how next() ends   *)
(*   "tracer"    otel.ts with a tracer: ends a span after it has reported  *)
(*   "user"      awaits something of its own, then passes on to next()     *)
(* entries() hands out the live array of the chain, and every call of      *)
(* next() reads it again, so an edit of the chain reaches the executions   *)
(* that are under way.  An execution is a stack of frames, frame i being   *)
(* what dispatch(i) called; its last frame is the handler.                 *)
(***************************************************************************)
EXTENDS Integers, Sequences, SequencesExt

CONSTANTS
  Executions,      \* executions that are composed from the chain
  Kinds,           \* middleware the application uses
  MaxRetries,      \* RetryOptions.maxRetries
  RecordersThrow,  \* a MetricsRecorder, logger or span may throw
  MaxLength,       \* bound: middleware in a chain
  MaxAfterClear,   \* bound: middleware in a chain that clear() has started
  MaxArrays        \* bound: arrays the chain goes through (clear() makes one)

ASSUME MiddlewareAssumption ==
  /\ Kinds \subseteq {"retry", "timeout", "observer", "tracer", "user"}
  /\ MaxRetries \in Nat
  /\ RecordersThrow \in BOOLEAN
  /\ MaxLength \in Nat
  /\ MaxAfterClear \in 0..MaxLength
  /\ MaxArrays \in Nat \ {0}

VARIABLES
  arrays,    \* the arrays this.chain has been
  current,   \* the one it is
  captured,  \* the array execution e was composed with, 0 before its call
  touched,   \* that array was edited since
  index,     \* the variable of composeExecution, -1 before the call
  frames,    \* the frames of e
  handled,   \* calls of the handler by e
  reported   \* what the observer in frame i of e has reported

editVars == <<captured, index, frames, handled, reported>>
runVars  == <<arrays, current, captured, touched>>
vars     == <<arrays, current, touched, editVars>>

Positions == 0..MaxLength
NoFrame == [mw |-> "none", st |-> "none", tries |-> 0, repeated |-> FALSE, err |-> "none"]

Init ==
  /\ arrays = [a \in 1..MaxArrays |-> <<>>]
  /\ current = 1
  /\ captured = [e \in Executions |-> 0]
  /\ touched = [e \in Executions |-> FALSE]
  /\ index = [e \in Executions |-> -1]
  /\ frames = [e \in Executions |-> [i \in Positions |-> NoFrame]]
  /\ handled = [e \in Executions |-> 0]
  /\ reported = [e \in Executions |-> [i \in Positions |-> {}]]

-----------------------------------------------------------------------------
(* The chain *)

chain == arrays[current]

\* indexOf(name): the first middleware of that name, if there is one.
indexOf(x) == {i \in DOMAIN chain : chain[i] = x /\ \A h \in 1..(i - 1) : chain[h] # x}

\* An edit in place: whoever captured the array sees it.
Edit(c) ==
  /\ arrays' = [arrays EXCEPT ![current] = c]
  /\ touched' = [e \in Executions |-> touched[e] \/ captured[e] = current]
  /\ UNCHANGED <<current, editVars>>

HasRoom == Len(chain) < IF current = 1 THEN MaxLength ELSE MaxAfterClear

add(m)     == HasRoom /\ Edit(Append(chain, m))
prepend(m) == HasRoom /\ Edit(<<m>> \o chain)

\* Both throw when there is no middleware x.
insertBefore(x, m) == HasRoom /\ \E i \in indexOf(x) : Edit(InsertAt(chain, i, m))
insertAfter(x, m)  == HasRoom /\ \E i \in indexOf(x) : Edit(InsertAt(chain, i + 1, m))

remove(x) == \E i \in indexOf(x) : Edit(RemoveAt(chain, i))

\* Mutant: the array is emptied in place.
clearInPlace ==
  /\ arrays' = [arrays EXCEPT ![current] = <<>>]
  /\ UNCHANGED <<current, touched, editVars>>

\* clear() starts a new array: executions under way keep the old one.
clear ==
  /\ current < MaxArrays
  /\ current' = current + 1
  /\ UNCHANGED <<arrays, touched, editVars>>

-----------------------------------------------------------------------------
(* dispatch *)

\* Logging (at a level that has completions), metrics and OpenTelemetry without
\* a tracer are of kind "observer", OpenTelemetry with one of kind "tracer".
Observers == {"observer", "tracer"}

EntryAt(seq, i) == IF i < Len(seq) THEN seq[i + 1] ELSE "handler"

\* dispatch(i) runs synchronously through the middleware that call next() at
\* once, down to the first that awaits something or to the handler - or to
\* an observer whose report of the start throws.
Ends(seq, i) ==
  {k \in i..MaxLength :
     /\ EntryAt(seq, k) \in {"user", "handler"} \/ (RecordersThrow /\ EntryAt(seq, k) \in Observers)
     /\ \A h \in i..(k - 1) : EntryAt(seq, h) \notin {"user", "handler"}}

\* The frame at position p of a descent that ends at k.
Frame(seq, p, k) ==
  LET mw == EntryAt(seq, p)
  IN  CASE p = k /\ mw = "user"       -> [NoFrame EXCEPT !.mw = mw, !.st = "before"]
        [] p = k /\ mw \in Observers -> [NoFrame EXCEPT !.mw = mw, !.st = "rejected", !.err = "recorder"]
        [] OTHER                      -> [NoFrame EXCEPT !.mw = mw, !.st = "running"]

\* Frames F of e, with the ones that dispatch(i) enters.
Enter(e, i, F, seq) ==
  \E k \in Ends(seq, i) :
    /\ index' = [index EXCEPT ![e] = k]
    /\ frames' = [frames EXCEPT ![e] =
                    [p \in Positions |-> IF p \in i..k THEN Frame(seq, p, k) ELSE F[p]]]
    /\ handled' = [handled EXCEPT ![e] = IF EntryAt(seq, k) = "handler" THEN @ + 1 ELSE @]

\* "next() called multiple times": the promise of this call is rejected.
Repeat(e, i, F) ==
  /\ frames' = [frames EXCEPT ![e] = [F EXCEPT ![i - 1].repeated = TRUE]]
  /\ UNCHANGED <<index, handled>>

\* Mutant: only an index below the last one counts as repeated.
dispatchLenient(e, i, F, seq) ==
  IF i < index[e] THEN Repeat(e, i, F) ELSE Enter(e, i, F, seq)

\* dispatch(i) of execution e over the array seq.
dispatch(e, i, F, seq) ==
  IF i <= index[e] THEN Repeat(e, i, F) ELSE Enter(e, i, F, seq)

\* composeExecution(entries(), handler)(ctx).
Execute(e) ==
  /\ captured[e] = 0
  /\ captured' = [captured EXCEPT ![e] = current]
  /\ dispatch(e, 0, frames[e], chain)
  /\ UNCHANGED <<arrays, current, touched, reported>>

-----------------------------------------------------------------------------
(* Frames *)

\* How the promise that frame i of e awaits has ended, if it has.
Inner(e, i) ==
  LET f == frames[e][i]
  IN  IF f.repeated THEN [st |-> "rejected", err |-> "repeated"]
      ELSE [st |-> frames[e][i + 1].st, err |-> frames[e][i + 1].err]

Settled == {"resolved", "rejected"}

\* Frame i of e, of kind mw, awaits a promise that has ended.
Resumes(e, i, mw) ==
  /\ i < MaxLength
  /\ frames[e][i].mw = mw
  /\ frames[e][i].st = "running"
  /\ Inner(e, i).st \in Settled

Settle(e, i, st, err) ==
  /\ frames' = [frames EXCEPT ![e][i].st = st, ![e][i].err = err]
  /\ UNCHANGED <<index, handled>>

SettleAsInner(e, i) == Settle(e, i, Inner(e, i).st, Inner(e, i).err)

Report(e, i, R) == reported' = [reported EXCEPT ![e][i] = @ \cup R]

\* Frame i of e passes on how next() ended and has reported it.
ReportsOutcome(e, i) ==
  /\ Report(e, i, {IF Inner(e, i).st = "resolved" THEN "completed" ELSE "failed"})
  /\ SettleAsInner(e, i)

\* One of its reports throws: it has made some of those in P, and rejects.
ReportThrows(e, i, P) ==
  /\ RecordersThrow
  /\ \E R \in SUBSET P : Report(e, i, R)
  /\ Settle(e, i, "rejected", "recorder")

\* Mutant: the completion is reported before it is known.
ObserverReportsFirst(e, i) ==
  /\ Resumes(e, i, "observer")
  /\ Report(e, i, {"completed"} \cup
                  IF Inner(e, i).st = "rejected" THEN {"failed"} ELSE {})
  /\ SettleAsInner(e, i)
  /\ UNCHANGED runVars

\* An observer reports how next() ended.  A report of completion that throws
\* is caught and reported as a failure; a report of failure that throws hides
\* the error.
ObserverResumes(e, i) ==
  /\ Resumes(e, i, "observer")
  /\ \/ ReportsOutcome(e, i)
     \/ ReportThrows(e, i, {r \in {"failed"} : Inner(e, i).st = "resolved"})
  /\ UNCHANGED runVars

\* A tracer also ends its span, after it has counted: when that throws, the
\* completion is counted already, and finish() counts the failure as well.
TracerResumes(e, i) ==
  /\ Resumes(e, i, "tracer")
  /\ \/ ReportsOutcome(e, i)
     \/ ReportThrows(e, i, {"failed"} \cup {r \in {"completed"} : Inner(e, i).st = "resolved"})
  /\ UNCHANGED runVars

\* next() wins the race of the timeout middleware; its timer is cleared.
TimeoutResumes(e, i) ==
  /\ Resumes(e, i, "timeout")
  /\ SettleAsInner(e, i)
  /\ UNCHANGED <<runVars, reported>>

\* Mutant: the timer only aborts a signal nobody listens to.
TimerOnlyAborts(e, i) ==
  /\ frames[e][i].mw = "timeout"
  /\ frames[e][i].st = "running"
  /\ UNCHANGED vars

\* The timer fires first: TimeoutError; what next() started goes on.
TimerFires(e, i) ==
  /\ frames[e][i].mw = "timeout"
  /\ frames[e][i].st = "running"
  /\ Settle(e, i, "rejected", "timeout")
  /\ UNCHANGED <<runVars, reported>>

\* Mutant: when the attempts are used up the last error is returned.
RetryReturnsError(e, i) ==
  /\ Resumes(e, i, "retry")
  /\ IF Inner(e, i).st = "rejected" /\ frames[e][i].tries < MaxRetries
     THEN /\ frames' = [frames EXCEPT ![e][i].st = "delay", ![e][i].tries = @ + 1]
          /\ UNCHANGED <<index, handled>>
     ELSE Settle(e, i, "resolved", "none")
  /\ UNCHANGED <<runVars, reported>>

\* retry: a failed attempt is followed by a delay while attempts are left.
RetryResumes(e, i) ==
  /\ Resumes(e, i, "retry")
  /\ IF Inner(e, i).st = "rejected" /\ frames[e][i].tries < MaxRetries
     THEN /\ frames' = [frames EXCEPT ![e][i].st = "delay", ![e][i].tries = @ + 1]
          /\ UNCHANGED <<index, handled>>
     ELSE SettleAsInner(e, i)
  /\ UNCHANGED <<runVars, reported>>

CallNext(e, i) ==
  dispatch(e, i + 1, [frames[e] EXCEPT ![i].st = "running", ![i].repeated = FALSE],
           arrays[captured[e]])

\* The delay of a retry is over: next() is called again.
DelayOver(e, i) ==
  /\ frames[e][i].st = "delay"
  /\ CallNext(e, i)
  /\ UNCHANGED <<runVars, reported>>

\* A user's middleware is done with what it awaited and calls next().
UserCallsNext(e, i) ==
  /\ frames[e][i].st = "before"
  /\ CallNext(e, i)
  /\ UNCHANGED <<runVars, reported>>

\* It fails before it gets there.
UserFails(e, i) ==
  /\ frames[e][i].st = "before"
  /\ Settle(e, i, "rejected", "user")
  /\ UNCHANGED <<runVars, reported>>

UserResumes(e, i) ==
  /\ Resumes(e, i, "user")
  /\ SettleAsInner(e, i)
  /\ UNCHANGED <<runVars, reported>>

\* The handler's promise settles.
HandlerEnds(e, i) ==
  /\ frames[e][i].mw = "handler"
  /\ frames[e][i].st = "running"
  /\ Settle(e, i, "resolved", "none") \/ Settle(e, i, "rejected", "handler")
  /\ UNCHANGED <<runVars, reported>>

-----------------------------------------------------------------------------

EditChain ==
  \/ \E m \in Kinds : add(m) \/ prepend(m)
  \/ \E x, m \in Kinds : insertBefore(x, m) \/ insertAfter(x, m)
  \/ \E x \in Kinds : remove(x)
  \/ clear

\* What promise callbacks and timers do without help from outside.
FrameStep(e, i) ==
  \/ ObserverResumes(e, i)
  \/ TracerResumes(e, i)
  \/ TimeoutResumes(e, i)
  \/ RetryResumes(e, i)
  \/ DelayOver(e, i)
  \/ UserResumes(e, i)

Next ==
  \/ EditChain
  \/ \E e \in Executions :
       \/ Execute(e)
       \/ \E i \in Positions :
            \/ FrameStep(e, i)
            \/ TimerFires(e, i)
            \/ UserCallsNext(e, i)
            \/ UserFails(e, i)
            \/ HandlerEnds(e, i)

Spec == Init /\ [][Next]_vars

\* Promise callbacks run and timers fire.  Nothing is said of the handler, nor of
\* a user's middleware, which may await what it likes before and after next().
Fairness ==
  \A e \in Executions, i \in Positions :
    /\ WF_vars(FrameStep(e, i) /\ frames[e][i].mw # "user")
    /\ WF_vars(TimerFires(e, i))

FairSpec == Spec /\ Fairness

-----------------------------------------------------------------------------
(* Properties *)

FrameStates == {"none", "before", "running", "delay"} \cup Settled
Errors == {"none", "handler", "user", "timeout", "recorder", "repeated"}
Frames == [mw : Kinds \cup {"none", "handler"}, st : FrameStates,
           tries : 0..MaxRetries, repeated : BOOLEAN, err : Errors]

\* Every variable has its type.
TypeOK ==
  /\ arrays \in [1..MaxArrays -> SeqOf(Kinds, MaxLength)]
  /\ current \in 1..MaxArrays
  /\ captured \in [Executions -> 0..MaxArrays]
  /\ touched \in [Executions -> BOOLEAN]
  /\ index \in [Executions -> -1..MaxLength]
  /\ frames \in [Executions -> [Positions -> Frames]]
  /\ reported \in [Executions -> [Positions -> SUBSET {"completed", "failed"}]]
  /\ handled \in [Executions -> Nat]

\* However the chain is edited, whatever times out and however often retry
\* calls next(), one execution calls its handler at most once: the guard
\* "next() called multiple times" of dispatch (middleware.ts:137).
HandlerAtMostOnce == \A e \in Executions : handled[e] <= 1

\* An execution resolves only if its handler did: what the worker acks has
\* been done (worker.ts:439-440).
ResolvedMeansDone ==
  \A e \in Executions : frames[e][0].st = "resolved" =>
    \E i \in Positions : frames[e][i].mw = "handler" /\ frames[e][i].st = "resolved"

\* The onion: when the handler runs, every middleware of the chain the
\* execution was composed with wraps it, in order, unless that very array was
\* edited meanwhile; clear() is no such edit (middleware.ts:125-152).
OnionOrder ==
  \A e \in Executions : handled[e] > 0 /\ ~touched[e] =>
    LET seq == arrays[captured[e]]
    IN  \A i \in 0..Len(seq) : frames[e][i].mw = EntryAt(seq, i)

\* What an observer reports is what the middleware around it see, also when
\* a report throws (metrics.ts:60-69, otel.ts:78-91): it counts a job as
\* completed only when it resolves.  The one exception is a tracer that fails
\* by a throw of its own, after the count (otel.ts:118-132).
ObserversTellOutcome ==
  \A e \in Executions, i \in Positions :
    LET f == frames[e][i]
        R == reported[e][i]
    IN  f.mw \in Observers =>
          /\ f.st = "resolved" => R = {"completed"}
          /\ "failed" \in R => f.st = "rejected"
          /\ "completed" \in R => f.st = "resolved" \/ (f.mw = "tracer" /\ f.err = "recorder")
          /\ f.st = "rejected" /\ f.err # "recorder" => R = {"failed"}

\* A user's middleware with no timeout around it has not gone on after next().
Lingers(e, i) ==
  /\ Resumes(e, i, "user")
  /\ \A h \in 0..(i - 1) : frames[e][h].mw # "timeout"

\* "Aborts job execution if it exceeds the configured timeout duration"
\* (timeout.ts:4): once a timeout frame is entered the execution settles,
\* although handlers and user middleware inside it may hang for ever, unless a
\* user's middleware outside it awaits something of its own after next().
TimeoutBounds ==
  \A e \in Executions :
    (\E i \in Positions : frames[e][i].mw = "timeout")
      ~> frames[e][0].st \in Settled \/ \E i \in Positions : Lingers(e, i)
=============================================================================
