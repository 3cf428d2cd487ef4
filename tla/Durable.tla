------------------------------- MODULE Durable -------------------------------
(***************************************************************************)
(* Durable execution: class DurableContext of src/src/durable.ts, used by  *)
(* a job handler over several attempts.                                    *)
(*                                                                         *)
(* A handler is a program, the same in every attempt: a sequence of steps  *)
(*   [kind |-> "time" | "random", ops |-> <<o>>]      now(), random()      *)
(*   [kind |-> "call", ops |-> <<o1, ...>>]           sideEffect() of each *)
(*       op, started together when there are several (Promise.all)         *)
(*   [kind |-> "checkpoint" | "complete", ops |-> <<>>]                    *)
(* An attempt may end at any moment: a crash, a handler or request that    *)
(* fails, a lost ack.  Its memory is gone, and the server hands the job    *)
(* out again.  The value of an op is <<op, n>>, n counting the times it    *)
(* was really carried out; what an op does in the world it does when it is *)
(* carried out, not when its result is recorded.                           *)
(***************************************************************************)
EXTENDS Integers, Sequences, FiniteSets

CONSTANTS
  Programs,       \* the handlers to choose from
  Ops,            \* the operations they use
  Keyless,        \* the ops whose sideEffect() is given the empty key
  None,           \* no value
  MaxAttempts     \* bound: attempts of the job

\* The steps a handler is made of.
Steps == [kind : {"time", "random"}, ops : {<<o>> : o \in Ops}]
         \cup [kind : {"call"}, ops : Seq(Ops)]
         \cup [kind : {"checkpoint", "complete"}, ops : {<<>>}]

\* No op occurs twice in a handler: the key of a call is "a unique key
\* identifying this side effect" (durable.ts:148), and an op of now() or
\* random() stands for one call of theirs.  The key of an op is the op, but
\* for those that have the empty key.
ASSUME DurableAssumption ==
  /\ MaxAttempts \in Nat \ {0}
  /\ Keyless \subseteq Ops
  /\ Programs \subseteq Seq(Steps)
  /\ \A p \in Programs : \A i, k \in DOMAIN p :
       \A j \in DOMAIN p[i].ops, l \in DOMAIN p[k].ops :
         p[i].ops[j] = p[k].ops[l] => i = k /\ j = l

VARIABLES
  program,    \* the handler of the job
  status,     \* of the job: "queued", "running" or "done"
  attempt,    \* its attempts so far
  saved,      \* the replay log of the checkpoint at the server, <<>> if none
  executed,   \* how often each op was carried out
  pc,         \* step of the handler
  called,     \* calls of the step that have been made
  pending,    \* ops whose function has not returned
  request,    \* request in flight: "none", "resume", "checkpoint", "complete"
  entries,    \* this.entries
  cursor,     \* this.cursor
  replaying,  \* this.replaying
  given,      \* what each op returned to the handler in this attempt
  blind       \* the request of create() failed in this attempt

memory == <<pc, called, pending, request, entries, cursor, replaying, given, blind>>
vars   == <<program, status, attempt, saved, executed, memory>>

NoValues == [o \in Ops |-> None]

Init ==
  /\ program \in Programs
  /\ status = "queued"
  /\ attempt = 0
  /\ saved = <<>>
  /\ executed = [o \in Ops |-> 0]
  /\ pc = 1
  /\ called = 0
  /\ pending = {}
  /\ request = "none"
  /\ entries = <<>>
  /\ cursor = 0
  /\ replaying = FALSE
  /\ given = NoValues
  /\ blind = FALSE

\* The handler is about to run step pc, of the given kind.
At(kind) ==
  /\ status = "running"
  /\ request = "none"
  /\ pc <= Len(program)
  /\ program[pc].kind = kind

-----------------------------------------------------------------------------
(* The replay log *)

\* Mutant: the key of a call is not compared.
MatchesAnyKey(o, type) ==
  /\ replaying
  /\ cursor < Len(entries)
  /\ entries[cursor + 1].type = type

\* The next entry of the log is taken for that of op o.  Calls have keys, and
\* the empty key fits every call; now() and random() go by the type alone.
Matches(o, type) ==
  /\ replaying
  /\ cursor < Len(entries)
  /\ entries[cursor + 1].type = type
  /\ type = "call" => o \in Keyless \/ entries[cursor + 1].key = o

\* Mutant: the cursor moves twice.
ReplaySkips(o) ==
  /\ given' = [given EXCEPT ![o] = entries[cursor + 1].result]
  /\ cursor' = cursor + 2
  /\ replaying' = (cursor + 2 < Len(entries))
  /\ UNCHANGED <<entries, executed>>

\* The recorded value is returned; after the last one the context records.
Replay(o) ==
  /\ given' = [given EXCEPT ![o] = entries[cursor + 1].result]
  /\ cursor' = cursor + 1
  /\ replaying' = (cursor + 1 < Len(entries))
  /\ UNCHANGED <<entries, executed>>

\* Op o is carried out anew, and the context replays no more.
CarryOut(o) ==
  /\ executed' = [executed EXCEPT ![o] = @ + 1]
  /\ replaying' = FALSE
  /\ UNCHANGED cursor

Record(o, type, n) ==
  /\ entries' = Append(entries, [type |-> type, key |-> o, result |-> <<o, n>>])
  /\ given' = [given EXCEPT ![o] = <<o, n>>]

\* Mutant: the log is not consulted.
DrawAfresh(kind) ==
  /\ At(kind)
  /\ LET o == program[pc].ops[1]
     IN  CarryOut(o) /\ Record(o, kind, executed[o] + 1)
  /\ pc' = pc + 1
  /\ UNCHANGED <<program, status, attempt, saved, called, pending, request, blind>>

\* now() and random() are synchronous.
Draw(kind) ==
  /\ At(kind)
  /\ LET o == program[pc].ops[1]
     IN  \/ Matches(o, kind) /\ Replay(o)
         \/ ~Matches(o, kind) /\ CarryOut(o) /\ Record(o, kind, executed[o] + 1)
  /\ pc' = pc + 1
  /\ UNCHANGED <<program, status, attempt, saved, called, pending, request, blind>>

\* Mutant: the function is called before the log is looked at.
SideEffectEager ==
  /\ At("call")
  /\ called < Len(program[pc].ops)
  /\ called' = called + 1
  /\ LET o == program[pc].ops[called + 1]
     IN  \/ /\ Matches(o, "call")
            /\ given' = [given EXCEPT ![o] = entries[cursor + 1].result]
            /\ cursor' = cursor + 1
            /\ replaying' = (cursor + 1 < Len(entries))
            /\ executed' = [executed EXCEPT ![o] = @ + 1]
            /\ UNCHANGED <<entries, pending>>
         \/ /\ ~Matches(o, "call")
            /\ CarryOut(o)
            /\ pending' = pending \cup {o}
            /\ UNCHANGED <<entries, given>>
  /\ UNCHANGED <<program, status, attempt, saved, pc, request, blind>>

\* sideEffect() of the next op of the step, up to the await of its function.
\* The calls of one step are made without a break.
sideEffect ==
  /\ At("call")
  /\ called < Len(program[pc].ops)
  /\ called' = called + 1
  /\ LET o == program[pc].ops[called + 1]
     IN  \/ Matches(o, "call") /\ Replay(o) /\ UNCHANGED pending
         \/ /\ ~Matches(o, "call")
            /\ CarryOut(o)
            /\ pending' = pending \cup {o}
            /\ UNCHANGED <<entries, given>>
  /\ UNCHANGED <<program, status, attempt, saved, pc, request, blind>>

\* The function of o returns; results are recorded in the order they arrive.
EffectReturns(o) ==
  /\ At("call")
  /\ called = Len(program[pc].ops)
  /\ o \in pending
  /\ pending' = pending \ {o}
  /\ Record(o, "call", executed[o])
  /\ UNCHANGED <<program, status, attempt, saved, executed, pc, called, request,
                 cursor, replaying, blind>>

\* Every call of the step has returned: the handler goes on.
StepDone ==
  /\ At("call")
  /\ called = Len(program[pc].ops)
  /\ pending = {}
  /\ pc' = pc + 1
  /\ called' = 0
  /\ UNCHANGED <<program, status, attempt, saved, executed, pending, request, entries,
                 cursor, replaying, given, blind>>

-----------------------------------------------------------------------------
(* Requests *)

\* The job is handed to a worker: a new context asks for the checkpoint.
create ==
  /\ status = "queued"
  /\ attempt < MaxAttempts
  /\ attempt' = attempt + 1
  /\ status' = "running"
  /\ request' = "resume"
  /\ UNCHANGED <<program, saved, executed, pc, called, pending, entries, cursor,
                 replaying, given, blind>>

\* An empty log counts as none.
Resumed ==
  /\ request = "resume"
  /\ request' = "none"
  /\ entries' = saved
  /\ replaying' = (saved # <<>>)
  /\ UNCHANGED <<program, status, attempt, saved, executed, pc, called, pending,
                 cursor, given, blind>>

\* Any error of the request counts as "no checkpoint available".
ResumeFails ==
  /\ request = "resume"
  /\ request' = "none"
  /\ blind' = TRUE
  /\ UNCHANGED <<program, status, attempt, saved, executed, pc, called, pending,
                 entries, cursor, replaying, given>>

Send(kind) ==
  /\ At(kind)
  /\ request' = kind
  /\ UNCHANGED <<program, status, attempt, saved, executed, pc, called, pending,
                 entries, cursor, replaying, given, blind>>

checkpoint == Send("checkpoint")
complete   == Send("complete")

\* What the request in flight does at the server.
Effect == CASE request = "checkpoint" -> entries
            [] request = "complete"   -> <<>>
            [] OTHER                  -> saved

Answered ==
  /\ request \in {"checkpoint", "complete"}
  /\ saved' = Effect
  /\ request' = "none"
  /\ pc' = pc + 1
  /\ UNCHANGED <<program, status, attempt, executed, called, pending, entries,
                 cursor, replaying, given, blind>>

\* The attempt ends before the job is acked.  A request in flight may or may
\* not have reached the server.
AttemptEnds ==
  /\ status = "running"
  /\ status' = "queued"
  /\ saved' \in {saved, Effect}
  /\ pc' = 1
  /\ called' = 0
  /\ pending' = {}
  /\ request' = "none"
  /\ entries' = <<>>
  /\ cursor' = 0
  /\ replaying' = FALSE
  /\ given' = NoValues
  /\ blind' = FALSE
  /\ UNCHANGED <<program, attempt, executed>>

\* The handler has returned and its ack is answered.
JobAcked ==
  /\ status = "running"
  /\ request = "none"
  /\ pc > Len(program)
  /\ status' = "done"
  /\ UNCHANGED <<program, attempt, saved, executed, memory>>

Next ==
  \/ create
  \/ Resumed
  \/ ResumeFails
  \/ Draw("time")
  \/ Draw("random")
  \/ sideEffect
  \/ \E o \in Ops : EffectReturns(o)
  \/ StepDone
  \/ checkpoint
  \/ complete
  \/ Answered
  \/ AttemptEnds
  \/ JobAcked

Spec == Init /\ [][Next]_vars

-----------------------------------------------------------------------------
(* Properties *)

\* No step of the handler has two calls under way at once.
Sequential == \A i \in DOMAIN program : Len(program[i].ops) <= 1

Entries == [type : {"time", "random", "call"}, key : Ops, result : Ops \X (Nat \ {0})]

\* Every variable has its type.
TypeOK ==
  /\ program \in Programs
  /\ status \in {"queued", "running", "done"}
  /\ attempt \in 0..MaxAttempts
  /\ saved \in Seq(Entries)
  /\ executed \in [Ops -> Nat]
  /\ pc \in 1..(Len(program) + 1)
  /\ called \in Nat
  /\ pending \subseteq Ops
  /\ request \in {"none", "resume", "checkpoint", "complete"}
  /\ entries \in Seq(Entries)
  /\ cursor \in 0..Len(entries)
  /\ replaying \in BOOLEAN
  /\ given \in [Ops -> (Ops \X (Nat \ {0})) \cup {None}]
  /\ blind \in BOOLEAN

SavedOps == {saved[i].result[1] : i \in DOMAIN saved}

\* In an attempt that got hold of the checkpoint, no op whose result is in
\* the checkpoint at the server is carried out again, not even when an
\* earlier attempt replaced that checkpoint without having seen the one
\* before (durable.ts:161-173).
RecordedRunsOnce ==
  [][Sequential /\ ~blind => \A o \in SavedOps : executed'[o] = executed[o]]_vars

\* What such an attempt sees is what the checkpoint says: a value drawn before
\* the crash is the value after it, for time, randomness and calls alike
\* (durable.ts:102-103, :144-146).
SameValuesAgain ==
  Sequential /\ ~blind =>
    \A i \in DOMAIN saved : given[saved[i].result[1]] \in {None, saved[i].result}

\* Op o is a call without a key, made together with others.
Unnamed(o) ==
  /\ o \in Keyless
  /\ \E i \in DOMAIN program : /\ Len(program[i].ops) > 1
                               /\ \E j \in DOMAIN program[i].ops : program[i].ops[j] = o

\* No op is ever given the value of another, not even when calls made
\* together finish in another order than they started in.  The exception is a
\* call with an empty key among them: it takes whatever call comes next on the
\* log (durable.ts:163).
OwnValues == \A o \in Ops : given[o] # None /\ ~Unnamed(o) => given[o][1] = o
=============================================================================
