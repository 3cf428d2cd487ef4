---------------------------- MODULE GrpcTransport ----------------------------
(***************************************************************************)
(* GrpcTransport (src/src/transport/grpc.ts): calls of request() that      *)
(* share a lazily created gRPC client, and close().                        *)
(*                                                                         *)
(* The client is created by the first call that needs it; the others wait  *)
(* for the same promise.  Each call then imports grpc-js, and only then    *)
(* takes this.client to send its RPC: close() may come in between.         *)
(* Channels, deadlines and the server are outside this repository.         *)
(***************************************************************************)
EXTENDS Integers, ProtoValues

CONSTANTS
  Calls,      \* calls of request()
  Requests,   \* Requests[c]: the requests call c may make
  Metadata,   \* what config.metadata, apiKey and auth may be: "valid" or "invalid" metadata
  MaxCloses   \* bound: calls of close() that find a client

ASSUME GrpcAssumption ==
  /\ MaxCloses \in Nat
  /\ Metadata \subseteq {"valid", "invalid"}
  /\ \A c \in Calls : \A req \in Requests[c] : req.args \in Seq(Values)

VARIABLES
  metadata,    \* this.defaultMetadata
  initPromise, \* "none", "pending", "done" or "failed"
  inits,       \* runs of initClient under way
  client,      \* this.client: the number of its channel, 0 for null
  channels,    \* channels created so far
  open,        \* those that have not been closed
  phase,       \* phase[c]: where call c is
  asked,       \* asked[c]: what it asks for, NoRequest before
  sent,        \* calls whose RPC has been sent
  received,    \* received[c]: what the server got of it, NoMessage before
  result,      \* result[c]: the job it resolved with, by the call that enqueued it
  error,       \* error[c]: the class of the error it rejected with
  interrupted  \* calls whose client close() took away before they were sent

connection == <<metadata, initPromise, inits, client, channels, open>>
vars == <<connection, phase, asked, sent, received, result, error, interrupted>>

NoRequest == [route |-> "none", args |-> <<>>, options |-> FALSE]
NoMessage == [arrived |-> FALSE, args |-> <<>>, options |-> FALSE]
NoJob     == [of |-> {}, args |-> <<>>]
Settled   == {"resolved", "rejected"}

Init ==
  /\ metadata \in Metadata
  /\ initPromise = "none"
  /\ inits = 0
  /\ client = 0
  /\ channels = 0
  /\ open = {}
  /\ phase = [c \in Calls |-> "idle"]
  /\ asked = [c \in Calls |-> NoRequest]
  /\ sent = {}
  /\ received = [c \in Calls |-> NoMessage]
  /\ result = [c \in Calls |-> NoJob]
  /\ error = [c \in Calls |-> "none"]
  /\ interrupted = {}

-----------------------------------------------------------------------------
(* What is sent and what comes back *)

\* "fetch" stands for the RPCs that answer with jobs the server has got before
\* (fetch, getJob, cancelJob, listDeadLetter, retryDeadLetter), "registerCron"
\* for those that take arguments and answer without a job (registerCron,
\* createWorkflow), "other" for the rest.  "absent" is an RPC the loaded proto
\* file does not have; "progress" has no RPC; "unknown" is not routed.
Routes == {"enqueue", "enqueueBatch", "fetch", "registerCron", "other", "absent", "progress",
           "unknown"}

\* The routes whose answer is the job that was sent.
AnswersWithJob == {"enqueue", "enqueueBatch"}

\* What a job has under options, where OJSClient puts it, reaches the message...
mapEnqueueOptions(req) == req.options

\* The arguments of a job, of a cron job's jobs, of a step of a workflow.
protoArgs(req) == [i \in DOMAIN req.args |-> toProtoValue[req.args[i]]]

\* ...of a single job; a job of a batch must have queue or priority beside its
\* type for its options to be mapped at all.
Message(req) ==
  [arrived |-> TRUE,
   args    |-> protoArgs(req),
   options |-> req.route = "enqueue" /\ mapEnqueueOptions(req)]

\* Mutant: the arguments of a job are handed on as they come.
RawArguments(msg) == msg.args

\* The calls whose jobs call c may be answered with: its own, or any the server has.
JobsFor(c) ==
  CASE asked[c].route \in AnswersWithJob -> {c}
    [] asked[c].route = "fetch" ->
         {d \in Calls : received[d].arrived /\ asked[d].route \in AnswersWithJob}
    [] OTHER -> {}

\* The arguments of the job in the answer.
fromProtoJob(msg) == [i \in DOMAIN msg.args |-> fromProtoValue[msg.args[i]]]

Statuses == {"INVALID_ARGUMENT", "NOT_FOUND", "ALREADY_EXISTS", "FAILED_PRECONDITION",
             "RESOURCE_EXHAUSTED", "UNAVAILABLE", "DEADLINE_EXCEEDED", "CANCELLED",
             "PERMISSION_DENIED", "UNIMPLEMENTED", "INTERNAL"}

mapGrpcError(status) ==
  CASE status = "INVALID_ARGUMENT"    -> "OJSValidationError"
    [] status = "NOT_FOUND"           -> "OJSNotFoundError"
    [] status = "ALREADY_EXISTS"      -> "OJSDuplicateError"
    [] status = "FAILED_PRECONDITION" -> "OJSConflictError"
    [] status = "RESOURCE_EXHAUSTED"  -> "OJSRateLimitError"
    [] status \in {"UNAVAILABLE", "DEADLINE_EXCEEDED", "CANCELLED"} -> "OJSConnectionError"
    [] status \in {"PERMISSION_DENIED", "UNIMPLEMENTED"}            -> "OJSError"
    [] OTHER                          -> "OJSServerError"

-----------------------------------------------------------------------------
(* The calls *)

Enter(c, p) == phase' = [phase EXCEPT ![c] = p] /\ UNCHANGED error

Reject(c, err) ==
  /\ phase' = [phase EXCEPT ![c] = "rejected"]
  /\ error' = [error EXCEPT ![c] = err]

\* initClient is started and its promise kept.
StartInit(c) ==
  /\ Enter(c, "starting")
  /\ initPromise' = "pending"
  /\ inits' = inits + 1

\* Mutant: the promise is kept, but not looked at.
EnsureForgets(c) ==
  IF client # 0
  THEN Enter(c, "importing") /\ UNCHANGED <<initPromise, inits>>
  ELSE StartInit(c)

\* A promise that has failed is kept for good.
ensureClient(c) ==
  CASE client # 0 ->
         Enter(c, "importing") /\ UNCHANGED <<initPromise, inits>>
    [] client = 0 /\ initPromise = "none" ->
         StartInit(c)
    [] client = 0 /\ initPromise = "failed" ->
         Reject(c, "OJSConnectionError") /\ UNCHANGED <<initPromise, inits>>
    [] OTHER ->
         Enter(c, "starting") /\ UNCHANGED <<initPromise, inits>>

\* request(), up to its first await.
routeRequest(c) ==
  /\ phase[c] = "idle"
  /\ \E req \in Requests[c] :
       /\ asked' = [asked EXCEPT ![c] = req]
       /\ CASE req.route = "unknown"  -> Reject(c, "OJSError") /\ UNCHANGED <<initPromise, inits>>
            [] req.route = "progress" -> Enter(c, "resolved") /\ UNCHANGED <<initPromise, inits>>
            [] OTHER                  -> ensureClient(c)
  /\ UNCHANGED <<metadata, client, channels, open, sent, received, result, interrupted>>

\* initClient finds the dependencies and the proto files.  The calls that wait
\* for it go on to import grpc-js.
InitDone ==
  /\ inits > 0
  /\ inits' = inits - 1
  /\ initPromise' = "done"
  /\ channels' = channels + 1
  /\ client' = channels + 1
  /\ open' = open \cup {channels + 1}
  /\ phase' = [c \in Calls |-> IF phase[c] = "starting" THEN "importing" ELSE phase[c]]
  /\ UNCHANGED <<metadata, asked, sent, received, result, error, interrupted>>

\* It does not find them: the calls that wait for it reject.
InitFails ==
  /\ inits > 0
  /\ inits' = inits - 1
  /\ initPromise' = "failed"
  /\ phase' = [c \in Calls |-> IF phase[c] = "starting" THEN "rejected" ELSE phase[c]]
  /\ error' = [c \in Calls |-> IF phase[c] = "starting" THEN "OJSConnectionError" ELSE error[c]]
  /\ UNCHANGED <<metadata, client, channels, open, asked, sent, received, result, interrupted>>

ImportFails(c) ==
  /\ phase[c] = "importing"
  /\ Reject(c, "OJSConnectionError")
  /\ UNCHANGED <<connection, asked, sent, received, result, interrupted>>

\* Mutant: a method the client does not have is not looked for.
SendUnchecked(c) ==
  /\ phase[c] = "importing"
  /\ IF metadata = "invalid" \/ client = 0 \/ asked[c].route = "absent"
     THEN Enter(c, "lost") /\ UNCHANGED sent
     ELSE Enter(c, "waiting") /\ sent' = sent \cup {c}
  /\ UNCHANGED <<connection, asked, received, result, interrupted>>

\* Setting a key or a value that gRPC does not allow in metadata throws, and
\* so does reading a method of this.client when it is null.
Throws == metadata = "invalid" \/ client = 0

\* call() goes on after the import.  What throws here throws inside the
\* promise's async executor: nothing will ever settle the promise.
Send(c) ==
  /\ phase[c] = "importing"
  /\ CASE Throws ->
            Enter(c, "lost") /\ UNCHANGED sent
       [] ~Throws /\ asked[c].route = "absent" ->
            Reject(c, "OJSError") /\ UNCHANGED sent
       [] OTHER ->
            Enter(c, "waiting") /\ sent' = sent \cup {c}
  /\ UNCHANGED <<connection, asked, received, result, interrupted>>

\* The server carries the RPC out, perhaps after the deadline has passed.
ServerExecutes(c) ==
  /\ c \in sent
  /\ phase[c] = "waiting" \/ error[c] = "OJSConnectionError"
  /\ ~received[c].arrived
  /\ received' = [received EXCEPT ![c] = Message(asked[c])]
  /\ UNCHANGED <<connection, phase, asked, sent, result, error, interrupted>>

Answered(c) ==
  /\ phase[c] = "waiting"
  /\ received[c].arrived
  /\ Enter(c, "resolved")
  /\ \/ \E d \in JobsFor(c) :
          result' = [result EXCEPT ![c] = [of |-> {d}, args |-> fromProtoJob(received[d])]]
     \/ asked[c].route \notin AnswersWithJob /\ UNCHANGED result
  /\ UNCHANGED <<connection, asked, sent, received, interrupted>>

\* Mutant: the callback does not look at the error.
ErrorIgnored(c, status) ==
  /\ phase[c] = "waiting"
  /\ Enter(c, "resolved")
  /\ UNCHANGED <<connection, asked, sent, received, result, interrupted>>

\* grpc-js reports an error: the server's, a broken channel, the deadline.
Failed(c, status) ==
  /\ phase[c] = "waiting"
  /\ Reject(c, mapGrpcError(status))
  /\ UNCHANGED <<connection, asked, sent, received, result, interrupted>>

\* close(): without a client it does nothing.
close ==
  /\ client # 0
  /\ channels <= MaxCloses
  /\ open' = open \ {client}
  /\ client' = 0
  /\ initPromise' = "none"
  /\ interrupted' = interrupted \cup {c \in Calls : phase[c] = "importing"}
  /\ UNCHANGED <<metadata, inits, channels, phase, asked, sent, received, result, error>>

Step(c) ==
  \/ routeRequest(c)
  \/ ImportFails(c)
  \/ Send(c)
  \/ ServerExecutes(c)
  \/ Answered(c)
  \/ \E status \in Statuses : Failed(c, status)

Next == InitDone \/ InitFails \/ close \/ \E c \in Calls : Step(c)

Spec == Init /\ [][Next]_vars

\* Loading modules and files ends, promises are continued, and grpc-js reports
\* a deadline that has passed.
Fairness ==
  /\ WF_vars(InitDone \/ InitFails)
  /\ \A c \in Calls : WF_vars(ImportFails(c) \/ Send(c))
  /\ \A c \in Calls : WF_vars(Answered(c) \/ Failed(c, "DEADLINE_EXCEEDED"))

FairSpec == Spec /\ Fairness

-----------------------------------------------------------------------------
(* Properties *)

\* Every variable has its type, and the server gets nothing that was not sent.
TypeOK ==
  /\ metadata \in {"valid", "invalid"}
  /\ initPromise \in {"none", "pending", "done", "failed"}
  /\ inits \in Nat
  /\ client \in 0..channels
  /\ channels \in 0..(MaxCloses + 1)
  /\ open \subseteq 1..channels
  /\ phase \in [Calls -> {"idle", "starting", "importing", "waiting", "lost"} \cup Settled]
  /\ \A c \in Calls : asked[c] \in Requests[c] \cup {NoRequest}
  /\ sent \subseteq Calls
  /\ \A c \in Calls : received[c].arrived => c \in sent
  /\ error \in [Calls -> {"none", "OJSValidationError", "OJSNotFoundError", "OJSDuplicateError",
                          "OJSConflictError", "OJSRateLimitError", "OJSConnectionError",
                          "OJSServerError", "OJSError"}]
  /\ interrupted \subseteq Calls

\* However calls, the start of the client and close() interleave, at most one
\* channel is open, and it is the one this.client holds and close() will close
\* (grpc.ts:105-111, :686-692).
NoOrphanChannel == open = IF client = 0 THEN {} ELSE {client}

\* A call ends, although the server never answers - unless the transport was
\* given metadata that gRPC refuses, or close() took the client away between
\* ensureClient and the sending of the RPC (grpc.ts:189-242).
CallsEnd ==
  \A c \in Calls :
    phase[c] # "idle" ~> \/ phase[c] \in Settled
                        \/ metadata = "invalid" \/ c \in interrupted

\* A job that comes back, to the call that enqueued it or to another that fetches
\* it, has the arguments it was enqueued with, in the same places: what comes
\* back differs from what was sent in zeros and nulls at most, and an argument
\* that has no zero in it comes back unchanged (grpc.ts:701-749, :752-773).
ArgumentsReturn ==
  \A c \in Calls : \A d \in result[c].of :
    LET args == asked[d].args
        back == result[c].args
    IN  /\ back \in Seq(Values) /\ DOMAIN back = DOMAIN args
        /\ \A i \in DOMAIN args :
             /\ Blanked[back[i]] = Blanked[args[i]]
             /\ Blanked[args[i]] = args[i] => back[i] = args[i]

\* A call that needs an RPC is a remote call: it ends at most once, and well
\* only if the server has carried the RPC out.  ("progress" needs none: it ends
\* well and no one is told, grpc.ts:490-493.)
Outcome(c) ==
  IF phase[c] = "idle" \/ asked[c].route = "progress" THEN "idle"
  ELSE CASE phase[c] = "resolved" -> "answered"
         [] phase[c] = "rejected" -> "failed"
         [] OTHER                 -> "pending"

Remote(c) == INSTANCE RemoteCall WITH
               outcome <- Outcome(c), applied <- received[c].arrived

\* Spec of Remote(c), for all calls at once.
ImplementsRemoteCall ==
  /\ \A c \in Calls : Remote(c)!Init
  /\ [][\A c \in Calls : [Remote(c)!Next]_<<Outcome(c), received[c].arrived>>]_vars

\* "Maps enqueue body options to proto EnqueueOptions" (grpc.ts:855): a job
\* that is enqueued with options reaches the server with them.
OptionsReachServer ==
  \A c \in Calls : received[c].arrived => received[c].options = asked[c].options
=============================================================================
