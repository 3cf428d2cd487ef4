---------------------------- MODULE HttpTransport ----------------------------
(***************************************************************************)
(* One call of HttpTransport.request (src/src/transport/http.ts), with the *)
(* retry decision of rate-limiter.ts and the error classes of errors.ts.   *)
(*                                                                         *)
(* A call makes attempts one after the other; each arms a timeout, sends a *)
(* request with fetch(), reads the body of the answer and ends in a result *)
(* or an error.  The server, the network, the timers and the caller's      *)
(* AbortSignal act in between.  What follows an answer or an abort in the  *)
(* same turn of the event loop is one step.  The names differ from those   *)
(* of GrpcTransport, since TransportProofs speaks of both.                 *)
(***************************************************************************)
EXTENDS Integers

CONSTANTS
  MaxRetries   \* retryConfig.maxRetries

ASSUME HttpAssumption == MaxRetries \in Nat

VARIABLES
  config,    \* retryConfig.enabled and retryConfig.retryServerErrors
  signal,    \* options.signal: "none", "live" or "aborted"
  stage,     \* where the call is
  attempt,   \* the variable of the loop
  timer,     \* the attempts whose timeout is armed
  listeners, \* the attempts whose listener is on the caller's signal
  answers,   \* status of the answer to each attempt, "none" before it
  executed,  \* attempts the server has carried out
  thrown     \* what the call rejected with

callVars == <<config, signal, stage, attempt, timer, listeners, answers, executed, thrown>>

\* 200, 204, 429, 502 / 503 / 504, other 5xx, other 4xx.
Responses == {"ok", "empty", "limited", "gateway", "server", "client"}
Success   == {"ok", "empty"}
Attempts  == 0..MaxRetries
answer    == answers[attempt]
Ends      == {"resolved", "rejected"}

CallInit ==
  /\ config \in [enabled : BOOLEAN, retryServerErrors : BOOLEAN]
  /\ signal \in {"none", "live", "aborted"}
  /\ stage = "idle"
  /\ attempt = 0
  /\ timer = {}
  /\ listeners = {}
  /\ answers = [a \in Attempts |-> "none"]
  /\ executed = {}
  /\ thrown = "none"

-----------------------------------------------------------------------------

\* The class of the error for an answer that is no success.
parseErrorResponse(status) ==
  CASE status = "limited"               -> "OJSRateLimitError"
    [] status \in {"gateway", "server"} -> "OJSServerError"
    [] OTHER                            -> "OJSError"

\* isRetryableStatus of an OJSServerError.
isRetryableStatus(status) == config.retryServerErrors /\ status = "gateway"

\* Mutant: whatever fails is tried again.
RetryAnything(err, status) == config.enabled /\ attempt < MaxRetries

\* The condition of the catch block of request().
Retries(err, status) ==
  /\ err = "OJSRateLimitError" \/ (err = "OJSServerError" /\ isRetryableStatus(status))
  /\ config.enabled
  /\ attempt < MaxRetries

Throw(err) == stage' = "rejected" /\ thrown' = err

\* executeRequest() throws err for an answer of the given status ("none" when
\* there is no answer): the call sleeps before another attempt, or rejects.
\* A signal that has been aborted ends the sleep before it starts.
Fail(err, status) ==
  \/ /\ Retries(err, status)
     /\ signal # "aborted"
     /\ stage' = "sleeping"
     /\ UNCHANGED thrown
  \/ /\ Retries(err, status)
     /\ signal = "aborted"
     /\ Throw("reason")
  \/ /\ ~Retries(err, status)
     /\ Throw(err)

\* executeRequest() for attempt a, up to fetch().  The signal is listened to,
\* not looked at.
executeRequest(a) ==
  /\ attempt' = a
  /\ stage' = "fetching"
  /\ timer' = timer \cup {a}
  /\ listeners' = IF signal = "none" THEN listeners ELSE listeners \cup {a}

request ==
  /\ stage = "idle"
  /\ executeRequest(0)
  /\ UNCHANGED <<config, signal, answers, executed, thrown>>

\* The request of attempt a reaches the server, which carries it out unless it
\* refuses it by a 429; it may get there after the call has given up on it.
RequestExecuted(a) ==
  /\ stage # "idle"
  /\ a \in 0..attempt
  /\ answers[a] # "limited"
  /\ executed' = executed \cup {a}
  /\ UNCHANGED <<config, signal, stage, attempt, timer, listeners, answers, thrown>>

\* The server, or a proxy, answers the attempt under way: with success when it
\* carried it out, with a 429 when it did not.
AnswerArrives(status) ==
  /\ status \in Success => attempt \in executed
  /\ status = "limited" => attempt \notin executed
  /\ answers' = [answers EXCEPT ![attempt] = status]

\* Mutant: an answer without content leaves the timer armed.
EmptyKeepsTimer ==
  /\ stage = "fetching"
  /\ AnswerArrives("empty")
  /\ stage' = "resolved"
  /\ UNCHANGED <<config, signal, attempt, timer, listeners, executed, thrown>>

\* 204: no body is read.
EmptyAnswer ==
  /\ stage = "fetching"
  /\ AnswerArrives("empty")
  /\ stage' = "resolved"
  /\ timer' = timer \ {attempt}
  /\ UNCHANGED <<config, signal, attempt, listeners, executed, thrown>>

\* Mutant: the timeout covers the headers only.
HeadersStopTimer ==
  /\ stage = "fetching"
  /\ \E status \in Responses \ {"empty"} : AnswerArrives(status)
  /\ stage' = "reading"
  /\ timer' = timer \ {attempt}
  /\ UNCHANGED <<config, signal, attempt, listeners, executed, thrown>>

\* The headers of any other answer arrive.  removeEventListener is given
\* another function than addEventListener was, so the listener stays.  A
\* proxy may answer 502 or 504 for a request the server carried out.
HeadersArrive ==
  /\ stage = "fetching"
  /\ \E status \in Responses \ {"empty"} : AnswerArrives(status)
  /\ stage' = "reading"
  /\ UNCHANGED <<config, signal, attempt, timer, listeners, executed, thrown>>

\* The body is there and is JSON.
BodyParsed ==
  /\ stage = "reading"
  /\ timer' = timer \ {attempt}
  /\ IF answer \in Success
     THEN stage' = "resolved" /\ UNCHANGED thrown
     ELSE Fail(parseErrorResponse(answer), answer)
  /\ UNCHANGED <<config, signal, attempt, listeners, answers, executed>>

\* It is not (a proxy's HTML page, say), or the connection breaks: an
\* OJSConnectionError, whatever the status was.
BodyFails ==
  /\ stage = "reading"
  /\ timer' = timer \ {attempt}
  /\ Fail("OJSConnectionError", "none")
  /\ UNCHANGED <<config, signal, attempt, listeners, answers, executed>>

\* fetch() rejects with a network error.
FetchFails ==
  /\ stage = "fetching"
  /\ timer' = timer \ {attempt}
  /\ Fail("OJSConnectionError", "none")
  /\ UNCHANGED <<config, signal, attempt, listeners, answers, executed>>

\* The timeout of attempt a aborts its controller: fetch() or the reading of
\* the body rejects, which becomes an OJSConnectionError.
TimeoutFires(a) ==
  /\ a \in timer
  /\ timer' = timer \ {a}
  /\ IF a = attempt /\ stage \in {"fetching", "reading"}
     THEN Fail("OJSConnectionError", "none")
     ELSE UNCHANGED <<stage, thrown>>
  /\ UNCHANGED <<config, signal, attempt, listeners, answers, executed>>

\* Mutant: the sleep does not listen to the signal.
SignalMissesSleep ==
  /\ signal = "live"
  /\ signal' = "aborted"
  /\ IF stage \in {"fetching", "reading"} /\ attempt \in listeners
     THEN /\ Throw("OJSConnectionError")
          /\ timer' = timer \ {attempt}
     ELSE UNCHANGED <<stage, thrown, timer>>
  /\ UNCHANGED <<config, attempt, listeners, answers, executed>>

\* The caller aborts: the listeners abort the controllers, a sleep rejects
\* with the signal's reason.
SignalAborts ==
  /\ signal = "live"
  /\ signal' = "aborted"
  /\ CASE stage \in {"fetching", "reading"} /\ attempt \in listeners ->
            /\ Throw("OJSConnectionError")
            /\ timer' = timer \ {attempt}
       [] stage = "sleeping" -> Throw("reason") /\ UNCHANGED timer
       [] OTHER -> UNCHANGED <<stage, thrown, timer>>
  /\ UNCHANGED <<config, attempt, listeners, answers, executed>>

\* abortableSleep is over: the loop goes on.
SleepOver ==
  /\ stage = "sleeping"
  /\ executeRequest(attempt + 1)
  /\ UNCHANGED <<config, signal, answers, executed, thrown>>

CallNext ==
  \/ request
  \/ EmptyAnswer
  \/ HeadersArrive
  \/ BodyParsed
  \/ BodyFails
  \/ FetchFails
  \/ \E a \in Attempts : RequestExecuted(a) \/ TimeoutFires(a)
  \/ SignalAborts
  \/ SleepOver

CallSpec == CallInit /\ [][CallNext]_callVars

\* Timers fire; nothing is said of the server and the network.
CallFairness == /\ \A a \in Attempts : WF_callVars(TimeoutFires(a))
                /\ WF_callVars(SleepOver)

CallFairSpec == CallSpec /\ CallFairness

-----------------------------------------------------------------------------
(* Properties *)

\* Every variable has its type; the attempts are at most maxRetries + 1.
CallTypeOK ==
  /\ config \in [enabled : BOOLEAN, retryServerErrors : BOOLEAN]
  /\ signal \in {"none", "live", "aborted"}
  /\ stage \in {"idle", "fetching", "reading", "sleeping"} \cup Ends
  /\ attempt \in Attempts
  /\ timer \subseteq Attempts
  /\ listeners \subseteq Attempts
  /\ answers \in [Attempts -> Responses \cup {"none"}]
  /\ executed \subseteq Attempts
  /\ thrown \in {"none", "OJSRateLimitError", "OJSServerError", "OJSError",
                "OJSConnectionError", "reason"}

\* Every way out of an attempt clears its timeout: the only timer that can be
\* armed is the one of the attempt under way (http.ts:125, :133, :141, :154).
TimersCleared ==
  timer \subseteq (IF stage \in {"fetching", "reading"} THEN {attempt} ELSE {})

\* The server carries a request out once, whatever answers are lost, late or
\* unreadable and whatever is resent - unless the caller lets 502, 503 and 504
\* be tried again, as is the default: then a proxy may have given that answer
\* for a server that did carry the attempt out (http.ts:58-69).
DoneOnceUnlessProxied ==
  \A a \in executed : a < attempt =>
    config.enabled /\ config.retryServerErrors /\ answers[a] = "gateway"

\* A caller that aborts during the call is not followed by another request
\* (http.ts:95-98, :191-196).
AbortStopsRequests ==
  [][stage' = "fetching" /\ stage # "fetching" => signal # "aborted" \/ stage = "idle"]_callVars

\* A call is a remote call as the worker and the client rely on it: it ends
\* although server and network never say a word more ("keep timeout active
\* through body parsing - a slow body could still hang", http.ts:115-116), and
\* resolves only if the server has carried it out.
RemoteRequest ==
  INSTANCE RemoteCall WITH
    outcome <- CASE stage = "idle"     -> "idle"
                 [] stage = "resolved" -> "answered"
                 [] stage = "rejected" -> "failed"
                 [] OTHER              -> "pending",
    applied <- executed # {}

\* request() implements the abstract remote call, its end included (http.ts:61-203).
RequestIsRemoteCall == RemoteRequest!FairSpec
=============================================================================
