--------------------------- MODULE TransportProofs ---------------------------
(***************************************************************************)
(* The two transports.  GrpcTransport, for any number of calls and of      *)
(* calls of close(), and for any requests; one call of HttpTransport, for  *)
(* every number of retries and every retry configuration.  Both implement  *)
(* RemoteCall, which is what the parts of the SDK that send requests rely  *)
(* on.                                                                     *)
(***************************************************************************)
EXTENDS HttpTransport, GrpcTransport, WellFoundedInduction, TLAPS

-----------------------------------------------------------------------------
(* The gRPC transport *)

\* At most one initClient is under way, and that is when initPromise is
\* pending; a client comes from a promise that is done, and every channel but
\* the last has been given up by a close().
ClientInv ==
  /\ inits = IF initPromise = "pending" THEN 1 ELSE 0
  /\ client # 0 => initPromise = "done"
  /\ initPromise # "done" => channels <= MaxCloses

\* A call that has been sent is waiting or over, and no progress report; so is
\* every call that is past its first step.
CallInv ==
  /\ DOMAIN asked = Calls /\ DOMAIN received = Calls
  /\ \A c \in Calls :
       /\ phase[c] \in {"starting", "importing", "waiting", "lost"} => asked[c].route # "progress"
       /\ c \in sent => phase[c] \in {"waiting"} \cup Settled /\ asked[c].route # "progress"

IInv == TypeOK /\ NoOrphanChannel /\ ClientInv /\ CallInv

\* Every status has a class of error.
LEMMA ErrorClass ==
  ASSUME NEW status \in Statuses
  PROVE  mapGrpcError(status) \in {"OJSValidationError", "OJSNotFoundError", "OJSDuplicateError",
                                   "OJSConflictError", "OJSRateLimitError", "OJSConnectionError",
                                   "OJSServerError", "OJSError"}
BY DEF mapGrpcError

\* The initial states satisfy the invariant.
LEMMA InitInv == Init => IInv
BY GrpcAssumption DEF Init, IInv, TypeOK, NoOrphanChannel, ClientInv, CallInv, NoMessage, NoRequest, Settled

\* What the first step of a call does to the promise of the client.
LEMMA EnsureInv ==
  ASSUME IInv, NEW c \in Calls, ensureClient(c)
  PROVE  /\ initPromise' \in {"none", "pending", "done", "failed"}
         /\ inits' \in Nat
         /\ inits' = IF initPromise' = "pending" THEN 1 ELSE 0
         /\ client # 0 => initPromise' = "done"
         /\ initPromise' # "done" => channels <= MaxCloses
         /\ \E p \in {"starting", "importing", "rejected"} : phase' = [phase EXCEPT ![c] = p]
         /\ \E err \in {"OJSConnectionError"} : error' = [error EXCEPT ![c] = err] \/ UNCHANGED error
<1>1. CASE client # 0
  BY <1>1 DEF ensureClient, Enter, IInv, TypeOK, ClientInv
<1>2. CASE client = 0 /\ initPromise = "none"
  BY <1>2 DEF ensureClient, StartInit, Enter, IInv, TypeOK, ClientInv
<1>3. CASE client = 0 /\ initPromise = "failed"
  BY <1>3 DEF ensureClient, Reject, IInv, TypeOK, ClientInv
<1>4. CASE client = 0 /\ initPromise \notin {"none", "failed"}
  BY <1>4 DEF ensureClient, Enter, IInv, TypeOK, ClientInv
<1> QED
  BY <1>1, <1>2, <1>3, <1>4

\* A call starts.
LEMMA RouteInv ==
  ASSUME IInv, NEW c \in Calls, routeRequest(c)
  PROVE  IInv'
<1>1. PICK req \in Requests[c] :
        /\ asked' = [asked EXCEPT ![c] = req]
        /\ CASE req.route = "unknown"  -> Reject(c, "OJSError") /\ UNCHANGED <<initPromise, inits>>
             [] req.route = "progress" -> Enter(c, "resolved") /\ UNCHANGED <<initPromise, inits>>
             [] OTHER                  -> ensureClient(c)
  BY DEF routeRequest
<1> DEFINE Quiet == UNCHANGED <<metadata, client, channels, open, sent, received, interrupted>>
<1>2. Quiet /\ phase[c] = "idle"
  BY DEF routeRequest
<1>3. /\ initPromise' \in {"none", "pending", "done", "failed"}
      /\ inits' \in Nat
      /\ inits' = IF initPromise' = "pending" THEN 1 ELSE 0
      /\ client # 0 => initPromise' = "done"
      /\ initPromise' # "done" => channels <= MaxCloses
  BY <1>1, EnsureInv DEF IInv, TypeOK, ClientInv, Reject, Enter
<1>4. \E p \in {"starting", "importing", "rejected", "resolved"} :
        /\ phase' = [phase EXCEPT ![c] = p]
        /\ req.route = "progress" => p = "resolved"
  BY <1>1, EnsureInv DEF Reject, Enter
<1>5. UNCHANGED error \/ \E err \in {"OJSError", "OJSConnectionError"} : error' = [error EXCEPT ![c] = err]
  BY <1>1, EnsureInv DEF Reject, Enter
<1>6. TypeOK'
  BY <1>1, <1>2, <1>3, <1>4, <1>5 DEF IInv, TypeOK, CallInv, Settled
<1>7. NoOrphanChannel' /\ ClientInv'
  BY <1>2, <1>3 DEF IInv, NoOrphanChannel, ClientInv
<1>8. CallInv'
  BY <1>1, <1>2, <1>4 DEF IInv, TypeOK, CallInv, Settled
<1> QED
  BY <1>6, <1>7, <1>8 DEF IInv

\* The client is created, is not, or is closed.
LEMMA ConnectionInv ==
  ASSUME IInv, InitDone \/ InitFails \/ close
  PROVE  IInv'
<1> USE DEF IInv, TypeOK, NoOrphanChannel, ClientInv, CallInv, Settled
<1>1. CASE InitDone
  <2>1. TypeOK'
    BY <1>1, GrpcAssumption DEF InitDone
  <2>2. NoOrphanChannel' /\ ClientInv'
    BY <1>1, GrpcAssumption DEF InitDone
  <2>3. CallInv'
    BY <1>1 DEF InitDone
  <2> QED
    BY <2>1, <2>2, <2>3
<1>2. CASE InitFails
  <2>1. TypeOK'
    BY <1>2 DEF InitFails
  <2>2. NoOrphanChannel' /\ ClientInv'
    BY <1>2 DEF InitFails
  <2>3. CallInv'
    BY <1>2 DEF InitFails
  <2> QED
    BY <2>1, <2>2, <2>3
<1>3. CASE close
  BY <1>3, GrpcAssumption DEF close
<1> QED
  BY <1>1, <1>2, <1>3

\* The other steps of a call leave the client alone.
LEMMA CallStepInv ==
  ASSUME IInv, NEW c \in Calls,
         \/ ImportFails(c) \/ Send(c) \/ ServerExecutes(c) \/ Answered(c)
         \/ \E status \in Statuses : Failed(c, status)
  PROVE  IInv'
<1> USE DEF IInv, TypeOK, CallInv, Settled, connection
<1>1. NoOrphanChannel' /\ ClientInv'
  BY DEF ImportFails, Send, ServerExecutes, Answered, Failed, NoOrphanChannel, ClientInv
<1>2. CASE ImportFails(c)
  BY <1>1, <1>2 DEF ImportFails, Reject
<1>3. CASE Send(c)
  BY <1>1, <1>3 DEF Send, Enter, Reject
<1>4. CASE ServerExecutes(c)
  BY <1>1, <1>4 DEF ServerExecutes, Message, protoArgs
<1>5. CASE Answered(c)
  BY <1>1, <1>5 DEF Answered, Enter
<1>6. ASSUME NEW status \in Statuses, Failed(c, status) PROVE IInv'
  BY <1>1, <1>6, ErrorClass DEF Failed, Reject
<1> QED
  BY <1>2, <1>3, <1>4, <1>5, <1>6

\* The invariant is inductive.
LEMMA StepInv == IInv /\ [Next]_vars => IInv'
<1> SUFFICES ASSUME IInv, [Next]_vars PROVE IInv'
  OBVIOUS
<1>1. CASE InitDone \/ InitFails \/ close
  BY <1>1, ConnectionInv
<1>2. ASSUME NEW c \in Calls, Step(c) PROVE IInv'
  BY <1>2, RouteInv, CallStepInv DEF Step
<1>3. CASE UNCHANGED vars
  BY <1>3 DEF vars, connection, IInv, TypeOK, NoOrphanChannel, ClientInv, CallInv
<1> QED
  BY <1>1, <1>2, <1>3 DEF Next

\* The invariant holds in every behaviour of the gRPC transport.
THEOREM Invariance == Spec => []IInv
BY InitInv, StepInv, PTL DEF Spec

\* The variables keep their types, whatever calls and closings interleave; no
\* error leaves mapGrpcError without a class.
THEOREM TypeCorrect == Spec => []TypeOK
<1>1. IInv => TypeOK
  BY DEF IInv
<1> QED
  BY <1>1, Invariance, PTL

\* At most one channel is open, and close() can reach it (grpc.ts:105-111, :686-692).
THEOREM OneChannel == Spec => []NoOrphanChannel
<1>1. IInv => NoOrphanChannel
  BY DEF IInv
<1> QED
  BY <1>1, Invariance, PTL

(* It implements RemoteCall *)

\* A call that has not been made is idle for the contract, too, and nothing has
\* been carried out for it.
LEMMA RemoteInit == ASSUME Init, NEW c \in Calls PROVE Remote(c)!Init
BY DEF Init, Remote!Init, Outcome, NoMessage

\* Each step of the transport is, for each call, a step of the contract or none.
LEMMA RemoteStep ==
  ASSUME IInv, IInv', [Next]_vars, NEW c \in Calls
  PROVE  [Remote(c)!Next]_<<Outcome(c), received[c].arrived>>
<1> USE DEF Outcome
<1>1. CASE InitDone \/ InitFails
  BY <1>1 DEF InitDone, InitFails, Remote!Next, Remote!Fail, IInv, TypeOK, CallInv, Settled
<1>2. CASE close \/ UNCHANGED vars
  BY <1>2 DEF close, vars, connection
<1>3. ASSUME NEW d \in Calls, d # c, Step(d)
      PROVE  UNCHANGED <<Outcome(c), received[c].arrived>>
  <2>1. /\ phase'[c] = phase[c]
        /\ asked'[c] = asked[c]
        /\ received'[c] = received[c]
    BY <1>3 DEF Step, routeRequest, ensureClient, StartInit, Enter, Reject, ImportFails, Send,
                ServerExecutes, Answered, Failed, connection, IInv, TypeOK, CallInv
  <2> QED
    BY <2>1
<1>4. CASE routeRequest(c)
  <2>1. PICK req \in Requests[c] :
          /\ asked' = [asked EXCEPT ![c] = req]
          /\ CASE req.route = "unknown"  -> Reject(c, "OJSError") /\ UNCHANGED <<initPromise, inits>>
               [] req.route = "progress" -> Enter(c, "resolved") /\ UNCHANGED <<initPromise, inits>>
               [] OTHER                  -> ensureClient(c)
    BY <1>4 DEF routeRequest
  <2>2. phase[c] = "idle" /\ UNCHANGED received
    BY <1>4 DEF routeRequest
  <2>3. asked'[c] = req
    BY <2>1 DEF IInv, CallInv
  <2>4. Outcome(c) = "idle"
    BY <2>2
  <2>5. CASE req.route = "progress"
    BY <2>2, <2>3, <2>4, <2>5
  <2>6. CASE req.route # "progress"
    <3>1. \E p \in {"starting", "importing", "rejected"} : phase' = [phase EXCEPT ![c] = p]
      BY <2>1, <2>6, EnsureInv DEF Reject
    <3>2. phase'[c] \in {"starting", "importing", "rejected"}
      BY <3>1 DEF IInv, TypeOK
    <3>3. Outcome(c)' \in {"pending", "failed"}
      BY <3>2, <2>3, <2>6
    <3> QED
      BY <3>3, <2>2, <2>4 DEF Remote!Next, Remote!Call
  <2> QED
    BY <2>5, <2>6
<1>5. CASE ImportFails(c) \/ Send(c) \/ \E status \in Statuses : Failed(c, status)
  BY <1>5 DEF ImportFails, Send, Failed, Enter, Reject, Remote!Next, Remote!Fail,
              IInv, TypeOK, CallInv, connection
<1>6. CASE ServerExecutes(c)
  BY <1>6 DEF ServerExecutes, Message, protoArgs, Remote!Next, Remote!Apply, IInv, TypeOK, CallInv, Settled
<1>7. CASE Answered(c)
  BY <1>7 DEF Answered, Enter, Remote!Next, Remote!Return, IInv, TypeOK, CallInv, Settled
<1> QED
  BY <1>1, <1>2, <1>3, <1>4, <1>5, <1>6, <1>7 DEF Next, Step

\* Every call that needs an RPC is a remote call: it ends at most once, and
\* well only if the server has carried the RPC out (grpc.ts:189-242).
THEOREM RemoteCallImplemented == Spec => ImplementsRemoteCall
<1>1. Init => \A c \in Calls : Remote(c)!Init
  BY RemoteInit
<1>2. IInv /\ IInv' /\ [Next]_vars =>
        [\A c \in Calls : [Remote(c)!Next]_<<Outcome(c), received[c].arrived>>]_vars
  BY RemoteStep
<1> QED
  BY <1>1, <1>2, Invariance, PTL DEF Spec, ImplementsRemoteCall

-----------------------------------------------------------------------------
(* The conversion of arguments, by induction on how deep they nest *)

\* Values that do not nest.
Flat == {Null} \cup Scalars

\* Induction on the depth of values, for any set of depths.
LEMMA DepthInduction ==
  ASSUME NEW D \in Nat, NEW Good, 0 \in Good, \A n \in 1..D : n - 1 \in Good => n \in Good
  PROVE  0..D \subseteq Good
<1> DEFINE R   == OpToRel(<, Nat)
           Bad == (0..D) \ Good
<1>1. IsWellFoundedOn(R, Nat)
  BY NatLessThanWellFounded
<1>2. \A x, y \in Nat : y < x => <<y, x>> \in R
  BY DEF OpToRel
<1> HIDE DEF R
<1>3. ASSUME Bad # {} PROVE FALSE
  <2>1. Bad \subseteq Nat
    OBVIOUS
  <2> HIDE DEF Bad
  <2>2. PICK m \in Bad : \A y \in Bad : ~(<<y, m>> \in R)
    BY <1>1, <1>3, <2>1, WFMin
  <2> USE DEF Bad
  <2>3. m \in 1..D /\ m - 1 \in Nat /\ m - 1 < m /\ m \in Nat
    BY <2>1, <2>2
  <2>4. m - 1 \notin Bad
    BY <1>2, <2>2, <2>3
  <2> QED
    BY <2>2, <2>3, <2>4
<1> QED
  BY <1>3

\* Arrays and objects whose items are in S.
Compound(S) == [kind : {"array", "object"}, items : BoundedSeq(S, MaxItems)]

\* Level is defined by its equation.
LEMMA LevelEquation ==
  /\ DOMAIN Level = 0..MaxDepth
  /\ Level[0] = Flat
  /\ \A n \in 1..MaxDepth : Level[n] = Level[n - 1] \cup Compound(Level[n - 1])
<1> DEFINE Body(g, n) == IF n = 0 THEN Flat ELSE g[n - 1] \cup Compound(g[n - 1])
           Good == {d \in 0..MaxDepth : \E g : g = [n \in 0..d |-> Body(g, n)]}
<1>1. 0 \in Good
  <2> DEFINE h == [n \in 0..0 |-> Flat]
  <2>1. h = [n \in 0..0 |-> Body(h, n)]
    <3>1. \A n \in 0..0 : n = 0
      OBVIOUS
    <3> QED
      BY <3>1
  <2> HIDE DEF h, Body
  <2>2. 0 \in 0..MaxDepth
    BY ProtoValuesAssumption
  <2> QED
    BY <2>1, <2>2
<1>2. ASSUME NEW d \in 1..MaxDepth, d - 1 \in Good PROVE d \in Good
  <2>1. PICK g : g = [n \in 0..(d - 1) |-> Body(g, n)]
    BY <1>2
  <2> DEFINE h == [n \in 0..d |-> IF n = d THEN g[d - 1] \cup Compound(g[d - 1]) ELSE g[n]]
  <2>2. ASSUME NEW n \in 0..d PROVE h[n] = Body(h, n)
    <3>1. CASE n = 0
      BY <2>1, <3>1, ProtoValuesAssumption
    <3>2. CASE n # 0 /\ n # d
      <4>1. n \in 0..(d - 1) /\ n - 1 \in 0..d /\ n - 1 # d
        BY <3>2, ProtoValuesAssumption
      <4>2. h[n] = g[n] /\ h[n - 1] = g[n - 1]
        BY <3>2, <4>1
      <4> HIDE DEF h
      <4>3. g[n] = Body(g, n)
        BY <2>1, <4>1
      <4> QED
        BY <3>2, <4>2, <4>3
    <3>3. CASE n = d
      <4>1. d # 0 /\ d - 1 \in 0..d /\ d - 1 # d
        BY ProtoValuesAssumption
      <4>2. h[d - 1] = g[d - 1]
        BY <4>1
      <4> QED
        BY <3>3, <4>1, <4>2
    <3> QED
      BY <3>1, <3>2, <3>3
  <2>3. h = [n \in 0..d |-> h[n]]
    OBVIOUS
  <2> HIDE DEF h, Body
  <2>4. h = [n \in 0..d |-> Body(h, n)]
    BY <2>2, <2>3
  <2>5. d \in 0..MaxDepth
    BY ProtoValuesAssumption
  <2> QED
    BY <2>4, <2>5
<1>3. MaxDepth \in Good
  <2> HIDE DEF Good
  <2>1. 0..MaxDepth \subseteq Good
    BY <1>1, <1>2, DepthInduction, ProtoValuesAssumption
  <2> QED
    BY <2>1, ProtoValuesAssumption
<1>4. PICK g : g = [n \in 0..MaxDepth |-> Body(g, n)]
  BY <1>3
<1>5. g = [n \in 0..MaxDepth |-> IF n = 0 THEN {Null} \cup Scalars
              ELSE g[n - 1] \cup [kind : {"array", "object"}, items : BoundedSeq(g[n - 1], MaxItems)]]
  BY <1>4, Zenon DEF Compound, Flat
<1>6. Level = [n \in 0..MaxDepth |-> IF n = 0 THEN {Null} \cup Scalars
              ELSE Level[n - 1] \cup [kind : {"array", "object"}, items : BoundedSeq(Level[n - 1], MaxItems)]]
  BY <1>5, Zenon DEF Level
<1> HIDE DEF Body
<1>7. Level = [n \in 0..MaxDepth |-> IF n = 0 THEN Flat ELSE Level[n - 1] \cup Compound(Level[n - 1])]
  BY <1>6, Zenon DEF Compound, Flat
<1>8. DOMAIN Level = 0..MaxDepth
  BY <1>7, Zenon
<1>9. \A n \in 0..MaxDepth : Level[n] = IF n = 0 THEN Flat ELSE Level[n - 1] \cup Compound(Level[n - 1])
  BY <1>7, Zenon
<1>10. 0 \in 0..MaxDepth /\ \A n \in 1..MaxDepth : n \in 0..MaxDepth /\ n # 0
  BY ProtoValuesAssumption
<1> QED
  BY <1>8, <1>9, <1>10, Zenon

\* A value that nests at most n deep is a scalar, or its items nest less.
LEMMA LevelShape ==
  ASSUME NEW n \in 0..MaxDepth, NEW v \in Level[n]
  PROVE  v \in Flat \/ (n > 0 /\ v \in Compound(Level[n - 1]))
<1> DEFINE Shaped(k) == \A w \in Level[k] : w \in Flat \/ (k > 0 /\ w \in Compound(Level[k - 1]))
           Good == {k \in 0..MaxDepth : Shaped(k)}
<1>1. 0 \in Good
  BY LevelEquation, ProtoValuesAssumption
<1>2. ASSUME NEW k \in 1..MaxDepth, k - 1 \in Good PROVE k \in Good
  <2>1. k \in 0..MaxDepth /\ k > 0 /\ k \in Nat
    BY ProtoValuesAssumption
  <2>2. ASSUME NEW w \in Level[k - 1], w \notin Flat PROVE w \in Compound(Level[k - 1])
    <3>1. k - 1 > 0 /\ w \in Compound(Level[(k - 1) - 1])
      BY <1>2, <2>2
    <3>2. Level[(k - 1) - 1] \subseteq Level[k - 1]
      <4>1. k - 1 \in 1..MaxDepth
        BY <2>1, <3>1, ProtoValuesAssumption
      <4> QED
        BY <4>1, LevelEquation
    <3>3. ASSUME NEW S, NEW T, S \subseteq T PROVE Compound(S) \subseteq Compound(T)
      BY <3>3 DEF Compound, BoundedSeq, SeqOf
    <3> QED
      BY <3>1, <3>2, <3>3
  <2>3. Shaped(k)
    BY <2>1, <2>2, LevelEquation
  <2> QED
    BY <2>1, <2>3
<1> HIDE DEF Good
<1>3. 0..MaxDepth \subseteq Good
  BY <1>1, <1>2, DepthInduction, ProtoValuesAssumption
<1> QED
  BY <1>3 DEF Good

\* Values that nest at most n - 1 deep nest at most n deep.
LEMMA LevelGrows ==
  ASSUME NEW n \in 1..MaxDepth
  PROVE  n - 1 \in 0..MaxDepth /\ n \in 0..MaxDepth /\ Level[n - 1] \subseteq Level[n]
<1>1. n - 1 \in 0..MaxDepth /\ n \in 0..MaxDepth
  BY ProtoValuesAssumption
<1>2. Level[n] = Level[n - 1] \cup Compound(Level[n - 1])
  BY LevelEquation
<1> QED
  BY <1>1, <1>2

\* The parts of an array or an object.
LEMMA CompoundParts ==
  ASSUME NEW S, NEW v \in Compound(S)
  PROVE  /\ v.kind \in {"array", "object"}
         /\ v = [kind |-> v.kind, items |-> v.items]
         /\ \A i \in DOMAIN v.items : v.items[i] \in S
BY DEF Compound, BoundedSeq, SeqOf

\* The parts of a value that does not nest.
LEMMA FlatParts ==
  ASSUME NEW v \in Flat
  PROVE  /\ v.kind \in {"null", "string", "number", "boolean"} /\ v.zero \in BOOLEAN
         /\ v = [kind |-> v.kind, zero |-> v.zero]
         /\ v.kind \notin {"array", "object"}
         /\ v.kind = "null" => v = Null
         /\ v.kind # "null" => v \in Scalars
         /\ v \in Scalars => v.kind # "null"
<1>1. CASE v = [kind |-> "null", zero |-> FALSE]
  <2>1. v.kind = "null" /\ v.zero = FALSE
    BY <1>1
  <2>2. v \notin Scalars
    BY <2>1 DEF Scalars
  <2> QED
    BY <1>1, <2>1, <2>2 DEF Null
<1>2. CASE v \in Scalars
  <2>1. /\ v.kind \in {"string", "number", "boolean"} /\ v.zero \in BOOLEAN
        /\ v = [kind |-> v.kind, zero |-> v.zero]
    BY <1>2 DEF Scalars
  <2> QED
    BY <1>2, <2>1
<1> QED
  BY <1>1, <1>2 DEF Flat, Null

\* toProtoValue at a value, given what it is at the value's items.
ToBody(g, v) ==
  IF v.kind \in {"array", "object"}
  THEN [field |-> Field[v.kind], items |-> [i \in DOMAIN v.items |-> g[v.items[i]]]]
  ELSE [field |-> Field[v.kind], zero |-> v.zero]

\* The same of Blanked.
BlankedBody(g, v) ==
  IF v.kind \in {"array", "object"}
  THEN [kind |-> v.kind, items |-> [i \in DOMAIN v.items |-> g[v.items[i]]]]
  ELSE IF v.zero THEN Null ELSE v

\* toProtoValue at depth n, from what it is at depth n - 1.
LEMMA ToExtends ==
  ASSUME NEW n \in 1..MaxDepth, NEW g, g = [v \in Level[n - 1] |-> ToBody(g, v)]
  PROVE  \E h : h = [v \in Level[n] |-> ToBody(h, v)]
<1> DEFINE h == [v \in Level[n] |-> ToBody(g, v)]
<1>1. \A v \in Level[n - 1] : h[v] = g[v]
  <2>1. ASSUME NEW v \in Level[n - 1] PROVE h[v] = g[v]
    <3>1. g[v] = ToBody(g, v)
      BY Zenon
    <3>2. v \in Level[n]
      BY LevelGrows
    <3> QED
      BY <3>1, <3>2, Zenon
  <2> QED
    BY <2>1
<1>2. ASSUME NEW v \in Level[n] PROVE ToBody(h, v) = ToBody(g, v)
  <2> HIDE DEF h
  <2>1. CASE v \in Flat
    <3>1. v.kind \notin {"array", "object"}
      BY <2>1, FlatParts
    <3> QED
      BY <3>1, Zenon DEF ToBody
  <2>2. CASE v \in Compound(Level[n - 1])
    <3>1. \A i \in DOMAIN v.items : v.items[i] \in Level[n - 1]
      BY <2>2, CompoundParts
    <3>2. [i \in DOMAIN v.items |-> g[v.items[i]]] = [i \in DOMAIN v.items |-> h[v.items[i]]]
      BY <1>1, <3>1
    <3> QED
      BY <3>2, Zenon DEF ToBody
  <2> QED
    BY <2>1, <2>2, LevelShape, LevelGrows
<1>3. h = [v \in Level[n] |-> ToBody(h, v)]
  <2>1. \A v \in Level[n] : h[v] = ToBody(h, v)
    BY <1>2, Zenon
  <2>2. h = [v \in Level[n] |-> h[v]]
    BY Zenon
  <2> HIDE DEF h
  <2> QED
    BY <2>1, <2>2
<1> HIDE DEF h
<1> QED
  BY <1>3

\* toProtoValue is defined by its equation.
LEMMA ToEquation == toProtoValue = [v \in Values |-> ToBody(toProtoValue, v)]
<1> DEFINE Good == {n \in 0..MaxDepth : \E g : g = [v \in Level[n] |-> ToBody(g, v)]}
<1>1. 0 \in Good
  <2> DEFINE h == [v \in Level[0] |-> [field |-> Field[v.kind], zero |-> v.zero]]
  <2>1. \A v \in Level[0] : h[v] = ToBody(h, v)
    <3>1. ASSUME NEW v \in Level[0] PROVE h[v] = ToBody(h, v)
      <4>1. v.kind \notin {"array", "object"}
        BY LevelEquation, FlatParts
      <4> QED
        BY <4>1, Zenon DEF ToBody
    <3> QED
      BY <3>1
  <2>2. h = [v \in Level[0] |-> h[v]]
    BY Zenon
  <2> HIDE DEF h
  <2>3. h = [v \in Level[0] |-> ToBody(h, v)]
    BY <2>1, <2>2
  <2>4. 0 \in 0..MaxDepth
    BY ProtoValuesAssumption
  <2> QED
    BY <2>3, <2>4
<1>2. ASSUME NEW n \in 1..MaxDepth, n - 1 \in Good PROVE n \in Good
  BY <1>2, ToExtends, LevelGrows
<1> HIDE DEF Good
<1>3. MaxDepth \in Good
  BY <1>1, <1>2, DepthInduction, ProtoValuesAssumption
<1>4. PICK g : g = [v \in Values |-> ToBody(g, v)]
  BY <1>3 DEF Good, Values
<1>5. g = [v \in Values |-> IF v.kind \in {"array", "object"}
             THEN [field |-> Field[v.kind], items |-> [i \in DOMAIN v.items |-> g[v.items[i]]]]
             ELSE [field |-> Field[v.kind], zero |-> v.zero]]
  BY <1>4, Zenon DEF ToBody
<1>6. toProtoValue = [v \in Values |-> IF v.kind \in {"array", "object"}
             THEN [field |-> Field[v.kind], items |-> [i \in DOMAIN v.items |-> toProtoValue[v.items[i]]]]
             ELSE [field |-> Field[v.kind], zero |-> v.zero]]
  BY <1>5, Zenon DEF toProtoValue
<1> QED
  BY <1>6, Zenon DEF ToBody
\* Blanked at depth n, from what it is at depth n - 1.
LEMMA BlankedExtends ==
  ASSUME NEW n \in 1..MaxDepth, NEW g, g = [v \in Level[n - 1] |-> BlankedBody(g, v)]
  PROVE  \E h : h = [v \in Level[n] |-> BlankedBody(h, v)]
<1> DEFINE h == [v \in Level[n] |-> BlankedBody(g, v)]
<1>1. \A v \in Level[n - 1] : h[v] = g[v]
  <2>1. ASSUME NEW v \in Level[n - 1] PROVE h[v] = g[v]
    <3>1. g[v] = BlankedBody(g, v)
      BY Zenon
    <3>2. v \in Level[n]
      BY LevelGrows
    <3> QED
      BY <3>1, <3>2, Zenon
  <2> QED
    BY <2>1
<1>2. ASSUME NEW v \in Level[n] PROVE BlankedBody(h, v) = BlankedBody(g, v)
  <2> HIDE DEF h
  <2>1. CASE v \in Flat
    <3>1. v.kind \notin {"array", "object"}
      BY <2>1, FlatParts
    <3> QED
      BY <3>1 DEF BlankedBody
  <2>2. CASE v \in Compound(Level[n - 1])
    <3>1. \A i \in DOMAIN v.items : v.items[i] \in Level[n - 1]
      BY <2>2, CompoundParts
    <3>2. [i \in DOMAIN v.items |-> g[v.items[i]]] = [i \in DOMAIN v.items |-> h[v.items[i]]]
      BY <1>1, <3>1
    <3> QED
      BY <3>2 DEF BlankedBody
  <2> QED
    BY <2>1, <2>2, LevelShape, LevelGrows
<1>3. h = [v \in Level[n] |-> BlankedBody(h, v)]
  <2>1. \A v \in Level[n] : h[v] = BlankedBody(h, v)
    BY <1>2, Zenon
  <2>2. h = [v \in Level[n] |-> h[v]]
    BY Zenon
  <2> HIDE DEF h
  <2> QED
    BY <2>1, <2>2
<1> HIDE DEF h
<1> QED
  BY <1>3

\* Blanked is defined by its equation.
LEMMA BlankedEquation == Blanked = [v \in Values |-> BlankedBody(Blanked, v)]
<1> DEFINE Good == {n \in 0..MaxDepth : \E g : g = [v \in Level[n] |-> BlankedBody(g, v)]}
<1>1. 0 \in Good
  <2> DEFINE h == [v \in Level[0] |-> IF v.zero THEN Null ELSE v]
  <2>1. \A v \in Level[0] : h[v] = BlankedBody(h, v)
    <3>1. ASSUME NEW v \in Level[0] PROVE h[v] = BlankedBody(h, v)
      <4>1. v.kind \notin {"array", "object"}
        BY LevelEquation, FlatParts
      <4> QED
        BY <4>1 DEF BlankedBody
    <3> QED
      BY <3>1
  <2>2. h = [v \in Level[0] |-> h[v]]
    BY Zenon
  <2> HIDE DEF h
  <2>3. h = [v \in Level[0] |-> BlankedBody(h, v)]
    BY <2>1, <2>2
  <2>4. 0 \in 0..MaxDepth
    BY ProtoValuesAssumption
  <2> QED
    BY <2>3, <2>4
<1>2. ASSUME NEW n \in 1..MaxDepth, n - 1 \in Good PROVE n \in Good
  BY <1>2, BlankedExtends, LevelGrows
<1> HIDE DEF Good
<1>3. MaxDepth \in Good
  BY <1>1, <1>2, DepthInduction, ProtoValuesAssumption
<1>4. PICK g : g = [v \in Values |-> BlankedBody(g, v)]
  BY <1>3 DEF Good, Values
<1>5. g = [v \in Values |-> IF v.kind \in {"array", "object"}
             THEN [kind |-> v.kind, items |-> [i \in DOMAIN v.items |-> g[v.items[i]]]]
             ELSE IF v.zero THEN Null ELSE v]
  BY <1>4, Zenon DEF BlankedBody
<1>6. Blanked = [v \in Values |-> IF v.kind \in {"array", "object"}
             THEN [kind |-> v.kind, items |-> [i \in DOMAIN v.items |-> Blanked[v.items[i]]]]
             ELSE IF v.zero THEN Null ELSE v]
  BY <1>5, Zenon DEF Blanked
<1> QED
  BY <1>6, Zenon DEF BlankedBody

\* A value does not nest, or its items are values.
LEMMA ValueShape ==
  ASSUME NEW v \in Values
  PROVE  v \in Flat \/ v \in Compound(Values)
<1>1. MaxDepth \in 0..MaxDepth
  BY ProtoValuesAssumption
<1>2. CASE v \in Flat
  BY <1>2
<1>3. CASE MaxDepth > 0 /\ v \in Compound(Level[MaxDepth - 1])
  <2>1. MaxDepth \in 1..MaxDepth
    BY <1>3, ProtoValuesAssumption
  <2>2. Level[MaxDepth - 1] \subseteq Values
    BY <2>1, LevelGrows DEF Values
  <2>3. ASSUME NEW S, NEW T, S \subseteq T PROVE Compound(S) \subseteq Compound(T)
    BY <2>3 DEF Compound, BoundedSeq, SeqOf
  <2> QED
    BY <1>3, <2>2, <2>3
<1> QED
  BY <1>1, <1>2, <1>3, LevelShape DEF Values

\* What nests at most n deep is a value.
LEMMA LevelInside == \A n \in 0..MaxDepth : Level[n] \subseteq Values
<1> DEFINE Up == {k \in 0..MaxDepth : Level[MaxDepth - k] \subseteq Values}
<1>1. 0 \in Up
  BY ProtoValuesAssumption DEF Values
<1>2. ASSUME NEW k \in 1..MaxDepth, k - 1 \in Up PROVE k \in Up
  <2>1. MaxDepth - (k - 1) \in 1..MaxDepth /\ (MaxDepth - (k - 1)) - 1 = MaxDepth - k /\ k \in 0..MaxDepth
    BY ProtoValuesAssumption
  <2>2. Level[MaxDepth - k] \subseteq Level[MaxDepth - (k - 1)]
    BY <2>1, LevelGrows
  <2> QED
    BY <1>2, <2>1, <2>2
<1> HIDE DEF Up
<1>3. 0..MaxDepth \subseteq Up
  BY <1>1, <1>2, DepthInduction, ProtoValuesAssumption
<1>4. ASSUME NEW n \in 0..MaxDepth PROVE Level[n] \subseteq Values
  <2>1. MaxDepth - n \in 0..MaxDepth /\ MaxDepth - (MaxDepth - n) = n
    BY ProtoValuesAssumption
  <2> QED
    BY <1>3, <2>1 DEF Up
<1> QED
  BY <1>4

\* Every value nests at most n deep for some n, so that what holds at depth 0
\* and carries over to the next depth holds of all values.
LEMMA ValueInduction ==
  ASSUME NEW Good,
         Flat \cap Values \subseteq Good,
         \A v \in Values : v \in Compound(Values) /\ (\A i \in DOMAIN v.items : v.items[i] \in Good) => v \in Good
  PROVE  Values \subseteq Good
<1> DEFINE Depths == {n \in 0..MaxDepth : Level[n] \subseteq Values /\ Level[n] \subseteq Good}
<1>1. 0 \in Depths
  BY LevelInside, LevelEquation, ProtoValuesAssumption
<1>2. ASSUME NEW n \in 1..MaxDepth, n - 1 \in Depths PROVE n \in Depths
  <2>1. n \in 0..MaxDepth /\ n - 1 \in 0..MaxDepth /\ Level[n - 1] \subseteq Good
    BY <1>2, LevelGrows
  <2>2. ASSUME NEW v \in Level[n] PROVE v \in Good
    <3>1. v \in Values
      BY LevelInside, <2>1
    <3>2. CASE v \in Flat
      BY <3>1, <3>2
    <3>3. CASE v \notin Flat
      <4>1. v \in Compound(Values)
        BY <3>1, <3>3, ValueShape
      <4>2. v \in Compound(Level[n - 1])
        BY <2>1, <3>3, LevelShape
      <4>3. \A i \in DOMAIN v.items : v.items[i] \in Good
        BY <2>1, <4>2, CompoundParts
      <4> QED
        BY <3>1, <4>1, <4>3
    <3> QED
      BY <3>2, <3>3
  <2> QED
    BY LevelInside, <2>1, <2>2
<1> HIDE DEF Depths
<1>3. MaxDepth \in Depths
  BY <1>1, <1>2, DepthInduction, ProtoValuesAssumption
<1> QED
  BY <1>3 DEF Depths, Values

\* What toProtoValue makes of a value tells its kind.
LEMMA ToProto ==
  ASSUME NEW v \in Values
  PROVE  /\ v.kind \in DOMAIN Field
         /\ toProtoValue[v].field = Field[v.kind]
         /\ KindOf(toProtoValue[v]) = v.kind
         /\ v \in Flat => toProtoValue[v].zero = v.zero
         /\ v \in Compound(Values) =>
              toProtoValue[v].items = [i \in DOMAIN v.items |-> toProtoValue[v.items[i]]]
<1>1. v.kind \in DOMAIN Field
  <2>1. v \in Flat \/ v \in Compound(Values)
    BY ValueShape
  <2>2. v.kind \in {"null", "string", "number", "boolean", "array", "object"}
    BY <2>1, FlatParts, CompoundParts
  <2> QED
    BY <2>2 DEF Field
<1>2. toProtoValue[v] = ToBody(toProtoValue, v)
  BY ToEquation, Zenon
<1>3. toProtoValue[v].field = Field[v.kind]
  BY <1>2 DEF ToBody
<1>4. KindOf(toProtoValue[v]) = v.kind
  <2>1. \A k \in DOMAIN Field : Field[k] = Field[v.kind] <=> k = v.kind
    BY <1>1 DEF Field
  <2>2. KindOf(toProtoValue[v]) = CHOOSE k \in DOMAIN Field : k = v.kind
    BY <1>3, <2>1 DEF KindOf
  <2> QED
    BY <1>1, <2>2
<1>5. v \in Flat => toProtoValue[v].zero = v.zero
  BY <1>2, FlatParts DEF ToBody
<1>6. v \in Compound(Values) =>
        toProtoValue[v].items = [i \in DOMAIN v.items |-> toProtoValue[v.items[i]]]
  BY <1>2, CompoundParts DEF ToBody
<1> QED
  BY <1>1, <1>3, <1>4, <1>5, <1>6

\* Values that differ are sent differently.
LEMMA ToInjective ==
  ASSUME NEW v \in Values, NEW w \in Values, toProtoValue[v] = toProtoValue[w]
  PROVE  v = w
<1> DEFINE Good == {x \in Values : \A y \in Values : toProtoValue[x] = toProtoValue[y] => x = y}
<1>1. ASSUME NEW x \in Values, NEW y \in Values, toProtoValue[x] = toProtoValue[y]
      PROVE  /\ x.kind = y.kind
             /\ x \in Flat => y \in Flat /\ x.zero = y.zero
             /\ x \notin Flat => x \in Compound(Values) /\ y \in Compound(Values)
  <2>1. x.kind = y.kind
    BY <1>1, ToProto, ZenonT(30)
  <2>2. x \in Flat <=> y \in Flat
    BY <2>1, ValueShape, FlatParts, CompoundParts
  <2>3. x \in Flat => x.zero = y.zero
    <3>1. x \in Flat => toProtoValue[x].zero = x.zero
      BY ToProto
    <3>2. y \in Flat => toProtoValue[y].zero = y.zero
      BY ToProto
    <3> QED
      BY <1>1, <2>2, <3>1, <3>2
  <2> QED
    BY <2>1, <2>2, <2>3, ValueShape
<1>2. Flat \cap Values \subseteq Good
  <2>1. ASSUME NEW x \in Flat \cap Values, NEW y \in Values, toProtoValue[x] = toProtoValue[y] PROVE x = y
    <3>1. x.kind = y.kind /\ x.zero = y.zero /\ y \in Flat
      BY <1>1, <2>1
    <3>2. x = [kind |-> x.kind, zero |-> x.zero] /\ y = [kind |-> y.kind, zero |-> y.zero]
      BY <3>1, FlatParts
    <3> QED
      BY <3>1, <3>2
  <2> QED
    BY <2>1
<1>3. ASSUME NEW x \in Values, x \in Compound(Values), \A i \in DOMAIN x.items : x.items[i] \in Good
      PROVE  x \in Good
  <2>1. ASSUME NEW y \in Values, toProtoValue[x] = toProtoValue[y] PROVE x = y
    <3>1. x.kind = y.kind /\ y \in Compound(Values)
      BY <1>1, <1>3, <2>1, FlatParts, CompoundParts
    <3>2. [i \in DOMAIN x.items |-> toProtoValue[x.items[i]]] = [i \in DOMAIN y.items |-> toProtoValue[y.items[i]]]
      <4>1. toProtoValue[x].items = [i \in DOMAIN x.items |-> toProtoValue[x.items[i]]]
        BY <1>3, ToProto
      <4>2. toProtoValue[y].items = [i \in DOMAIN y.items |-> toProtoValue[y.items[i]]]
        BY <3>1, ToProto
      <4> QED
        BY <2>1, <4>1, <4>2
    <3>3. DOMAIN x.items = DOMAIN y.items /\ \A i \in DOMAIN x.items : toProtoValue[x.items[i]] = toProtoValue[y.items[i]]
      BY <3>2
    <3>4. \A i \in DOMAIN x.items : x.items[i] \in Values /\ y.items[i] \in Values
      BY <1>3, <3>1, <3>3, CompoundParts
    <3>5. \A i \in DOMAIN x.items : x.items[i] = y.items[i]
      BY <1>3, <3>3, <3>4
    <3>6. x.items = y.items
      <4>1. x.items = [i \in DOMAIN x.items |-> x.items[i]] /\ y.items = [i \in DOMAIN y.items |-> y.items[i]]
        BY <1>3, <3>1 DEF Compound, BoundedSeq, SeqOf
      <4> QED
        BY <3>3, <3>5, <4>1
    <3>7. x = [kind |-> x.kind, items |-> x.items] /\ y = [kind |-> y.kind, items |-> y.items]
      BY <1>3, <3>1, CompoundParts
    <3> QED
      BY <3>1, <3>6, <3>7
  <2> QED
    BY <2>1
<1> HIDE DEF Good
<1>4. Values \subseteq Good
  BY <1>2, <1>3, ValueInduction
<1> QED
  BY <1>4 DEF Good

\* fromProtoValue at a message, given what it is at the message's items.
FromBody(g, p) ==
  IF KindOf(p) \in {"array", "object"}
  THEN [kind |-> KindOf(p), items |-> [i \in DOMAIN p.items |-> g[p.items[i]]]]
  ELSE IF KindOf(p) = "null" \/ p.zero
       THEN Null
       ELSE [kind |-> KindOf(p), zero |-> FALSE]

\* A value comes back blanked, if its items do.
LEMMA BackBlanked ==
  ASSUME NEW g, NEW v \in Values,
         v \in Compound(Values) => \A i \in DOMAIN v.items : g[toProtoValue[v.items[i]]] = Blanked[v.items[i]]
  PROVE  FromBody(g, toProtoValue[v]) = Blanked[v]
<1> DEFINE p == toProtoValue[v]
<1>1. KindOf(p) = v.kind
  BY ToProto
<1>2. Blanked[v] = BlankedBody(Blanked, v)
  BY BlankedEquation, Zenon
<1>3. CASE v \in Compound(Values)
  <2>1. v.kind \in {"array", "object"} /\ p.items = [i \in DOMAIN v.items |-> toProtoValue[v.items[i]]]
    BY <1>3, ToProto, CompoundParts
  <2>2. [i \in DOMAIN p.items |-> g[p.items[i]]] = [i \in DOMAIN v.items |-> Blanked[v.items[i]]]
    BY <1>3, <2>1
  <2> HIDE DEF p
  <2>3. FromBody(g, p) = [kind |-> v.kind, items |-> [i \in DOMAIN p.items |-> g[p.items[i]]]]
    BY <1>1, <2>1, Zenon DEF FromBody
  <2>4. Blanked[v] = [kind |-> v.kind, items |-> [i \in DOMAIN v.items |-> Blanked[v.items[i]]]]
    BY <1>2, <2>1, Zenon DEF BlankedBody
  <2>5. FromBody(g, p) = Blanked[v]
    BY <2>2, <2>3, <2>4, Zenon
  <2> QED
    BY <2>5 DEF p
<1>4. CASE v \in Flat
  <2>1. /\ v.kind \notin {"array", "object"} /\ p.zero = v.zero /\ v.zero \in BOOLEAN
        /\ v = [kind |-> v.kind, zero |-> v.zero] /\ (v.kind = "null" => v = Null)
    BY <1>4, ToProto, FlatParts
  <2> HIDE DEF p
  <2>2. FromBody(g, p) = IF v.kind = "null" \/ v.zero THEN Null ELSE [kind |-> v.kind, zero |-> FALSE]
    BY <1>1, <2>1, Zenon DEF FromBody
  <2>3. Blanked[v] = IF v.zero THEN Null ELSE v
    BY <1>2, <2>1, Zenon DEF BlankedBody
  <2>4. FromBody(g, p) = Blanked[v]
    <3>1. CASE v.zero = TRUE
      BY <2>2, <2>3, <3>1
    <3>2. CASE v.zero = FALSE
      BY <2>1, <2>2, <2>3, <3>2 DEF Null
    <3> QED
      BY <2>1, <3>1, <3>2
  <2> QED
    BY <2>4 DEF p
<1> QED
  BY <1>3, <1>4, ValueShape

\* fromProtoValue is defined by its equation.
LEMMA FromEquation == fromProtoValue = [p \in WireValues |-> FromBody(fromProtoValue, p)]
<1> DEFINE Sent(p) == CHOOSE v \in Values : toProtoValue[v] = p
           h == [p \in WireValues |-> Blanked[Sent(p)]]
<1>1. ASSUME NEW v \in Values PROVE toProtoValue[v] \in WireValues /\ h[toProtoValue[v]] = Blanked[v]
  <2>1. toProtoValue[v] \in WireValues
    BY DEF WireValues
  <2>2. Sent(toProtoValue[v]) \in Values /\ toProtoValue[Sent(toProtoValue[v])] = toProtoValue[v]
    OBVIOUS
  <2>3. Sent(toProtoValue[v]) = v
    BY <2>2, ToInjective
  <2> QED
    BY <2>1, <2>3
<1>2. \A p \in WireValues : h[p] = FromBody(h, p)
  <2>1. ASSUME NEW v \in Values PROVE h[toProtoValue[v]] = FromBody(h, toProtoValue[v])
    <3> HIDE DEF h
    <3>1. v \in Compound(Values) => \A i \in DOMAIN v.items : v.items[i] \in Values
      BY CompoundParts
    <3>2. FromBody(h, toProtoValue[v]) = Blanked[v]
      BY <1>1, <3>1, BackBlanked
    <3> QED
      BY <1>1, <3>2
  <2> HIDE DEF h
  <2> QED
    BY <2>1 DEF WireValues
<1> HIDE DEF Sent
<1>3. h = [p \in WireValues |-> h[p]]
  OBVIOUS
<1> HIDE DEF h
<1>4. h = [p \in WireValues |-> FromBody(h, p)]
  BY <1>2, <1>3
<1>5. h = [p \in WireValues |-> IF KindOf(p) \in {"array", "object"}
             THEN [kind |-> KindOf(p), items |-> [i \in DOMAIN p.items |-> h[p.items[i]]]]
             ELSE IF KindOf(p) = "null" \/ p.zero
                  THEN Null
                  ELSE [kind |-> KindOf(p), zero |-> FALSE]]
  BY <1>4, Zenon DEF FromBody
<1>6. fromProtoValue = [p \in WireValues |-> IF KindOf(p) \in {"array", "object"}
             THEN [kind |-> KindOf(p), items |-> [i \in DOMAIN p.items |-> fromProtoValue[p.items[i]]]]
             ELSE IF KindOf(p) = "null" \/ p.zero
                  THEN Null
                  ELSE [kind |-> KindOf(p), zero |-> FALSE]]
  BY <1>5, Zenon DEF fromProtoValue
<1> QED
  BY <1>6, Zenon DEF FromBody

\* A value, however deep it nests, comes back blanked.
LEMMA RoundTrip == ASSUME NEW v \in Values PROVE fromProtoValue[toProtoValue[v]] = Blanked[v]
<1> DEFINE Good == {x \in Values : fromProtoValue[toProtoValue[x]] = Blanked[x]}
<1>1. ASSUME NEW x \in Values, x \in Compound(Values) => \A i \in DOMAIN x.items : x.items[i] \in Good
      PROVE  x \in Good
  <2>1. toProtoValue[x] \in WireValues
    BY DEF WireValues
  <2>2. fromProtoValue[toProtoValue[x]] = FromBody(fromProtoValue, toProtoValue[x])
    BY <2>1, FromEquation, Zenon
  <2> QED
    BY <1>1, <2>2, BackBlanked
<1>2. \A x \in Flat : x \notin Compound(Values)
  BY FlatParts, CompoundParts
<1> HIDE DEF Good
<1>3. Values \subseteq Good
  BY <1>1, <1>2, ValueInduction
<1> QED
  BY <1>3 DEF Good

-----------------------------------------------------------------------------
(* The arguments of jobs *)

\* The server has the arguments that were sent.
MessageInv ==
  \A c \in Calls : received[c].arrived =>
    received[c].args = [i \in DOMAIN asked[c].args |-> toProtoValue[asked[c].args[i]]]

\* A job that has come back is one the server had got, with its arguments blanked.
JobInv ==
  /\ DOMAIN result = Calls
  /\ \A c \in Calls : \A d \in result[c].of :
       /\ d \in Calls
       /\ received[d].arrived
       /\ result[c].args = [i \in DOMAIN asked[d].args |-> Blanked[asked[d].args[i]]]

ArgInv == MessageInv /\ JobInv

\* The arguments of a message come back blanked.
LEMMA JobReturns ==
  ASSUME NEW args \in Seq(Values), NEW msg,
         msg.args = [i \in DOMAIN args |-> toProtoValue[args[i]]]
  PROVE  fromProtoJob(msg) = [i \in DOMAIN args |-> Blanked[args[i]]]
<1>1. \A i \in DOMAIN args : args[i] \in Values
  OBVIOUS
<1>2. \A i \in DOMAIN args : fromProtoValue[msg.args[i]] = Blanked[args[i]]
  BY <1>1, RoundTrip
<1>3. DOMAIN msg.args = DOMAIN args
  OBVIOUS
<1> QED
  BY <1>2, <1>3 DEF fromProtoJob

\* What a call asks for are values.
LEMMA AskedValues ==
  ASSUME IInv, NEW c \in Calls
  PROVE  asked[c].args \in Seq(Values)
<1>1. asked[c] \in Requests[c] \cup {NoRequest}
  BY DEF IInv, TypeOK
<1>2. NoRequest.args \in Seq(Values)
  BY DEF NoRequest
<1> QED
  BY <1>1, <1>2, GrpcAssumption

\* A call whose message has arrived asks for nothing else, and sends nothing more.
LEMMA Frozen ==
  ASSUME IInv, [Next]_vars, NEW d \in Calls, received[d].arrived
  PROVE  received'[d] = received[d] /\ asked'[d] = asked[d]
<1>1. phase[d] # "idle"
  BY DEF IInv, TypeOK, CallInv, Settled
<1>2. CASE InitDone \/ InitFails \/ close \/ UNCHANGED vars
  BY <1>2 DEF InitDone, InitFails, close, vars
<1>3. ASSUME NEW c \in Calls, routeRequest(c)
      PROVE  received'[d] = received[d] /\ asked'[d] = asked[d]
  <2>1. c # d
    BY <1>1, <1>3 DEF routeRequest
  <2> QED
    BY <1>3, <2>1 DEF routeRequest, IInv, CallInv
<1>4. ASSUME NEW c \in Calls, ServerExecutes(c)
      PROVE  received'[d] = received[d] /\ asked'[d] = asked[d]
  BY <1>4 DEF ServerExecutes, IInv, CallInv
<1>5. ASSUME NEW c \in Calls, \/ ImportFails(c) \/ Send(c) \/ Answered(c)
                             \/ \E status \in Statuses : Failed(c, status)
      PROVE  received'[d] = received[d] /\ asked'[d] = asked[d]
  BY <1>5 DEF ImportFails, Send, Answered, Failed
<1> QED
  BY <1>2, <1>3, <1>4, <1>5 DEF Next, Step

\* Messages are made of what is asked.
LEMMA MessageInvStep ==
  ASSUME IInv, MessageInv, [Next]_vars
  PROVE  MessageInv'
<1> SUFFICES ASSUME NEW c \in Calls, received'[c].arrived
             PROVE  received'[c].args =
                      [i \in DOMAIN asked'[c].args |-> toProtoValue[asked'[c].args[i]]]
  BY DEF MessageInv
<1>1. CASE received[c].arrived
  BY <1>1, Frozen DEF MessageInv
<1>2. CASE ~received[c].arrived
  <2>1. received'[c] # received[c]
    BY <1>2
  <2>2. PICK d \in Calls : ServerExecutes(d)
    BY <2>1 DEF Next, Step, vars, InitDone, InitFails, close, routeRequest, ImportFails, Send,
                Answered, Failed
  <2>3. c = d /\ received'[c] = Message(asked[c]) /\ asked' = asked
    BY <2>1, <2>2 DEF ServerExecutes, IInv, CallInv
  <2> QED
    BY <2>3 DEF Message, protoArgs
<1> QED
  BY <1>1, <1>2

\* The job a call is answered with is one of those the server has.
LEMMA JobAnswered ==
  ASSUME IInv, MessageInv, NEW c \in Calls, Answered(c), NEW d \in JobsFor(c)
  PROVE  /\ d \in Calls
         /\ received[d].arrived
         /\ fromProtoJob(received[d]) = [i \in DOMAIN asked[d].args |-> Blanked[asked[d].args[i]]]
<1>1. d \in Calls /\ received[d].arrived
  BY DEF JobsFor, Answered
<1>2. received[d].args = [i \in DOMAIN asked[d].args |-> toProtoValue[asked[d].args[i]]]
  BY <1>1 DEF MessageInv
<1>3. asked[d].args \in Seq(Values)
  BY <1>1, AskedValues
<1> QED
  BY <1>1, <1>2, <1>3, JobReturns

\* Jobs that have come back stay what they were.
LEMMA JobInvStep ==
  ASSUME IInv, ArgInv, [Next]_vars
  PROVE  JobInv'
<1> USE DEF ArgInv
<1>1. ASSUME NEW c \in Calls, NEW d \in result[c].of
      PROVE  /\ d \in Calls
             /\ received'[d].arrived
             /\ result[c].args = [i \in DOMAIN asked'[d].args |-> Blanked[asked'[d].args[i]]]
  <2>1. /\ d \in Calls /\ received[d].arrived
        /\ result[c].args = [i \in DOMAIN asked[d].args |-> Blanked[asked[d].args[i]]]
    BY <1>1 DEF JobInv
  <2>2. received'[d] = received[d] /\ asked'[d] = asked[d]
    BY <2>1, Frozen
  <2> QED
    BY <2>1, <2>2
<1>2. CASE result' = result
  BY <1>1, <1>2 DEF JobInv
<1>3. CASE result' # result
  <2>1. PICK c \in Calls : Answered(c)
    BY <1>3 DEF Next, Step, vars, InitDone, InitFails, close, routeRequest, ImportFails, Send,
                ServerExecutes, Failed
  <2>2. PICK d \in JobsFor(c) :
          result' = [result EXCEPT ![c] = [of |-> {d}, args |-> fromProtoJob(received[d])]]
    BY <1>3, <2>1 DEF Answered
  <2>3. /\ d \in Calls
        /\ received[d].arrived
        /\ fromProtoJob(received[d]) = [i \in DOMAIN asked[d].args |-> Blanked[asked[d].args[i]]]
    BY <2>1, JobAnswered
  <2>4. received'[d] = received[d] /\ asked'[d] = asked[d]
    BY <2>3, Frozen
  <2>5. /\ DOMAIN result' = Calls
        /\ result'[c].of = {d} /\ result'[c].args = fromProtoJob(received[d])
        /\ \A b \in Calls : b # c => result'[b] = result[b]
    BY <2>2 DEF JobInv
  <2>6. ASSUME NEW b \in Calls, NEW e \in result'[b].of
        PROVE  /\ e \in Calls
               /\ received'[e].arrived
               /\ result'[b].args = [i \in DOMAIN asked'[e].args |-> Blanked[asked'[e].args[i]]]
    <3>1. CASE b = c
      BY <2>3, <2>4, <2>5, <2>6, <3>1
    <3>2. CASE b # c
      BY <1>1, <2>5, <2>6, <3>2
    <3> QED
      BY <3>1, <3>2
  <2> QED
    BY <2>5, <2>6 DEF JobInv
<1> QED
  BY <1>2, <1>3

\* The invariant is inductive, given the one above.
LEMMA ArgInvStep == IInv /\ ArgInv /\ [Next]_vars => ArgInv'
  BY MessageInvStep, JobInvStep DEF ArgInv

\* What blanking does to an array or an object, if it leaves the items in S.
LEMMA BlankedParts ==
  ASSUME NEW S, NEW v \in Compound(S), v \in Values, \A w \in S : Blanked[w] \in S
  PROVE  LET b == Blanked[v]
         IN  /\ b \in Compound(S)
             /\ b = [kind |-> v.kind, items |-> b.items]
             /\ b.items = [i \in DOMAIN v.items |-> Blanked[v.items[i]]]
<1> DEFINE s == [i \in DOMAIN v.items |-> Blanked[v.items[i]]]
<1>1. /\ v.kind \in {"array", "object"}
      /\ \A i \in DOMAIN v.items : v.items[i] \in S
  BY CompoundParts
<1>2. Blanked[v] = BlankedBody(Blanked, v)
  BY BlankedEquation, Zenon
<1>3. Blanked[v] = [kind |-> v.kind, items |-> s]
  BY <1>1, <1>2, Zenon DEF BlankedBody
<1>4. s \in BoundedSeq(S, MaxItems)
  <2>1. PICK m \in 0..MaxItems : v.items \in [1..m -> S]
    BY DEF Compound, BoundedSeq, SeqOf
  <2>2. s \in [1..m -> S]
    BY <1>1, <2>1
  <2> QED
    BY <2>1, <2>2 DEF BoundedSeq, SeqOf
<1> HIDE DEF s
<1>5. Blanked[v] \in Compound(S) /\ Blanked[v].items = s
  BY <1>1, <1>3, <1>4 DEF Compound
<1> QED
  BY <1>3, <1>5 DEF s

\* What it does to the others.
LEMMA BlankedFlat ==
  ASSUME NEW v \in Flat, v \in Values
  PROVE  Blanked[v] \in Flat /\ ~Blanked[v].zero /\ Blanked[v] = IF v.zero THEN Null ELSE v
<1>1. v.kind \notin {"array", "object"} /\ v.zero \in BOOLEAN
  BY FlatParts
<1>2. Blanked[v] = BlankedBody(Blanked, v)
  BY BlankedEquation, Zenon
<1>3. Blanked[v] = IF v.zero THEN Null ELSE v
  BY <1>1, <1>2, Zenon DEF BlankedBody
<1> QED
  BY <1>1, <1>3 DEF Flat, Null

\* A blanked value nests no deeper.
LEMMA BlankedLevel ==
  ASSUME NEW n \in 0..MaxDepth, NEW v \in Level[n]
  PROVE  v \in Values /\ Blanked[v] \in Level[n]
<1> DEFINE Good == {k \in 0..MaxDepth : \A w \in Level[k] : Blanked[w] \in Level[k]}
<1>1. 0 \in Good
  <2>1. 0 \in 0..MaxDepth /\ Level[0] = Flat
    BY LevelEquation, ProtoValuesAssumption
  <2>2. Level[0] \subseteq Values
    BY <2>1, LevelInside
  <2> QED
    BY <2>1, <2>2, BlankedFlat
<1>2. ASSUME NEW k \in 1..MaxDepth, k - 1 \in Good PROVE k \in Good
  <2>1. k \in 0..MaxDepth /\ Level[k] = Level[k - 1] \cup Compound(Level[k - 1])
    BY LevelEquation, LevelGrows
  <2>2. \A w \in Level[k - 1] : Blanked[w] \in Level[k - 1]
    BY <1>2
  <2>3. Level[k] \subseteq Values
    BY <2>1, LevelInside
  <2>4. ASSUME NEW w \in Compound(Level[k - 1]) PROVE Blanked[w] \in Compound(Level[k - 1])
    BY <2>1, <2>2, <2>3, BlankedParts
  <2> QED
    BY <2>1, <2>2, <2>4
<1> HIDE DEF Good
<1>3. 0..MaxDepth \subseteq Good
  BY <1>1, <1>2, DepthInduction, ProtoValuesAssumption
<1>4. n \in Good
  BY <1>3
<1> QED
  BY <1>4, LevelInside DEF Good

\* Blanking leaves a value, and leaves nothing to blank.
LEMMA BlankedTwice ==
  ASSUME NEW v \in Values
  PROVE  Blanked[v] \in Values /\ Blanked[Blanked[v]] = Blanked[v]
<1> DEFINE Good == {x \in Values : Blanked[x] \in Values /\ Blanked[Blanked[x]] = Blanked[x]}
<1>1. ASSUME NEW x \in Values, x \in Compound(Values) => \A i \in DOMAIN x.items : x.items[i] \in Good
      PROVE  x \in Good
  <2>1. Blanked[x] \in Values
    <3>1. MaxDepth \in 0..MaxDepth /\ x \in Level[MaxDepth]
      BY ProtoValuesAssumption DEF Values
    <3> QED
      BY <3>1, BlankedLevel DEF Values
  <2>2. CASE x \in Flat
    <3>1. Blanked[x] \in Flat /\ ~Blanked[x].zero
      BY <2>2, BlankedFlat
    <3>2. Blanked[Blanked[x]] = IF Blanked[x].zero THEN Null ELSE Blanked[x]
      BY <2>1, <3>1, BlankedFlat
    <3> QED
      BY <2>1, <3>1, <3>2
  <2>3. CASE x \in Compound(Values)
    <3>1. \A w \in Values : Blanked[w] \in Values
      <4>1. MaxDepth \in 0..MaxDepth
        BY ProtoValuesAssumption
      <4> QED
        BY <4>1, BlankedLevel DEF Values
    <3> DEFINE b == Blanked[x]
    <3>2. /\ b \in Compound(Values)
          /\ b = [kind |-> x.kind, items |-> b.items]
          /\ b.items = [i \in DOMAIN x.items |-> Blanked[x.items[i]]]
      BY <2>3, <3>1, BlankedParts
    <3>3. /\ Blanked[b] = [kind |-> b.kind, items |-> Blanked[b].items]
          /\ Blanked[b].items = [i \in DOMAIN b.items |-> Blanked[b.items[i]]]
      BY <2>1, <3>1, <3>2, BlankedParts
    <3>4. \A i \in DOMAIN x.items : Blanked[Blanked[x.items[i]]] = Blanked[x.items[i]]
      BY <1>1, <2>3
    <3> HIDE DEF b
    <3>5. DOMAIN b.items = DOMAIN x.items
      BY <3>2
    <3>6. \A i \in DOMAIN x.items : Blanked[b.items[i]] = b.items[i]
      BY <3>2, <3>4
    <3>7. Blanked[b].items = b.items
      BY <3>2, <3>3, <3>5, <3>6
    <3>8. b.kind = x.kind
      BY <3>2
    <3>9. Blanked[b] = b
      BY <3>2, <3>3, <3>7, <3>8
    <3> QED
      BY <2>1, <3>9 DEF b
  <2> QED
    BY <2>2, <2>3, ValueShape
<1>2. \A x \in Flat : x \notin Compound(Values)
  BY FlatParts, CompoundParts
<1> HIDE DEF Good
<1>3. Values \subseteq Good
  BY <1>1, <1>2, ValueInduction
<1> QED
  BY <1>3 DEF Good

\* A job that comes back has the arguments it was enqueued with, in the same
\* places and however deep they nest, up to zeros and nulls, and exactly those
\* that have no zero in them (grpc.ts:701-749, :752-773).
THEOREM ArgumentsComeBack == Spec => []ArgumentsReturn
<1>1. Init => ArgInv
  BY DEF Init, ArgInv, MessageInv, JobInv, NoMessage, NoJob
<1>2. IInv /\ ArgInv => ArgumentsReturn
  <2> SUFFICES ASSUME IInv, ArgInv, NEW c \in Calls, NEW d \in result[c].of
               PROVE  LET args == asked[d].args
                          back == result[c].args
                      IN  /\ back \in Seq(Values) /\ DOMAIN back = DOMAIN args
                          /\ \A i \in DOMAIN args :
                               /\ Blanked[back[i]] = Blanked[args[i]]
                               /\ Blanked[args[i]] = args[i] => back[i] = args[i]
    BY DEF ArgumentsReturn
  <2> DEFINE args == asked[d].args
             back == result[c].args
  <2>1. args \in Seq(Values)
    BY AskedValues DEF ArgInv, JobInv
  <2>2. back = [i \in DOMAIN args |-> Blanked[args[i]]]
    BY DEF ArgInv, JobInv
  <2>3. \A i \in DOMAIN args : args[i] \in Values
    BY <2>1
  <2>4. \A i \in DOMAIN args : Blanked[args[i]] \in Values /\ Blanked[Blanked[args[i]]] = Blanked[args[i]]
    BY <2>3, BlankedTwice
  <2>5. DOMAIN args = 1..Len(args) /\ Len(args) \in Nat
    BY <2>1
  <2> HIDE DEF args, back
  <2>6. back \in Seq(Values)
    BY <2>2, <2>4, <2>5
  <2> QED
    BY <2>2, <2>4, <2>6 DEF args, back
<1> QED
  BY <1>1, <1>2, ArgInvStep, Invariance, PTL DEF Spec

-----------------------------------------------------------------------------
(* A call of the HTTP transport *)

\* The status that lets a call try again.
Refused == answer = "limited" \/ (answer = "gateway" /\ config.retryServerErrors)

\* A call that sleeps has been refused, is allowed another attempt, has no
\* timer left and a caller who has not aborted.
SleepInv ==
  stage = "sleeping" =>
    /\ config.enabled
    /\ Refused
    /\ attempt < MaxRetries
    /\ signal # "aborted"

\* The server has done what a successful answer says.
AnswerInv ==
  /\ stage = "idle" => attempt = 0 /\ executed = {}
  /\ stage = "reading" /\ answer \in Success => attempt \in executed
  /\ stage = "resolved" => executed # {}

\* An attempt that was followed by another had an answer that lets it try
\* again, and what a 429 has refused is not carried out.
PastInv ==
  /\ \A a \in Attempts : a < attempt =>
       /\ config.enabled
       /\ answers[a] = "limited" \/ (answers[a] = "gateway" /\ config.retryServerErrors)
  /\ \A a \in executed : answers[a] # "limited"

HttpIInv == CallTypeOK /\ TimersCleared /\ SleepInv /\ AnswerInv /\ PastInv

\* The initial states satisfy the invariant.
LEMMA HttpInitInv ==
  ASSUME CallInit
  PROVE  HttpIInv
<1>1. CallTypeOK
  BY HttpAssumption DEF CallInit, CallTypeOK, Attempts, Ends
<1>2. TimersCleared /\ SleepInv /\ AnswerInv
  BY DEF CallInit, TimersCleared, SleepInv, AnswerInv
<1>3. PastInv
  BY HttpAssumption DEF CallInit, PastInv, Attempts
<1> QED BY <1>1, <1>2, <1>3 DEF HttpIInv

\* What the catch block does to the phase and the error, and when it lets the
\* call sleep.
LEMMA HttpFailOutcome ==
  ASSUME NEW err \in {"OJSRateLimitError", "OJSServerError", "OJSError", "OJSConnectionError"},
         NEW status, Fail(err, status)
  PROVE  \/ /\ stage' = "sleeping"
            /\ thrown' = thrown
            /\ signal # "aborted"
            /\ config.enabled
            /\ attempt < MaxRetries
            /\ err = "OJSRateLimitError" \/ (err = "OJSServerError" /\ isRetryableStatus(status))
         \/ /\ stage' = "rejected"
            /\ thrown' \in {"OJSRateLimitError", "OJSServerError", "OJSError",
                           "OJSConnectionError", "reason"}
  BY DEF Fail, Retries, Throw

\* A step that neither begins an attempt nor answers or carries one out.
LEMMA PastKept ==
  ASSUME PastInv, UNCHANGED <<config, attempt, answers, executed>>
  PROVE  PastInv'
  BY DEF PastInv

\* The answer to the attempt under way.
LEMMA PastAnswered ==
  ASSUME CallTypeOK, PastInv, NEW status \in Responses, AnswerArrives(status),
         UNCHANGED <<config, attempt, executed>>
  PROVE  /\ PastInv'
         /\ answers' \in [Attempts -> Responses \cup {"none"}]
         /\ answer' = status
<1>1. /\ answers' \in [Attempts -> Responses \cup {"none"}]
      /\ answers'[attempt] = status
      /\ \A a \in Attempts : a # attempt => answers'[a] = answers[a]
  BY DEF AnswerArrives, CallTypeOK
<1>2. status = "limited" => attempt \notin executed
  BY DEF AnswerArrives
<1>3. executed \subseteq Attempts /\ \A a \in Attempts : a < attempt => a # attempt
  BY HttpAssumption DEF CallTypeOK, Attempts
<1>4. PastInv'
  BY <1>1, <1>2, <1>3 DEF PastInv
<1> QED BY <1>1, <1>4 DEF answer

\* Every step of a call preserves the invariant.
LEMMA HttpStepInv ==
  ASSUME HttpIInv, [CallNext]_callVars
  PROVE  HttpIInv'
<1> USE HttpAssumption DEF HttpIInv, CallTypeOK, Attempts, Ends, Responses, Success
<1>1. CASE request
  <2>1. PastInv'
    BY <1>1 DEF request, executeRequest, PastInv, AnswerInv
  <2> QED BY <1>1, <2>1 DEF request, executeRequest, TimersCleared, SleepInv, AnswerInv
<1>2. ASSUME NEW a \in Attempts, RequestExecuted(a) PROVE HttpIInv'
  <2>1. PastInv'
    BY <1>2 DEF RequestExecuted, PastInv
  <2> QED BY <1>2, <2>1 DEF RequestExecuted, TimersCleared, SleepInv, AnswerInv, Refused, answer
<1>3. CASE EmptyAnswer
  <2>1. AnswerArrives("empty") /\ UNCHANGED <<config, attempt, executed>> /\ attempt \in executed
    BY <1>3 DEF EmptyAnswer, AnswerArrives
  <2>2. PastInv' /\ answers' \in [Attempts -> Responses \cup {"none"}]
    BY <2>1, PastAnswered
  <2> QED BY <1>3, <2>1, <2>2 DEF EmptyAnswer, TimersCleared, SleepInv, AnswerInv
<1>4. CASE HeadersArrive
  <2>1. PICK status \in Responses : AnswerArrives(status)
    BY <1>4 DEF HeadersArrive
  <2>2. UNCHANGED <<config, attempt, executed>>
    BY <1>4 DEF HeadersArrive
  <2>3. PastInv' /\ answers' \in [Attempts -> Responses \cup {"none"}] /\ answer' = status
    BY <2>1, <2>2, PastAnswered
  <2>4. answer' \in Success => attempt' \in executed'
    BY <2>1, <2>2, <2>3 DEF AnswerArrives
  <2> QED BY <1>4, <2>2, <2>3, <2>4 DEF HeadersArrive, TimersCleared, SleepInv, AnswerInv
<1>5. CASE BodyParsed
  <2>1. CASE answer \in Success
    <3>1. PastInv'
      BY <1>5, PastKept DEF BodyParsed
    <3> QED BY <1>5, <2>1, <3>1 DEF BodyParsed, TimersCleared, SleepInv, AnswerInv, answer
  <2>2. CASE answer \notin Success
    <3>1. /\ parseErrorResponse(answer) \in {"OJSRateLimitError", "OJSServerError", "OJSError"}
          /\ parseErrorResponse(answer) = "OJSRateLimitError" => answer = "limited"
      BY DEF parseErrorResponse
    <3>2. Fail(parseErrorResponse(answer), answer)
      BY <1>5, <2>2 DEF BodyParsed
    <3>3. PICK err \in {"OJSRateLimitError", "OJSServerError", "OJSError"} :
            /\ err = parseErrorResponse(answer)
            /\ Fail(err, answer)
      BY <3>1, <3>2
    <3>4. \/ /\ stage' = "sleeping"
             /\ thrown' = thrown
             /\ signal # "aborted" /\ config.enabled /\ attempt < MaxRetries
             /\ err = "OJSRateLimitError" \/ (err = "OJSServerError" /\ isRetryableStatus(answer))
          \/ /\ stage' = "rejected"
             /\ thrown' \in {"OJSRateLimitError", "OJSServerError", "OJSError",
                            "OJSConnectionError", "reason"}
      BY <3>3, HttpFailOutcome
    <3>5. UNCHANGED <<config, signal, attempt, listeners, answers, executed>>
          /\ timer' = timer \ {attempt} /\ stage = "reading"
      BY <1>5 DEF BodyParsed
    <3>6. CallTypeOK' /\ TimersCleared' /\ AnswerInv'
      BY <3>4, <3>5 DEF TimersCleared, AnswerInv, answer
    <3>7. SleepInv'
      BY <3>1, <3>3, <3>4, <3>5 DEF SleepInv, Refused, isRetryableStatus, answer
    <3>8. PastInv'
      BY <3>5, PastKept
    <3> QED BY <3>6, <3>7, <3>8
  <2> QED BY <2>1, <2>2
<1>6. CASE BodyFails
  <2>1. stage' = "rejected" /\ thrown' \in {"OJSConnectionError", "reason"}
    BY <1>6 DEF BodyFails, Fail, Retries, Throw
  <2>2. PastInv'
    BY <1>6, PastKept DEF BodyFails
  <2> QED BY <1>6, <2>1, <2>2 DEF BodyFails, TimersCleared, SleepInv, AnswerInv
<1>7. CASE FetchFails
  <2>1. stage' = "rejected" /\ thrown' \in {"OJSConnectionError", "reason"}
    BY <1>7 DEF FetchFails, Fail, Retries, Throw
  <2>2. PastInv'
    BY <1>7, PastKept DEF FetchFails
  <2> QED BY <1>7, <2>1, <2>2 DEF FetchFails, TimersCleared, SleepInv, AnswerInv
<1>8. ASSUME NEW a \in Attempts, TimeoutFires(a) PROVE HttpIInv'
  <2>1. a = attempt /\ stage \in {"fetching", "reading"}
    BY <1>8 DEF TimeoutFires, TimersCleared
  <2>2. stage' = "rejected" /\ thrown' \in {"OJSConnectionError", "reason"}
    BY <1>8, <2>1 DEF TimeoutFires, Fail, Retries, Throw
  <2>3. PastInv'
    BY <1>8, PastKept DEF TimeoutFires
  <2> QED BY <1>8, <2>1, <2>2, <2>3 DEF TimeoutFires, TimersCleared, SleepInv, AnswerInv
<1>9. CASE SignalAborts
  <2>4. PastInv'
    BY <1>9, PastKept DEF SignalAborts
  <2>1. CASE stage \in {"fetching", "reading"} /\ attempt \in listeners
    BY <1>9, <2>1, <2>4 DEF SignalAborts, Throw, TimersCleared, SleepInv, AnswerInv
  <2>2. CASE stage = "sleeping"
    BY <1>9, <2>2, <2>4 DEF SignalAborts, Throw, TimersCleared, SleepInv, AnswerInv
  <2>3. CASE ~(stage \in {"fetching", "reading"} /\ attempt \in listeners) /\ stage # "sleeping"
    <3>1. UNCHANGED <<stage, thrown, timer>>
      BY <1>9, <2>3 DEF SignalAborts
    <3> QED BY <1>9, <2>3, <2>4, <3>1 DEF SignalAborts, TimersCleared, SleepInv, AnswerInv, answer, Refused
  <2> QED BY <2>1, <2>2, <2>3
<1>10. CASE SleepOver
  <2>1. PastInv'
    <3>1. Refused /\ config.enabled /\ attempt \in Nat /\ attempt' = attempt + 1
      BY <1>10 DEF SleepOver, executeRequest, SleepInv
    <3>2. \A a \in Attempts : a < attempt + 1 => a < attempt \/ a = attempt
      BY <3>1
    <3> QED BY <1>10, <3>1, <3>2 DEF SleepOver, executeRequest, PastInv, Refused, answer
  <2> QED BY <1>10, <2>1 DEF SleepOver, executeRequest, TimersCleared, SleepInv, AnswerInv
<1>11. CASE UNCHANGED callVars
  <2>1. PastInv'
    BY <1>11, PastKept DEF callVars
  <2> QED BY <1>11, <2>1 DEF callVars, TimersCleared, SleepInv, AnswerInv, Refused, answer
<1> QED
  BY <1>1, <1>2, <1>3, <1>4, <1>5, <1>6, <1>7, <1>8, <1>9, <1>10, <1>11 DEF CallNext

\* Every behaviour of a call satisfies the invariant.
THEOREM HttpInvariance == CallSpec => []HttpIInv
  BY HttpInitInv, HttpStepInv, PTL DEF CallSpec

\* The variables of a call keep their types; in particular no call makes more
\* than maxRetries + 1 attempts.
THEOREM HttpTypeCorrect == CallSpec => []CallTypeOK
  BY HttpInvariance, PTL DEF HttpIInv

\* Every way out of an attempt clears its timeout.
THEOREM NoStrayTimer == CallSpec => []TimersCleared
  BY HttpInvariance, PTL DEF HttpIInv

\* The server carries a request out once, whatever is lost, late or resent,
\* unless a proxy answers 502, 503 or 504 for it and those are tried again.
THEOREM CarriedOutOnce == CallSpec => []DoneOnceUnlessProxied
<1>1. HttpIInv => DoneOnceUnlessProxied
  BY DEF HttpIInv, CallTypeOK, PastInv, DoneOnceUnlessProxied
<1> QED BY <1>1, HttpInvariance, PTL

\* Once the caller has aborted, no further request is sent.
THEOREM AbortEndsRequests == CallSpec => AbortStopsRequests
<1>1. HttpIInv /\ [CallNext]_callVars =>
        [stage' = "fetching" /\ stage # "fetching" =>
           signal # "aborted" \/ stage = "idle"]_callVars
  <2> SUFFICES ASSUME HttpIInv, CallNext, stage' = "fetching", stage # "fetching"
               PROVE  signal # "aborted" \/ stage = "idle"
    BY DEF callVars
  <2>1. request \/ SleepOver
    BY DEF CallNext, RequestExecuted, EmptyAnswer, HeadersArrive, BodyParsed,
           BodyFails, FetchFails, TimeoutFires, SignalAborts, Fail, Throw
  <2> QED BY <2>1 DEF request, SleepOver, HttpIInv, SleepInv
<1> QED BY <1>1, HttpInvariance, PTL DEF CallSpec, AbortStopsRequests

\* What a call is for the contract.
outcomeOf == CASE stage = "idle"     -> "idle"
               [] stage = "resolved" -> "answered"
               [] stage = "rejected" -> "failed"
               [] OTHER              -> "pending"

\* Every step of a call is a step of a remote call, or none.
LEMMA HttpRemoteStep ==
  ASSUME HttpIInv, HttpIInv', [CallNext]_callVars
  PROVE  [RemoteRequest!Next]_<<outcomeOf, executed # {}>>
<1> USE DEF outcomeOf, RemoteRequest!Next, RemoteRequest!Call, RemoteRequest!Apply, RemoteRequest!Return,
            RemoteRequest!Fail
<1>1. CASE request
  BY <1>1 DEF request, executeRequest
<1>2. ASSUME NEW a \in Attempts, RequestExecuted(a)
      PROVE  [RemoteRequest!Next]_<<outcomeOf, executed # {}>>
  BY <1>2 DEF RequestExecuted
<1>3. CASE EmptyAnswer
  BY <1>3 DEF EmptyAnswer
<1>4. CASE HeadersArrive
  BY <1>4 DEF HeadersArrive
<1>5. CASE \/ BodyParsed \/ BodyFails \/ FetchFails \/ SignalAborts
            \/ \E a \in Attempts : TimeoutFires(a)
  <2>1. executed' = executed
    BY <1>5 DEF BodyParsed, BodyFails, FetchFails, SignalAborts, TimeoutFires
  <2>2. CASE stage' = stage
    BY <2>1, <2>2
  <2>3. CASE stage' # stage
    <3>1. stage \in {"fetching", "reading", "sleeping"}
          /\ stage' \in {"sleeping", "rejected", "resolved"}
      BY <1>5, <2>3 DEF BodyParsed, BodyFails, FetchFails, SignalAborts,
                        TimeoutFires, Fail, Throw, Retries
    <3>2. stage' = "resolved" => executed # {}
      BY <2>1 DEF HttpIInv, AnswerInv
    <3> QED BY <2>1, <3>1, <3>2
  <2> QED BY <2>2, <2>3
<1>6. CASE SleepOver
  BY <1>6 DEF SleepOver, executeRequest
<1>7. CASE UNCHANGED callVars
  BY <1>7 DEF callVars
<1> QED BY <1>1, <1>2, <1>3, <1>4, <1>5, <1>6, <1>7 DEF CallNext

\* A call implements the safety part of a remote call: it resolves only if the
\* server has carried the operation out, and ends once.
THEOREM HttpRemoteCallImplemented == CallSpec => RemoteRequest!Spec
<1>1. CallInit => RemoteRequest!Init
  BY DEF CallInit, RemoteRequest!Init
<1>2. HttpIInv /\ HttpIInv' /\ [CallNext]_callVars =>
        [RemoteRequest!Next]_<<(CASE stage = "idle"     -> "idle"
                                [] stage = "resolved" -> "answered"
                                [] stage = "rejected" -> "failed"
                                [] OTHER              -> "pending"), executed # {}>>
  BY HttpRemoteStep DEF outcomeOf
<1> QED BY <1>1, <1>2, HttpInvariance, PTL DEF CallSpec, RemoteRequest!Spec
=============================================================================
