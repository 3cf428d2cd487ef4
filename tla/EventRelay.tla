------------------------------ MODULE EventRelay ------------------------------
(***************************************************************************)
(* A program that hands the events of a subscription to an emitter:        *)
(*                                                                         *)
(*     const sub = subscribe(options, (e) => { emitter.emit(e); });        *)
(*                                                                         *)
(* with listeners that may do whatever the two offer while they run.       *)
(* JavaScript has one thread: the lines of a chunk, the handler, emit() up *)
(* to its await and the listeners' bodies run inside one another, and all  *)
(* the rest waits.                                                         *)
(***************************************************************************)
EXTENDS Integers, Sequences, SequencesExt

CONSTANTS
  Values, Sent, Broken, Listeners, Types, MaxEntries,
  OwnAfter,   \* number of emissions after which the program makes one of its own
  RelayCuts   \* places in the stream where chunks end when the handler relays

VARIABLES
  phase, received, chunk, buffer, lines, eventType, eventId, eventData, calls, aborted,
  map, sets, handles, emissions, stack,
  handler,    \* what was given to subscribe(): "plain" does not use the emitter
  relayed     \* calls of the handler that have emitted their event

stream  == INSTANCE Subscribe
emitter == INSTANCE Events

ASSUME EventRelayAssumption ==
  /\ stream!NL \notin Values
  /\ Sent \in Seq([type : Seq(Values), id : Seq(Values), data : Seq(Values)])
  /\ "*" \notin Types
  /\ MaxEntries \in Nat /\ OwnAfter \in Nat

streamVars  == <<phase, received, chunk, buffer, lines, eventType, eventId, eventData, calls, aborted>>
emitterVars == <<map, sets, handles, emissions, stack>>
vars == <<streamVars, emitterVars, handler, relayed>>

Init ==
  /\ stream!Init
  /\ emitter!Init
  /\ handler \in {"plain", "relay"}
  /\ relayed = 0

\* Code of the program may run: in a listener, in the handler, or while
\* readStream waits.
ProgramRuns == emitter!UserRuns /\ phase # "lines"

\* emit() is back when its loops are over: the handler goes on, and readStream
\* after it.
EmitIsBack == stack = <<>>

-----------------------------------------------------------------------------

\* The handler emits what it was called with.
Relay ==
  /\ handler = "relay"
  /\ phase = "handling"
  /\ relayed < Len(calls)
  /\ EmitIsBack
  /\ relayed' = relayed + 1
  /\ emitter!emit([type |-> Last(calls).type[1], call |-> relayed'])
  /\ UNCHANGED <<streamVars, handler>>

\* The handler ends.  One that relays does not throw: emit() is async, and
\* what a listener throws rejects the promise nobody waits for.
HandlerEnds ==
  /\ handler = "relay" => relayed = Len(calls)
  /\ EmitIsBack
  /\ stream!HandlerReturns \/ (handler = "plain" /\ stream!HandlerThrows)
  /\ UNCHANGED <<emitterVars, handler, relayed>>

\* The network, and the turns of readStream.
StreamStep ==
  /\ \/ stream!Connect
     \/ stream!ConnectionEnds
     \/ \E n \in 1..Len(stream!Stream) :
          /\ handler = "relay" => received + n \in RelayCuts
          /\ stream!ChunkArrives(n)
     \/ EmitIsBack /\ stream!readStream
  /\ UNCHANGED <<emitterVars, handler, relayed>>

Unsubscribe ==
  /\ ProgramRuns
  /\ stream!unsubscribe
  /\ UNCHANGED <<emitterVars, handler, relayed>>

\* The program uses the emitter, also for events of its own: at the start, in
\* the handler, in a listener.  (What it does while readStream waits it might
\* as well do when the handler is called next.)
ProgramStep ==
  /\ handler = "relay"
  /\ emitter!UserRuns
  /\ phase \in {"connecting", "handling"}
  /\ \/ \E l \in Listeners, t \in Types \cup {"*"} : emitter!on(l, t)
     \/ \E h \in handles : emitter!off(h)
     \/ emitter!removeAllListeners
     \/ /\ Len(emissions) = OwnAfter
        /\ \E t \in Types : emitter!emit([type |-> t, call |-> 0])
  /\ UNCHANGED <<streamVars, handler, relayed>>

EmitterStep == (emitter!Loop \/ emitter!Body) /\ UNCHANGED <<streamVars, handler, relayed>>

Settles ==
  /\ phase \notin {"lines", "handling"}
  /\ \E e \in DOMAIN emissions : emitter!PromiseResolves(e) \/ emitter!PromiseRejects(e)
  /\ UNCHANGED <<streamVars, handler, relayed>>

Next ==
  \/ Relay
  \/ HandlerEnds
  \/ StreamStep
  \/ Unsubscribe
  \/ ProgramStep
  \/ EmitterStep
  \/ Settles

Spec == Init /\ [][Next]_vars

\* The event loop goes on, and so does code that has begun: the handler and
\* the listeners come to an end.  Nothing is said of the server.
Fairness ==
  /\ WF_vars(EmitIsBack /\ stream!readStream /\ UNCHANGED <<emitterVars, handler, relayed>>)
  /\ WF_vars(Relay)
  /\ WF_vars(HandlerEnds)
  /\ WF_vars(EmitterStep)

FairSpec == Spec /\ Fairness

-----------------------------------------------------------------------------
(* Properties *)

\* However the stream is cut into chunks, the handler is told of its events as
\* they were sent, in order and one by one (subscribe.ts:139-168).
DeliveredAsSent == stream!DeliveredAsSent

\* An emission that resolves has called, once, everyone who was listening from
\* its beginning and was not removed, and has waited for what they returned
\* (events.ts:166-184).
ResolvedMeansHeard == emitter!ResolvedMeansHeard

\* A subscription that was ended is over for the server too: nothing more is
\* read from the stream - what had been read may still be delivered - and the
\* reader is let go, whatever was going on (subscribe.ts:60-63, :138-142,
\* :170-172).
UnsubscribeEnds == stream!StopsReading /\ (aborted ~> phase = "closed")
=============================================================================
