--------------------------------- MODULE Events ---------------------------------
(***************************************************************************)
(* OJSEventEmitter (src/src/events.ts): listeners in a Set per event type, *)
(* "*" for any type, and emit(), which calls them one after the other      *)
(* without giving up the thread and then waits for what they returned.     *)
(*                                                                         *)
(* Listeners are programs of the user: while one runs it may add and       *)
(* remove listeners and emit events of its own, whose listeners then run   *)
(* inside it.  The emissions that are calling listeners form a stack.      *)
(*                                                                         *)
(* A JavaScript Set is iterated by place: what is added behind the place   *)
(* is visited, what was deleted is skipped, and a value that is deleted    *)
(* and added again has a new place.  So a Set is a sequence of entries     *)
(* that keeps the deleted ones.                                            *)
(***************************************************************************)
EXTENDS Integers, Sequences, SequencesExt

CONSTANTS
  Listeners,    \* functions of the user
  Types,        \* the event types somebody listens to, "*" not among them
  MaxEntries    \* bound on the entries of the Sets

VARIABLES
  map,        \* the Map: number of the Set of each type, 0 for none
  sets,       \* all Sets there have been: sequences of [listener, live]
  handles,    \* the unsubscribe functions on() returned: <<Set, listener>>
  emissions,  \* the calls of emit(); one that has settled is just Resolved or Rejected
  stack       \* those that are calling listeners, the last one on top

vars == <<map, sets, handles, emissions, stack>>

Keys == Types \cup {"*"}

Init ==
  /\ map = [t \in Keys |-> 0]
  /\ sets = <<>>
  /\ handles = {}
  /\ emissions = <<>>
  /\ stack = <<>>

Top == Last(stack)

Resolved == [outcome |-> "resolved"]
Rejected == [outcome |-> "rejected"]

\* The program outside of emit() runs, or the body of a listener.
UserRuns == stack # <<>> => emissions[Top].inBody

Entries(s) == IF s = 0 THEN <<>> ELSE sets[s]
Live(s)    == {i \in DOMAIN Entries(s) : Entries(s)[i].live}

-----------------------------------------------------------------------------

\* Set.add().
Add(entries, l) ==
  IF \E i \in DOMAIN entries : entries[i] = [listener |-> l, live |-> TRUE]
  THEN entries
  ELSE Append(entries, [listener |-> l, live |-> TRUE])

\* on(), and onAny() for "*".
on(l, t) ==
  /\ UserRuns
  /\ LET s == IF map[t] = 0 THEN Len(sets) + 1 ELSE map[t]
     IN  /\ map' = [map EXCEPT ![t] = s]
         /\ sets' = IF map[t] = 0
                    THEN Append(sets, Add(<<>>, l))
                    ELSE [sets EXCEPT ![s] = Add(@, l)]
         /\ handles' = handles \cup {<<s, l>>}
         /\ Len(FlattenSeq(sets')) <= MaxEntries
  /\ UNCHANGED <<emissions, stack>>

\* The function on() returned: Set.delete() of the Set that was the type's then.
off(h) ==
  /\ UserRuns
  /\ h \in handles
  /\ LET s == h[1]  l == h[2]
     IN  sets' = [sets EXCEPT ![s] = [i \in DOMAIN @ |->
                    IF @[i].listener = l THEN [@[i] EXCEPT !.live = FALSE] ELSE @[i]]]
  /\ UNCHANGED <<map, handles, emissions, stack>>

\* The Sets are dropped, not emptied.
removeAllListeners ==
  /\ UserRuns
  /\ map' = [t \in Keys |-> 0]
  /\ UNCHANGED <<sets, handles, emissions, stack>>

\* emit(), up to its first loop.
emit(event) ==
  /\ LET s == IF event.type \in Types THEN map[event.type] ELSE 0
         a == map["*"]
     IN  emissions' = Append(emissions,
           [event |-> event, typeListeners |-> s, allListeners |-> a,
            loop |-> "type", place |-> 0, inBody |-> FALSE,
            called |-> <<>>, promises |-> {}, outcome |-> "calling",
            due |-> {<<s, i>> : i \in Live(s)} \cup {<<a, i>> : i \in Live(a)}])
  /\ stack' = Append(stack, Len(emissions) + 1)
  /\ UNCHANGED <<map, sets, handles>>

\* The Set an emission is going through and the places it has before it.
Current(e) == IF e.loop = "type" THEN e.typeListeners ELSE e.allListeners
Ahead(e)   == {i \in Live(Current(e)) : i > e.place}

\* The next listener is called.
CallListener ==
  /\ stack # <<>> /\ ~emissions[Top].inBody
  /\ LET e == emissions[Top]
     IN  \E i \in Ahead(e) :
           /\ \A k \in Ahead(e) : i <= k
           /\ emissions' = [emissions EXCEPT ![Top] =
                [e EXCEPT !.place = i, !.inBody = TRUE,
                          !.called = Append(@, <<Current(e), i>>)]]
  /\ UNCHANGED <<map, sets, handles, stack>>

\* The listeners of the type are through: those of all types are next.
NextLoop ==
  /\ stack # <<>> /\ ~emissions[Top].inBody
  /\ emissions[Top].loop = "type"
  /\ Ahead(emissions[Top]) = {}
  /\ emissions' = [emissions EXCEPT ![Top].loop = "all", ![Top].place = 0]
  /\ UNCHANGED <<map, sets, handles, stack>>

\* Mutant: emit() does not wait.
NoWait ==
  /\ stack # <<>> /\ ~emissions[Top].inBody
  /\ emissions[Top].loop = "all"
  /\ Ahead(emissions[Top]) = {}
  /\ emissions' = [emissions EXCEPT ![Top] = Resolved]
  /\ stack' = Front(stack)
  /\ UNCHANGED <<map, sets, handles>>

\* Promise.all(): emit() gives up the thread, or resolves when there is
\* nothing to wait for.
AwaitAll ==
  /\ stack # <<>> /\ ~emissions[Top].inBody
  /\ emissions[Top].loop = "all"
  /\ Ahead(emissions[Top]) = {}
  /\ emissions' = [emissions EXCEPT ![Top] =
                     IF @.promises = {} THEN Resolved ELSE [@ EXCEPT !.outcome = "waiting"]]
  /\ stack' = Front(stack)
  /\ UNCHANGED <<map, sets, handles>>

InBody == stack # <<>> /\ emissions[Top].inBody

ListenerReturns ==
  /\ InBody
  /\ emissions' = [emissions EXCEPT ![Top].inBody = FALSE]
  /\ UNCHANGED <<map, sets, handles, stack>>

\* It is async and returns its promise.
ListenerAwaits ==
  /\ InBody
  /\ emissions' = [emissions EXCEPT ![Top].inBody = FALSE,
                                    ![Top].promises = @ \cup {Last(emissions[Top].called)}]
  /\ UNCHANGED <<map, sets, handles, stack>>

\* It throws: the loops end and emit() rejects.
ListenerThrows ==
  /\ InBody
  /\ emissions' = [emissions EXCEPT ![Top] = Rejected]
  /\ stack' = Front(stack)
  /\ UNCHANGED <<map, sets, handles>>

\* A listener's promise is fulfilled; emit() resolves with the last one.
PromiseResolves(e) ==
  /\ stack = <<>>
  /\ e \in DOMAIN emissions
  /\ emissions[e].outcome = "waiting"
  /\ LET em == emissions[e]
     IN  \E p \in em.promises :
           emissions' = [emissions EXCEPT ![e] =
             IF em.promises = {p} THEN Resolved ELSE [em EXCEPT !.promises = @ \ {p}]]
  /\ UNCHANGED <<map, sets, handles, stack>>

\* A listener's promise is rejected, and emit() with it.
PromiseRejects(e) ==
  /\ stack = <<>>
  /\ e \in DOMAIN emissions
  /\ emissions[e].outcome = "waiting"
  /\ emissions' = [emissions EXCEPT ![e] = Rejected]
  /\ UNCHANGED <<map, sets, handles, stack>>

\* emit()'s own steps, and those of the listener it called.
Loop == CallListener \/ NextLoop \/ AwaitAll
Body == ListenerReturns \/ ListenerAwaits \/ ListenerThrows

-----------------------------------------------------------------------------
(* Properties *)

\* Emission em has called everyone who was listening when it began and was not
\* removed since, and no-one twice who was not removed and added again.
WasHeard(em) ==
  /\ \A d \in em.due : sets[d[1]][d[2]].live => Contains(em.called, d)
  /\ \A i, j \in DOMAIN em.called :
       LET entry(k) == sets[em.called[k][1]][em.called[k][2]]
       IN  i < j /\ em.called[i][1] = em.called[j][1] /\ entry(i).listener = entry(j).listener
             => ~entry(i).live

\* An emission that resolves was heard, and nothing its listeners returned is
\* still to come but the promise it resolves with - whatever listeners do to
\* the lists, to each other and to the emitter while they run
\* (events.ts:166-184).
ResolvedMeansHeard ==
  [][\A e \in DOMAIN emissions :
       emissions[e] # Resolved /\ emissions'[e] = Resolved =>
         /\ WasHeard(emissions[e])
         /\ \A p, q \in emissions[e].promises : p = q /\ emissions[e].outcome = "waiting"]_vars
=============================================================================
