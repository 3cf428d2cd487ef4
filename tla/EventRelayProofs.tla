--------------------------- MODULE EventRelayProofs ---------------------------
(***************************************************************************)
(* What the emitter promises to listeners that may use it while they run,  *)
(* what unsubscribe() promises, and what a subscriber is told of the       *)
(* stream however it is cut, for any events and their values, any          *)
(* event types and listeners and any number of emissions.                  *)
(***************************************************************************)
EXTENDS EventRelay, WellFoundedInduction, TLAPS

Places == Nat \X Nat

\* Emissions whose loops or promises are not over.
Running(T) ==
  [event : [type : T, call : Nat], typeListeners : Nat, allListeners : Nat,
   loop : {"type", "all"}, place : Nat, inBody : BOOLEAN, called : Seq(Places),
   promises : SUBSET Places, outcome : {"calling", "waiting"}, due : SUBSET Places]

Settled == {emitter!Resolved, emitter!Rejected}

Kind(e) == e \in Settled \/ e \in Running({e.event.type})

\* The Sets: a listener has at most one live entry, the last one it has.
SetsInv ==
  /\ sets \in Seq(Seq([listener : Listeners, live : BOOLEAN]))
  /\ \A s \in DOMAIN sets : \A p, q \in DOMAIN sets[s] :
       p < q /\ sets[s][p].listener = sets[s][q].listener => ~sets[s][p].live

\* No Set belongs to two types.
MapInv ==
  /\ map \in [emitter!Keys -> 0..Len(sets)]
  /\ \A t, u \in emitter!Keys : map[t] = map[u] /\ map[t] # 0 => t = u

\* The emissions on the stack are those that call listeners, each begun by a
\* listener of the one below it.
StackInv ==
  /\ stack \in Seq(Nat)
  /\ \A p \in DOMAIN stack :
       /\ stack[p] \in DOMAIN emissions
       /\ emissions[stack[p]].outcome = "calling"
  /\ \A p, q \in DOMAIN stack : p < q => stack[p] < stack[q]
  /\ \A k \in DOMAIN emissions :
       emissions[k].outcome = "calling" => \E p \in DOMAIN stack : stack[p] = k

\* The entries emission e has called and is to call are there, in the Sets it
\* goes through; it has called those of one Set by their places.
Called(e) ==
  /\ e.typeListeners <= Len(sets) /\ e.allListeners <= Len(sets)
  /\ e.typeListeners = e.allListeners => e.typeListeners = 0
  /\ e.inBody => e.called # <<>>
  /\ \A i \in DOMAIN e.called :
       /\ e.called[i][1] \in {e.typeListeners, e.allListeners} \ {0}
       /\ e.called[i][2] \in DOMAIN sets[e.called[i][1]]
       /\ e.called[i][1] = emitter!Current(e) => e.called[i][2] <= e.place
       /\ e.loop = "type" => e.called[i][1] = e.typeListeners
  /\ \A i, j \in DOMAIN e.called :
       i < j /\ e.called[i][1] = e.called[j][1] => e.called[i][2] < e.called[j][2]

\* Whoever is due and still a listener has been called or lies ahead.
Due(e) ==
  \A d \in e.due :
    /\ d[1] \in {e.typeListeners, e.allListeners} \ {0}
    /\ d[2] \in DOMAIN sets[d[1]]
    /\ sets[d[1]][d[2]].live =>
         \/ \E i \in DOMAIN e.called : e.called[i] = d
         \/ e.outcome = "calling" /\ d[1] = emitter!Current(e) /\ d[2] > e.place
         \/ e.outcome = "calling" /\ e.loop = "type" /\ d[1] = e.allListeners

EmissionsInv ==
  /\ \E S : emissions \in Seq(S)
  /\ \A k \in DOMAIN emissions :
       /\ Kind(emissions[k])
       /\ emissions[k] \notin Settled => Called(emissions[k]) /\ Due(emissions[k])

EInv == SetsInv /\ MapInv /\ StackInv /\ EmissionsInv

\* A subscription that was ended waits for nothing.
AbortInv == aborted => phase \notin {"connecting", "reading"}

IInv == EInv /\ AbortInv /\ relayed \in Nat

-----------------------------------------------------------------------------
(* Sequences *)

\* A sequence one longer, or changed in one place.
LEMMA Sequences ==
  ASSUME NEW S, NEW s \in Seq(S), NEW x
  PROVE  /\ Append(s, x) \in Seq(S \cup {x})
         /\ Len(Append(s, x)) = Len(s) + 1
         /\ DOMAIN Append(s, x) = DOMAIN s \cup {Len(s) + 1}
         /\ Len(s) + 1 \notin DOMAIN s
         /\ \A i \in DOMAIN s : Append(s, x)[i] = s[i]
         /\ Append(s, x)[Len(s) + 1] = x
         /\ \A k \in DOMAIN s :
              /\ [s EXCEPT ![k] = x] \in Seq(S \cup {x})
              /\ DOMAIN [s EXCEPT ![k] = x] = DOMAIN s
              /\ Len([s EXCEPT ![k] = x]) = Len(s)
              /\ \A i \in DOMAIN s : [s EXCEPT ![k] = x][i] = IF i = k THEN x ELSE s[i]
<1> DEFINE T == S \cup {x}
<1>1. s \in Seq(T) /\ x \in T /\ Len(s) \in Nat /\ DOMAIN s = 1..Len(s)
  OBVIOUS
<1>2. /\ Append(s, x) \in Seq(T)
      /\ Len(Append(s, x)) = Len(s) + 1
      /\ \A i \in 1..Len(s) : Append(s, x)[i] = s[i]
      /\ Append(s, x)[Len(s) + 1] = x
  BY <1>1
<1>3. DOMAIN Append(s, x) = 1..(Len(s) + 1)
  BY <1>2
<1>4. ASSUME NEW k \in DOMAIN s
      PROVE  /\ [s EXCEPT ![k] = x] \in Seq(T)
             /\ Len([s EXCEPT ![k] = x]) = Len(s)
  BY <1>1, <1>4
<1> QED
  BY <1>1, <1>2, <1>3, <1>4

\* The sequence without its last element.
LEMMA Fronts ==
  ASSUME NEW S, NEW s \in Seq(S), s # <<>>
  PROVE  /\ Front(s) \in Seq(S)
         /\ Len(s) \in DOMAIN s
         /\ DOMAIN Front(s) = DOMAIN s \ {Len(s)}
         /\ \A i \in DOMAIN Front(s) : Front(s)[i] = s[i] /\ i < Len(s)
         /\ emitter!Front(s) = Front(s) /\ emitter!Last(s) = s[Len(s)]
<1>1. Len(s) \in Nat \ {0} /\ DOMAIN s = 1..Len(s)
  OBVIOUS
<1>2. /\ Front(s) \in Seq(S)
      /\ Len(Front(s)) = Len(s) - 1
      /\ \A i \in 1..(Len(s) - 1) : Front(s)[i] = s[i]
  BY <1>1 DEF Front
<1> QED
  BY <1>1, <1>2 DEF emitter!Front, emitter!Last, Front

-----------------------------------------------------------------------------
(* One emission *)

\* The emission that calls listeners.
LEMMA TopRuns ==
  ASSUME EInv, stack # <<>>
  PROVE  /\ emitter!Top \in DOMAIN emissions
         /\ emissions[emitter!Top] \in Running({emissions[emitter!Top].event.type})
         /\ emissions[emitter!Top].outcome = "calling"
         /\ Called(emissions[emitter!Top]) /\ Due(emissions[emitter!Top])
<1>1. emitter!Top = stack[Len(stack)] /\ Len(stack) \in DOMAIN stack
  BY Fronts DEF EInv, StackInv, emitter!Top, emitter!Last
<1>2. emitter!Top \in DOMAIN emissions /\ emissions[emitter!Top].outcome = "calling"
  BY <1>1 DEF EInv, StackInv
<1>3. emissions[emitter!Top] \notin Settled
  BY <1>2 DEF Settled, emitter!Resolved, emitter!Rejected
<1> QED
  BY <1>2, <1>3 DEF EInv, EmissionsInv, Kind

\* What is to be shown when emission k becomes e.
LEMMA OneEmission ==
  ASSUME EInv, NEW k \in DOMAIN emissions, NEW e,
         emissions' = [emissions EXCEPT ![k] = e], UNCHANGED sets,
         Kind(e), e \notin Settled => Called(e) /\ Due(e)
  PROVE  /\ EmissionsInv'
         /\ DOMAIN emissions' = DOMAIN emissions
         /\ \A i \in DOMAIN emissions : emissions'[i] = IF i = k THEN e ELSE emissions[i]
<1>1. PICK S : emissions \in Seq(S)
  BY DEF EInv, EmissionsInv
<1>2. /\ emissions' \in Seq(S \cup {e})
      /\ DOMAIN emissions' = DOMAIN emissions
      /\ \A i \in DOMAIN emissions : emissions'[i] = IF i = k THEN e ELSE emissions[i]
  BY <1>1, Sequences
<1>3. ASSUME NEW i \in DOMAIN emissions'
      PROVE  (/\ Kind(emissions[i])
              /\ emissions[i] \notin Settled => Called(emissions[i]) /\ Due(emissions[i]))'
  <2>1. CASE i = k
    BY <1>2, <2>1 DEF Called, Due, Kind, emitter!Current
  <2>2. CASE i # k
    <3>1. emissions'[i] = emissions[i] /\ i \in DOMAIN emissions
      BY <1>2, <2>2
    <3>2. /\ Kind(emissions[i])
          /\ emissions[i] \notin Settled => Called(emissions[i]) /\ Due(emissions[i])
      BY <3>1 DEF EInv, EmissionsInv
    <3>3. Kind(emissions[i])'
      BY <3>1, <3>2 DEF Kind
    <3>4. Called(emissions[i]) => Called(emissions[i])'
      BY <3>1 DEF Called, emitter!Current
    <3>5. Due(emissions[i]) => Due(emissions[i])'
      BY <3>1 DEF Due, emitter!Current
    <3> QED
      BY <3>1, <3>2, <3>3, <3>4, <3>5
  <2> QED
    BY <2>1, <2>2
<1> QED
  BY <1>2, <1>3 DEF EmissionsInv

\* A step of the emission on top that leaves it calling, inside or between
\* listeners.
LEMMA TopGoesOn ==
  ASSUME EInv, stack # <<>>, NEW e,
         emissions' = [emissions EXCEPT ![emitter!Top] = e],
         UNCHANGED <<map, sets, stack>>,
         Kind(e), e \notin Settled, Called(e), Due(e), e.outcome = "calling"
  PROVE  EInv'
<1> DEFINE k == emitter!Top
<1>1. k \in DOMAIN emissions /\ emissions[k].outcome = "calling"
  BY TopRuns
<1>2. /\ EmissionsInv'
      /\ DOMAIN emissions' = DOMAIN emissions
      /\ \A i \in DOMAIN emissions : emissions'[i] = IF i = k THEN e ELSE emissions[i]
  BY <1>1, OneEmission
<1>4. StackInv'
  BY <1>1, <1>2 DEF EInv, StackInv
<1> QED
  BY <1>2, <1>4 DEF EInv, SetsInv, MapInv

\* A step that ends the loops of the emission on top.
LEMMA TopLeaves ==
  ASSUME EInv, stack # <<>>, NEW e,
         emissions' = [emissions EXCEPT ![emitter!Top] = e],
         stack' = Front(stack),
         UNCHANGED <<map, sets>>,
         Kind(e), e \notin Settled => Called(e) /\ Due(e),
         e.outcome # "calling"
  PROVE  EInv'
<1> DEFINE k == emitter!Top
<1>1. k \in DOMAIN emissions /\ emissions[k].outcome = "calling"
  BY TopRuns
<1>2. /\ EmissionsInv'
      /\ DOMAIN emissions' = DOMAIN emissions
      /\ \A i \in DOMAIN emissions : emissions'[i] = IF i = k THEN e ELSE emissions[i]
  BY <1>1, OneEmission
<1>4. /\ stack' \in Seq(Nat)
      /\ Len(stack) \in DOMAIN stack /\ k = stack[Len(stack)]
      /\ DOMAIN stack' = DOMAIN stack \ {Len(stack)}
      /\ \A p \in DOMAIN stack' : stack'[p] = stack[p] /\ p < Len(stack)
  BY Fronts DEF EInv, StackInv, emitter!Top, emitter!Last
<1>5. \A p \in DOMAIN stack' : stack[p] < k /\ k \in Nat /\ stack[p] \in Nat
  BY <1>4 DEF EInv, StackInv
<1>6. \A p \in DOMAIN stack' : stack'[p] # k
  BY <1>4, <1>5
<1>7. StackInv'
  <2>1. \A p \in DOMAIN stack' :
          stack'[p] \in DOMAIN emissions' /\ emissions'[stack'[p]].outcome = "calling"
    BY <1>2, <1>4, <1>6 DEF EInv, StackInv
  <2>2. \A p, q \in DOMAIN stack' : p < q => stack'[p] < stack'[q]
    BY <1>4 DEF EInv, StackInv
  <2>3. ASSUME NEW i \in DOMAIN emissions', emissions'[i].outcome = "calling"
        PROVE  \E p \in DOMAIN stack' : stack'[p] = i
    <3>1. i # k /\ i \in DOMAIN emissions /\ emissions[i].outcome = "calling"
      BY <1>2, <2>3
    <3>2. PICK p \in DOMAIN stack : stack[p] = i
      BY <3>1 DEF EInv, StackInv
    <3> QED
      BY <1>4, <3>1, <3>2
  <2> QED
    BY <1>4, <2>1, <2>2, <2>3 DEF StackInv
<1> QED
  BY <1>2, <1>7 DEF EInv, SetsInv, MapInv

-----------------------------------------------------------------------------
(* The steps of emit() *)

\* The places an emission has before it are live entries of a Set.
LEMMA AheadIsLive ==
  ASSUME EInv, NEW e, Called(e), e \in Running({e.event.type}), NEW i \in emitter!Ahead(e)
  PROVE  /\ emitter!Current(e) \in {e.typeListeners, e.allListeners} \ {0}
         /\ emitter!Current(e) \in DOMAIN sets
         /\ i \in DOMAIN sets[emitter!Current(e)] /\ i \in Nat /\ i > e.place
         /\ sets[emitter!Current(e)][i].live
<1> DEFINE c == emitter!Current(e)
<1>1. c \in {e.typeListeners, e.allListeners} /\ c \in Nat /\ c <= Len(sets)
  BY DEF Called, Running, emitter!Current
<1>2. c # 0
  BY DEF emitter!Ahead, emitter!Live, emitter!Entries
<1>3. c \in DOMAIN sets /\ sets[c] \in Seq([listener : Listeners, live : BOOLEAN])
  BY <1>1, <1>2 DEF EInv, SetsInv
<1>4. i \in DOMAIN sets[c] /\ sets[c][i].live /\ i > e.place
  BY <1>2 DEF emitter!Ahead, emitter!Live, emitter!Entries
<1> QED
  BY <1>1, <1>2, <1>3, <1>4

LEMMA CallListenerKeeps == EInv /\ emitter!CallListener => EInv'
<1> SUFFICES ASSUME EInv, emitter!CallListener PROVE EInv'
  OBVIOUS
<1> DEFINE e == emissions[emitter!Top]
           c == emitter!Current(e)
<1>1. stack # <<>> /\ UNCHANGED <<map, sets, stack>>
  BY DEF emitter!CallListener
<1>2. /\ e \in Running({e.event.type}) /\ e.outcome = "calling"
      /\ Called(e) /\ Due(e)
  BY <1>1, TopRuns
<1>3. PICK i \in emitter!Ahead(e) :
        /\ \A k \in emitter!Ahead(e) : i <= k
        /\ emissions' = [emissions EXCEPT ![emitter!Top] =
             [e EXCEPT !.place = i, !.inBody = TRUE, !.called = Append(@, <<c, i>>)]]
  BY DEF emitter!CallListener
<1> DEFINE f == [e EXCEPT !.place = i, !.inBody = TRUE, !.called = Append(@, <<c, i>>)]
<1>4. /\ c \in {e.typeListeners, e.allListeners} \ {0} /\ c \in DOMAIN sets /\ c \in Nat
      /\ i \in DOMAIN sets[c] /\ i \in Nat /\ i > e.place /\ sets[c][i].live
  BY <1>2, AheadIsLive DEF Running
<1>5. /\ f.event = e.event /\ f.typeListeners = e.typeListeners /\ f.allListeners = e.allListeners
      /\ f.loop = e.loop /\ f.place = i /\ f.promises = e.promises /\ f.outcome = "calling"
      /\ f.due = e.due /\ f.called = Append(e.called, <<c, i>>)
      /\ emitter!Current(f) = c
  BY <1>2 DEF Running, emitter!Current
<1>6. /\ e.called \in Seq(Places) /\ <<c, i>> \in Places
      /\ Append(e.called, <<c, i>>) \in Seq(Places)
      /\ Len(e.called) \in Nat /\ DOMAIN e.called = 1..Len(e.called)
      /\ DOMAIN f.called = DOMAIN e.called \cup {Len(e.called) + 1}
      /\ \A k \in DOMAIN e.called : f.called[k] = e.called[k]
      /\ f.called[Len(e.called) + 1] = <<c, i>>
  <2>1. e.called \in Seq(Places) /\ <<c, i>> \in Places
    BY <1>2, <1>4 DEF Running, Places
  <2>2. Places \cup {<<c, i>>} = Places
    BY <2>1
  <2>3. Len(e.called) \in Nat /\ DOMAIN e.called = 1..Len(e.called)
    BY <2>1
  <2> HIDE DEF f, c
  <2> QED
    BY <1>5, <2>1, <2>2, <2>3, Sequences, SMTT(30)
<1>7. f \in Running({f.event.type})
  BY <1>2, <1>4, <1>5, <1>6 DEF Running
<1>8. f \notin Settled
  BY <1>5 DEF Settled, emitter!Resolved, emitter!Rejected
<1>9. Called(f)
  <2>1. f.typeListeners <= Len(sets) /\ f.allListeners <= Len(sets)
          /\ (f.typeListeners = f.allListeners => f.typeListeners = 0)
    BY <1>2, <1>5 DEF Called
  <2>2. ASSUME NEW k \in DOMAIN f.called
        PROVE  /\ f.called[k][1] \in {f.typeListeners, f.allListeners} \ {0}
               /\ f.called[k][2] \in DOMAIN sets[f.called[k][1]]
               /\ f.called[k][1] = c => f.called[k][2] <= i
               /\ f.loop = "type" => f.called[k][1] = f.typeListeners
    <3>1. CASE k = Len(e.called) + 1
      BY <1>4, <1>5, <1>6, <3>1 DEF emitter!Current
    <3>2. CASE k \in DOMAIN e.called
      <4>1. f.called[k] = e.called[k] /\ e.called[k] \in Places /\ e.place \in Nat
        BY <1>2, <1>6, <3>2 DEF Running
      <4>2. /\ e.called[k][1] \in {e.typeListeners, e.allListeners} \ {0}
            /\ e.called[k][2] \in DOMAIN sets[e.called[k][1]]
            /\ e.called[k][1] = c => e.called[k][2] <= e.place
            /\ e.loop = "type" => e.called[k][1] = e.typeListeners
        BY <1>2, <3>2 DEF Called
      <4>3. e.called[k][2] \in Nat
        BY <4>1 DEF Places
      <4>4. e.called[k][2] <= e.place => e.called[k][2] <= i
        BY <1>4, <4>1, <4>3
      <4> HIDE DEF c, e, f
      <4> QED
        BY <1>5, <4>1, <4>2, <4>4
    <3> QED
      BY <1>6, <3>1, <3>2
  <2>3. ASSUME NEW j \in DOMAIN f.called, NEW k \in DOMAIN f.called,
               j < k, f.called[j][1] = f.called[k][1]
        PROVE  f.called[j][2] < f.called[k][2]
    <3>1. j \in DOMAIN e.called /\ f.called[j] = e.called[j]
      BY <1>6, <2>3
    <3>2. CASE k \in DOMAIN e.called
      BY <1>2, <1>6, <2>3, <3>1, <3>2 DEF Called
    <3>3. CASE k = Len(e.called) + 1
      <4>1. e.called[j] \in Places /\ e.place \in Nat /\ e.called[j][1] = c
        BY <1>2, <1>6, <2>3, <3>1, <3>3 DEF Running
      <4>2. e.called[j][2] <= e.place
        BY <1>2, <3>1, <4>1 DEF Called
      <4>3. e.called[j][2] \in Nat /\ e.called[j][2] < i
        BY <1>4, <4>1, <4>2 DEF Places
      <4>4. f.called[k][2] = i
        BY <1>6, <3>3
      <4> QED
        BY <3>1, <4>3, <4>4
    <3> QED
      BY <1>6, <3>2, <3>3
  <2>4. f.called # <<>>
    BY <1>6
  <2> QED
    BY <1>5, <2>1, <2>2, <2>3, <2>4 DEF Called
<1>10. Due(f)
  <2> SUFFICES ASSUME NEW d \in f.due
               PROVE  /\ d[1] \in {f.typeListeners, f.allListeners} \ {0}
                      /\ d[2] \in DOMAIN sets[d[1]]
                      /\ sets[d[1]][d[2]].live =>
                           \/ \E k \in DOMAIN f.called : f.called[k] = d
                           \/ f.outcome = "calling" /\ d[1] = c /\ d[2] > f.place
                           \/ f.outcome = "calling" /\ f.loop = "type" /\ d[1] = f.allListeners
    BY <1>5 DEF Due
  <2>1. d \in e.due /\ d \in Places
    BY <1>2, <1>5 DEF Running
  <2>2. d[1] \in {f.typeListeners, f.allListeners} \ {0} /\ d[2] \in DOMAIN sets[d[1]]
    BY <1>2, <1>5, <2>1 DEF Due
  <2>3. ASSUME sets[d[1]][d[2]].live
        PROVE  \/ \E k \in DOMAIN f.called : f.called[k] = d
               \/ d[1] = c /\ d[2] > i
               \/ f.loop = "type" /\ d[1] = f.allListeners
    <3>1. \/ \E k \in DOMAIN e.called : e.called[k] = d
          \/ d[1] = c /\ d[2] > e.place
          \/ e.loop = "type" /\ d[1] = e.allListeners
      BY <1>2, <2>1, <2>3 DEF Due
    <3>2. CASE d[1] = c /\ d[2] > e.place
      <4>1. d[2] \in emitter!Ahead(e)
        BY <1>4, <2>2, <2>3, <3>2 DEF emitter!Ahead, emitter!Live, emitter!Entries
      <4>2. i <= d[2] /\ d[2] \in Nat
        BY <1>3, <2>1, <4>1 DEF Places
      <4>3. d[2] = i => d = <<c, i>>
        BY <2>1, <3>2 DEF Places
      <4> QED
        BY <1>4, <1>6, <3>2, <4>2, <4>3
    <3> QED
      BY <1>5, <1>6, <3>1, <3>2
  <2> QED
    BY <1>5, <2>2, <2>3
<1> QED
  BY <1>1, <1>2, <1>3, <1>5, <1>7, <1>8, <1>9, <1>10, TopGoesOn DEF Kind

\* At the end of a loop whoever is due has been called, or is for the next loop.
LEMMA NothingAhead ==
  ASSUME EInv, NEW e, Due(e), emitter!Ahead(e) = {},
         NEW d \in e.due, sets[d[1]][d[2]].live
  PROVE  \/ \E i \in DOMAIN e.called : e.called[i] = d
         \/ e.loop = "type" /\ d[1] = e.allListeners
<1>1. d[1] # 0 /\ d[2] \in DOMAIN sets[d[1]]
  BY DEF Due
<1>2. ~(d[1] = emitter!Current(e) /\ d[2] > e.place)
  BY <1>1 DEF emitter!Ahead, emitter!Live, emitter!Entries
<1> QED
  BY <1>2 DEF Due

LEMMA NextLoopKeeps == EInv /\ emitter!NextLoop => EInv'
<1> SUFFICES ASSUME EInv, emitter!NextLoop PROVE EInv'
  OBVIOUS
<1> DEFINE e == emissions[emitter!Top]
           f == [e EXCEPT !.loop = "all", !.place = 0]
<1>1. /\ stack # <<>> /\ UNCHANGED <<map, sets, stack>>
      /\ e.loop = "type" /\ emitter!Ahead(e) = {}
  BY DEF emitter!NextLoop
<1>2. /\ emitter!Top \in DOMAIN emissions
      /\ e \in Running({e.event.type}) /\ e.outcome = "calling"
      /\ Called(e) /\ Due(e)
  BY <1>1, TopRuns
<1>3. emissions' = [emissions EXCEPT ![emitter!Top] = f]
  <2>1. PICK S : emissions \in Seq(S)
    BY DEF EInv, EmissionsInv
  <2>2. emissions' = [emissions EXCEPT ![emitter!Top].loop = "all", ![emitter!Top].place = 0]
    BY DEF emitter!NextLoop
  <2> QED
    BY <1>2, <2>1, <2>2
<1>4. /\ f.event = e.event /\ f.typeListeners = e.typeListeners /\ f.allListeners = e.allListeners
      /\ f.loop = "all" /\ f.place = 0 /\ f.called = e.called /\ f.inBody = e.inBody
      /\ f.promises = e.promises /\ f.outcome = "calling" /\ f.due = e.due
      /\ emitter!Current(f) = e.allListeners /\ emitter!Current(e) = e.typeListeners
  BY <1>1, <1>2 DEF Running, emitter!Current
<1>5. f \in Running({f.event.type}) /\ f \notin Settled
  BY <1>2, <1>4 DEF Running, Settled, emitter!Resolved, emitter!Rejected
<1>6. Called(f)
  <2>1. \A i \in DOMAIN e.called : e.called[i][1] # e.allListeners
    BY <1>1, <1>2 DEF Called
  <2> QED
    BY <1>2, <1>4, <2>1 DEF Called
<1>7. Due(f)
  <2> SUFFICES ASSUME NEW d \in e.due
               PROVE  /\ d[1] \in {e.typeListeners, e.allListeners} \ {0}
                      /\ d[2] \in DOMAIN sets[d[1]]
                      /\ sets[d[1]][d[2]].live =>
                           \/ \E i \in DOMAIN e.called : e.called[i] = d
                           \/ d[1] = e.allListeners /\ d[2] > 0
    BY <1>4 DEF Due
  <2>1. d[1] \in {e.typeListeners, e.allListeners} \ {0} /\ d[2] \in DOMAIN sets[d[1]]
    BY <1>2 DEF Due
  <2>2. d[1] \in DOMAIN sets
    BY <1>2, <2>1 DEF Called, Running, EInv, SetsInv
  <2>3. sets[d[1]] \in Seq([listener : Listeners, live : BOOLEAN])
    BY <2>2 DEF EInv, SetsInv
  <2>4. d[2] > 0
    BY <2>1, <2>3
  <2> QED
    BY <1>1, <1>2, <2>1, <2>4, NothingAhead
<1> QED
  BY <1>1, <1>3, <1>4, <1>5, <1>6, <1>7, TopGoesOn DEF Kind

LEMMA AwaitAllKeeps == EInv /\ emitter!AwaitAll => EInv'
<1> SUFFICES ASSUME EInv, emitter!AwaitAll PROVE EInv'
  OBVIOUS
<1> DEFINE e == emissions[emitter!Top]
           w == [e EXCEPT !.outcome = "waiting"]
           f == IF e.promises = {} THEN emitter!Resolved ELSE w
<1>1. /\ stack # <<>> /\ stack' = Front(stack) /\ UNCHANGED <<map, sets>>
      /\ e.loop = "all" /\ emitter!Ahead(e) = {}
  <2>1. stack \in Seq(Nat) /\ stack # <<>>
    BY DEF EInv, StackInv, emitter!AwaitAll
  <2> QED
    BY <2>1, Fronts DEF emitter!AwaitAll
<1>2. /\ emitter!Top \in DOMAIN emissions
      /\ e \in Running({e.event.type}) /\ Called(e) /\ Due(e)
  BY <1>1, TopRuns
<1>3. emissions' = [emissions EXCEPT ![emitter!Top] = f]
  BY <1>2 DEF emitter!AwaitAll
<1>4. /\ w.event = e.event /\ w.typeListeners = e.typeListeners /\ w.allListeners = e.allListeners
      /\ w.loop = e.loop /\ w.place = e.place /\ w.called = e.called /\ w.inBody = e.inBody
      /\ w.outcome = "waiting" /\ w.due = e.due
      /\ emitter!Current(w) = emitter!Current(e)
  BY <1>2 DEF Running, emitter!Current
<1>5. w \in Running({w.event.type})
  BY <1>2, <1>4 DEF Running
<1>6. Called(w)
  BY <1>2, <1>4 DEF Called
<1>7. Due(w)
  <2> SUFFICES ASSUME NEW d \in e.due
               PROVE  /\ d[1] \in {e.typeListeners, e.allListeners} \ {0}
                      /\ d[2] \in DOMAIN sets[d[1]]
                      /\ sets[d[1]][d[2]].live => \E i \in DOMAIN e.called : e.called[i] = d
    BY <1>4 DEF Due
  <2> QED
    BY <1>1, <1>2, NothingAhead DEF Due
<1>8. Kind(f) /\ (f \notin Settled => Called(f) /\ Due(f)) /\ f.outcome # "calling"
  <2>1. emitter!Resolved \in Settled /\ emitter!Resolved.outcome # "calling"
    BY DEF Settled, emitter!Resolved
  <2> HIDE DEF w
  <2> QED
    BY <1>4, <1>5, <1>6, <1>7, <2>1 DEF Kind
<1> QED
  BY <1>1, <1>3, <1>8, TopLeaves

-----------------------------------------------------------------------------
(* The steps of listeners *)

LEMMA ListenerReturnsKeeps == EInv /\ emitter!ListenerReturns => EInv'
<1> SUFFICES ASSUME EInv, emitter!ListenerReturns PROVE EInv'
  OBVIOUS
<1> DEFINE e == emissions[emitter!Top]
           f == [e EXCEPT !.inBody = FALSE]
<1>1. stack # <<>> /\ UNCHANGED <<map, sets, stack>>
  BY DEF emitter!ListenerReturns, emitter!InBody
<1>2. /\ emitter!Top \in DOMAIN emissions
      /\ e \in Running({e.event.type}) /\ e.outcome = "calling"
      /\ Called(e) /\ Due(e)
  BY <1>1, TopRuns
<1>3. emissions' = [emissions EXCEPT ![emitter!Top] = f]
  <2>1. PICK S : emissions \in Seq(S)
    BY DEF EInv, EmissionsInv
  <2> QED
    BY <1>2, <2>1 DEF emitter!ListenerReturns
<1>4. /\ f.event = e.event /\ f.typeListeners = e.typeListeners /\ f.allListeners = e.allListeners
      /\ f.loop = e.loop /\ f.place = e.place /\ f.called = e.called /\ ~f.inBody
      /\ f.outcome = "calling" /\ f.due = e.due
      /\ emitter!Current(f) = emitter!Current(e)
  BY <1>2 DEF Running, emitter!Current
<1>5. f \in Running({f.event.type}) /\ f \notin Settled
  BY <1>2, <1>4 DEF Running, Settled, emitter!Resolved, emitter!Rejected
<1>6. Called(f)
  BY <1>2, <1>4 DEF Called
<1>7. Due(f)
  BY <1>2, <1>4 DEF Due
<1> QED
  BY <1>1, <1>3, <1>4, <1>5, <1>6, <1>7, TopGoesOn DEF Kind

LEMMA ListenerAwaitsKeeps == EInv /\ emitter!ListenerAwaits => EInv'
<1> SUFFICES ASSUME EInv, emitter!ListenerAwaits PROVE EInv'
  OBVIOUS
<1> DEFINE e == emissions[emitter!Top]
           q == emitter!Last(e.called)
           f == [e EXCEPT !.inBody = FALSE, !.promises = @ \cup {q}]
<1>1. stack # <<>> /\ UNCHANGED <<map, sets, stack>>
  BY DEF emitter!ListenerAwaits, emitter!InBody
<1>2. /\ emitter!Top \in DOMAIN emissions
      /\ e \in Running({e.event.type}) /\ e.outcome = "calling"
      /\ Called(e) /\ Due(e)
  BY <1>1, TopRuns
<1>3. emissions' = [emissions EXCEPT ![emitter!Top] = f]
  <2>1. PICK S : emissions \in Seq(S)
    BY DEF EInv, EmissionsInv
  <2> QED
    BY <1>2, <2>1 DEF emitter!ListenerAwaits
<1>4. /\ f.event = e.event /\ f.typeListeners = e.typeListeners /\ f.allListeners = e.allListeners
      /\ f.loop = e.loop /\ f.place = e.place /\ f.called = e.called /\ ~f.inBody
      /\ f.outcome = "calling" /\ f.due = e.due /\ f.promises = e.promises \cup {q}
      /\ emitter!Current(f) = emitter!Current(e)
  BY <1>2 DEF Running, emitter!Current
<1>5. q \in Places
  <2>1. e.inBody
    BY DEF emitter!ListenerAwaits, emitter!InBody
  <2>2. e.called \in Seq(Places) /\ e.called # <<>>
    BY <1>2, <2>1 DEF Called, Running
  <2>3. Len(e.called) \in DOMAIN e.called /\ q = e.called[Len(e.called)]
    BY <2>2, Fronts
  <2> QED
    BY <2>2, <2>3
<1>6. f \in Running({f.event.type}) /\ f \notin Settled
  BY <1>2, <1>4, <1>5 DEF Running, Settled, emitter!Resolved, emitter!Rejected
<1>7. Called(f)
  BY <1>2, <1>4 DEF Called
<1>8. Due(f)
  BY <1>2, <1>4 DEF Due
<1> QED
  BY <1>1, <1>3, <1>4, <1>6, <1>7, <1>8, TopGoesOn DEF Kind

LEMMA ListenerThrowsKeeps == EInv /\ emitter!ListenerThrows => EInv'
<1> SUFFICES ASSUME EInv, emitter!ListenerThrows PROVE EInv'
  OBVIOUS
<1>1. stack # <<>> /\ stack' = Front(stack) /\ UNCHANGED <<map, sets>>
  <2>1. stack \in Seq(Nat) /\ stack # <<>>
    BY DEF EInv, StackInv, emitter!ListenerThrows, emitter!InBody
  <2> QED
    BY <2>1, Fronts DEF emitter!ListenerThrows
<1>2. /\ emitter!Rejected \in Settled /\ Kind(emitter!Rejected)
      /\ emitter!Rejected.outcome # "calling"
  BY DEF Settled, Kind, emitter!Rejected
<1>3. emissions' = [emissions EXCEPT ![emitter!Top] = emitter!Rejected]
  BY DEF emitter!ListenerThrows
<1> QED
  BY <1>1, <1>2, <1>3, TopLeaves

-----------------------------------------------------------------------------
(* Promises of listeners *)

LEMMA PromiseResolvesKeeps ==
  ASSUME EInv, NEW k \in DOMAIN emissions, emitter!PromiseResolves(k)
  PROVE  EInv'
<1> DEFINE e == emissions[k]
<1>1. /\ stack = <<>> /\ UNCHANGED <<map, sets, stack>>
      /\ e.outcome = "waiting"
  BY DEF emitter!PromiseResolves
<1>2. PICK p \in e.promises :
        emissions' = [emissions EXCEPT ![k] =
          IF e.promises = {p} THEN emitter!Resolved ELSE [e EXCEPT !.promises = @ \ {p}]]
  BY DEF emitter!PromiseResolves
<1> DEFINE w == [e EXCEPT !.promises = @ \ {p}]
           f == IF e.promises = {p} THEN emitter!Resolved ELSE w
<1>3. e \in Running({e.event.type}) /\ Called(e) /\ Due(e)
  <2>1. e \notin Settled
    BY <1>1 DEF Settled, emitter!Resolved, emitter!Rejected
  <2> QED
    BY <2>1 DEF EInv, EmissionsInv, Kind
<1>4. /\ w.event = e.event /\ w.typeListeners = e.typeListeners /\ w.allListeners = e.allListeners
      /\ w.loop = e.loop /\ w.place = e.place /\ w.called = e.called /\ w.inBody = e.inBody
      /\ w.outcome = "waiting" /\ w.due = e.due /\ w.promises = e.promises \ {p}
      /\ emitter!Current(w) = emitter!Current(e)
  BY <1>1, <1>3 DEF Running, emitter!Current
<1>5. w \in Running({w.event.type})
  BY <1>3, <1>4 DEF Running
<1>6. Called(w) /\ Due(w)
  BY <1>1, <1>3, <1>4 DEF Called, Due
<1>7. Kind(f) /\ (f \notin Settled => Called(f) /\ Due(f)) /\ f.outcome # "calling"
  <2>1. emitter!Resolved \in Settled /\ emitter!Resolved.outcome # "calling"
    BY DEF Settled, emitter!Resolved
  <2> HIDE DEF w
  <2> QED
    BY <1>4, <1>5, <1>6, <2>1 DEF Kind
<1> HIDE DEF f
<1>8. /\ EmissionsInv'
      /\ DOMAIN emissions' = DOMAIN emissions
      /\ \A i \in DOMAIN emissions : emissions'[i] = IF i = k THEN f ELSE emissions[i]
  BY <1>1, <1>2, <1>7, OneEmission DEF f
<1>10. StackInv'
  BY <1>1, <1>7, <1>8 DEF EInv, StackInv
<1> QED
  BY <1>1, <1>8, <1>10 DEF EInv, SetsInv, MapInv

LEMMA PromiseRejectsKeeps ==
  ASSUME EInv, NEW k \in DOMAIN emissions, emitter!PromiseRejects(k)
  PROVE  EInv'
<1>1. /\ stack = <<>> /\ UNCHANGED <<map, sets, stack>>
      /\ emissions[k].outcome = "waiting"
      /\ emissions' = [emissions EXCEPT ![k] = emitter!Rejected]
  BY DEF emitter!PromiseRejects
<1>2. /\ emitter!Rejected \in Settled /\ Kind(emitter!Rejected)
      /\ emitter!Rejected.outcome # "calling"
  BY DEF Settled, Kind, emitter!Rejected
<1>3. /\ EmissionsInv'
      /\ DOMAIN emissions' = DOMAIN emissions
      /\ \A i \in DOMAIN emissions :
           emissions'[i] = IF i = k THEN emitter!Rejected ELSE emissions[i]
  BY <1>1, <1>2, OneEmission
<1>5. StackInv'
  BY <1>1, <1>2, <1>3 DEF EInv, StackInv
<1> QED
  BY <1>1, <1>3, <1>5 DEF EInv, SetsInv, MapInv

-----------------------------------------------------------------------------
(* emit() *)

\* What a call of emit() adds to the emissions.
Begun(event, s, a) ==
  [event |-> event, typeListeners |-> s, allListeners |-> a,
   loop |-> "type", place |-> 0, inBody |-> FALSE,
   called |-> <<>>, promises |-> {}, outcome |-> "calling",
   due |-> {<<s, i>> : i \in emitter!Live(s)} \cup {<<a, i>> : i \in emitter!Live(a)}]

\* It has everyone before it whom it is to call.
LEMMA BegunIsDue ==
  ASSUME EInv, NEW event, event \in [type : {event.type}, call : Nat],
         NEW s \in 0..Len(sets), NEW a \in 0..Len(sets), s = a => s = 0
  PROVE  LET e == Begun(event, s, a)
         IN  /\ e \in Running({e.event.type})
             /\ Called(e) /\ Due(e)
<1> DEFINE e == Begun(event, s, a)
<1>1. ASSUME NEW t \in {s, a}, NEW i \in emitter!Live(t)
      PROVE  t # 0 /\ i \in DOMAIN sets[t] /\ i \in Nat \ {0} /\ <<t, i>> \in Places
  <2>1. t # 0 /\ i \in DOMAIN sets[t]
    BY <1>1 DEF emitter!Live, emitter!Entries
  <2>2. sets[t] \in Seq([listener : Listeners, live : BOOLEAN])
    BY <2>1 DEF EInv, SetsInv
  <2> QED
    BY <2>1, <2>2 DEF Places
<1>2. e.due \in SUBSET Places
  BY <1>1 DEF Begun
<1>3. e \in Running({e.event.type})
  BY <1>2 DEF Begun, Running
<1>4. Called(e)
  BY DEF Called, Begun
<1>5. Due(e)
  <2> SUFFICES ASSUME NEW t \in {s, a}, NEW i \in emitter!Live(t)
               PROVE  LET d == <<t, i>>
                      IN  /\ d[1] \in {s, a} \ {0}
                          /\ d[2] \in DOMAIN sets[d[1]]
                          /\ d[1] = s => d[1] = s /\ d[2] > 0
    BY DEF Due, Begun, emitter!Current
  <2>1. t # 0 /\ i \in DOMAIN sets[t] /\ i \in Nat \ {0}
    BY <1>1
  <2>2. i > 0
    BY <2>1
  <2> QED
    BY <2>1, <2>2
<1> QED
  BY <1>3, <1>4, <1>5

LEMMA EmitKeeps ==
  ASSUME EInv, EventRelayAssumption, NEW event, event \in [type : {event.type}, call : Nat],
         emitter!emit(event)
  PROVE  EInv'
<1> DEFINE s == IF event.type \in Types THEN map[event.type] ELSE 0
           a == map["*"]
           n == Len(emissions) + 1
           e == Begun(event, s, a)
<1>1. s \in 0..Len(sets) /\ a \in 0..Len(sets) /\ (s = a => s = 0)
  BY DEF EInv, MapInv, emitter!Keys, EventRelayAssumption
<1>2. /\ emissions' = Append(emissions, e) /\ stack' = Append(stack, n)
      /\ UNCHANGED <<map, sets>>
  BY DEF emitter!emit, Begun
<1>3. e \in Running({e.event.type}) /\ Called(e) /\ Due(e)
  BY <1>1, BegunIsDue
<1>4. e.outcome = "calling" /\ e \notin Settled
  BY DEF Begun, Settled, emitter!Resolved, emitter!Rejected
<1> HIDE DEF s, a, e
<1>5. PICK S : emissions \in Seq(S)
  BY DEF EInv, EmissionsInv
<1>6. /\ emissions' \in Seq(S \cup {e})
      /\ DOMAIN emissions' = DOMAIN emissions \cup {n} /\ n \notin DOMAIN emissions
      /\ \A i \in DOMAIN emissions : emissions'[i] = emissions[i]
      /\ emissions'[n] = e
      /\ DOMAIN emissions = 1..Len(emissions) /\ Len(emissions) \in Nat
  BY <1>2, <1>5, Sequences
<1>7. EmissionsInv'
  <2> SUFFICES ASSUME NEW i \in DOMAIN emissions'
               PROVE  (/\ Kind(emissions[i])
                       /\ emissions[i] \notin Settled => Called(emissions[i]) /\ Due(emissions[i]))'
    BY <1>6 DEF EmissionsInv
  <2>1. CASE i = n
    <3>1. emissions'[i] = e
      BY <1>6, <2>1
    <3>2. Kind(emissions[i])'
      BY <1>3, <3>1 DEF Kind
    <3>3. Called(emissions[i])'
      BY <1>2, <1>3, <3>1 DEF Called, emitter!Current
    <3>4. Due(emissions[i])'
      BY <1>2, <1>3, <3>1, ZenonT(30) DEF Due, emitter!Current
    <3> QED
      BY <3>2, <3>3, <3>4
  <2>2. CASE i \in DOMAIN emissions
    <3>1. emissions'[i] = emissions[i]
      BY <1>6, <2>2
    <3>2. /\ Kind(emissions[i])
          /\ emissions[i] \notin Settled => Called(emissions[i]) /\ Due(emissions[i])
      BY <2>2 DEF EInv, EmissionsInv
    <3>3. Kind(emissions[i])'
      BY <3>1, <3>2 DEF Kind
    <3>4. Called(emissions[i]) => Called(emissions[i])'
      BY <1>2, <3>1 DEF Called, emitter!Current
    <3>5. Due(emissions[i]) => Due(emissions[i])'
      BY <1>2, <3>1, ZenonT(30) DEF Due, emitter!Current
    <3> QED
      BY <3>1, <3>2, <3>3, <3>4, <3>5
  <2> QED
    BY <1>6, <2>1, <2>2
<1>8. /\ stack' \in Seq(Nat)
      /\ DOMAIN stack' = DOMAIN stack \cup {Len(stack) + 1} /\ Len(stack) + 1 \notin DOMAIN stack
      /\ \A p \in DOMAIN stack : stack'[p] = stack[p]
      /\ stack'[Len(stack) + 1] = n
      /\ DOMAIN stack = 1..Len(stack) /\ Len(stack) \in Nat
  <2>1. stack \in Seq(Nat) /\ Nat \cup {n} = Nat
    BY <1>6 DEF EInv, StackInv
  <2> QED
    BY <1>2, <2>1, Sequences
<1>9. StackInv'
  <2>1. \A p \in DOMAIN stack' :
          stack'[p] \in DOMAIN emissions' /\ emissions'[stack'[p]].outcome = "calling"
    BY <1>4, <1>6, <1>8, SMTT(30) DEF EInv, StackInv
  <2>2. \A p, q \in DOMAIN stack' : p < q => stack'[p] < stack'[q]
    <3> SUFFICES ASSUME NEW p \in DOMAIN stack', NEW q \in DOMAIN stack', p < q
                 PROVE  stack'[p] < stack'[q]
      OBVIOUS
    <3>1. p \in DOMAIN stack /\ stack'[p] = stack[p] /\ stack[p] \in 1..Len(emissions)
      BY <1>6, <1>8 DEF EInv, StackInv
    <3>2. CASE q \in DOMAIN stack
      BY <1>8, <3>1, <3>2 DEF EInv, StackInv
    <3>3. CASE q = Len(stack) + 1
      BY <1>6, <1>8, <3>1, <3>3
    <3> QED
      BY <1>8, <3>2, <3>3
  <2>3. \A i \in DOMAIN emissions' :
          emissions'[i].outcome = "calling" => \E p \in DOMAIN stack' : stack'[p] = i
    BY <1>6, <1>8 DEF EInv, StackInv
  <2> QED
    BY <1>8, <2>1, <2>2, <2>3 DEF StackInv
<1> QED
  BY <1>2, <1>7, <1>9 DEF EInv, SetsInv, MapInv

-----------------------------------------------------------------------------
(* on(), off() and removeAllListeners() *)

Entry == [listener : Listeners, live : BOOLEAN]

\* A listener's last entry is the only one that may be live.
LastLives(entries) ==
  \A p, q \in DOMAIN entries :
    p < q /\ entries[p].listener = entries[q].listener => ~entries[p].live

\* An emission under way is indifferent to new entries and to entries that die.
LEMMA GrownSets ==
  ASSUME EInv, UNCHANGED <<emissions, stack>>,
         sets' \in Seq(Seq(Entry)), Len(sets) <= Len(sets'),
         \A s \in DOMAIN sets' : LastLives(sets'[s]),
         \A s \in DOMAIN sets :
           /\ DOMAIN sets[s] \subseteq DOMAIN sets'[s]
           /\ \A i \in DOMAIN sets[s] : sets'[s][i].live => sets[s][i].live,
         MapInv'
  PROVE  EInv'
<1>1. SetsInv'
  BY DEF SetsInv, LastLives, Entry
<1>2. StackInv'
  BY DEF EInv, StackInv
<1>3. Len(sets) \in Nat /\ Len(sets') \in Nat /\ DOMAIN sets = 1..Len(sets)
  BY DEF EInv, SetsInv
<1>4. ASSUME NEW k \in DOMAIN emissions, emissions[k] \notin Settled
      PROVE  (Called(emissions[k]) /\ Due(emissions[k]))'
  <2> DEFINE e == emissions[k]
  <2>1. e \in Running({e.event.type}) /\ Called(e) /\ Due(e)
    BY <1>4 DEF EInv, EmissionsInv, Kind
  <2>2. emissions'[k] = e /\ e.typeListeners \in Nat /\ e.allListeners \in Nat
    BY <2>1 DEF Running
  <2>3. \A s \in {e.typeListeners, e.allListeners} \ {0} : s \in DOMAIN sets
    BY <1>3, <2>1, <2>2 DEF Called
  <2>4. Called(emissions[k])'
    <3>1. e.typeListeners <= Len(sets') /\ e.allListeners <= Len(sets')
      BY <1>3, <2>1, <2>2 DEF Called
    <3>2. \A i \in DOMAIN e.called : e.called[i][2] \in DOMAIN sets'[e.called[i][1]]
      BY <2>1, <2>3 DEF Called
    <3> QED
      BY <2>1, <2>2, <3>1, <3>2 DEF Called, emitter!Current
  <2>5. Due(emissions[k])'
    <3>1. \A d \in e.due :
            /\ d[2] \in DOMAIN sets'[d[1]]
            /\ sets'[d[1]][d[2]].live => sets[d[1]][d[2]].live
      BY <2>1, <2>3 DEF Due
    <3> QED
      BY <2>1, <2>2, <3>1 DEF Due, emitter!Current
  <2> QED
    BY <2>4, <2>5
<1>5. EmissionsInv'
  BY <1>4 DEF EInv, EmissionsInv, Kind
<1> QED
  BY <1>1, <1>2, <1>5 DEF EInv

LEMMA SetsAreEntries ==
  ASSUME EInv
  PROVE  /\ sets \in Seq(Seq(Entry)) /\ Len(sets) \in Nat /\ DOMAIN sets = 1..Len(sets)
         /\ \A s \in DOMAIN sets : sets[s] \in Seq(Entry) /\ LastLives(sets[s])
<1>1. sets \in Seq(Seq(Entry))
  BY DEF EInv, SetsInv, Entry
<1>2. \A s \in DOMAIN sets : LastLives(sets[s])
  BY DEF EInv, SetsInv, LastLives
<1> QED
  BY <1>1, <1>2

\* Set.add().
LEMMA AddEntry ==
  ASSUME NEW entries \in Seq(Entry), LastLives(entries), NEW l \in Listeners
  PROVE  /\ emitter!Add(entries, l) \in Seq(Entry)
         /\ LastLives(emitter!Add(entries, l))
         /\ DOMAIN entries \subseteq DOMAIN emitter!Add(entries, l)
         /\ \A i \in DOMAIN entries : emitter!Add(entries, l)[i] = entries[i]
<1> DEFINE x == [listener |-> l, live |-> TRUE]
           n == Len(entries) + 1
           r == Append(entries, x)
<1>1. CASE \E i \in DOMAIN entries : entries[i] = x
  BY <1>1 DEF emitter!Add
<1>2. CASE ~\E i \in DOMAIN entries : entries[i] = x
  <2>1. emitter!Add(entries, l) = r
    BY <1>2 DEF emitter!Add
  <2>2. x \in Entry /\ Entry \cup {x} = Entry
    <3>1. x \in Entry
      BY DEF Entry
    <3> QED
      BY <3>1
  <2>3. /\ r \in Seq(Entry) /\ DOMAIN r = DOMAIN entries \cup {n}
        /\ \A i \in DOMAIN entries : r[i] = entries[i] /\ i < n
        /\ r[n] = x
    BY <2>2, Sequences
  <2>4. ASSUME NEW p \in DOMAIN r, NEW q \in DOMAIN r, p < q, r[p].listener = r[q].listener
        PROVE  ~r[p].live
    <3>1. p \in DOMAIN entries /\ r[p] = entries[p]
      <4>1. DOMAIN r = 1..n /\ n \in Nat
        OBVIOUS
      <4> QED
        BY <2>3, <2>4, <4>1
    <3>2. CASE q \in DOMAIN entries
      BY <2>3, <2>4, <3>1, <3>2 DEF LastLives
    <3>3. CASE q = n
      <4>1. entries[p].listener = l /\ entries[p] \in Entry /\ entries[p] # x
        BY <1>2, <2>3, <2>4, <3>1, <3>3
      <4> QED
        BY <3>1, <4>1 DEF Entry
    <3> QED
      BY <2>3, <3>2, <3>3
  <2> QED
    BY <2>1, <2>3, <2>4 DEF LastLives
<1> QED
  BY <1>1, <1>2

LEMMA OnKeeps ==
  ASSUME EInv, NEW l \in Listeners, NEW t \in emitter!Keys, emitter!on(l, t)
  PROVE  EInv'
<1>1. /\ sets \in Seq(Seq(Entry)) /\ Len(sets) \in Nat /\ DOMAIN sets = 1..Len(sets)
      /\ \A s \in DOMAIN sets : sets[s] \in Seq(Entry) /\ LastLives(sets[s])
  BY SetsAreEntries
<1>2. map \in [emitter!Keys -> 0..Len(sets)] /\ UNCHANGED <<emissions, stack>>
  BY DEF EInv, MapInv, emitter!on
<1>3. CASE map[t] = 0
  <2> DEFINE x == emitter!Add(<<>>, l)
  <2>1. sets' = Append(sets, x) /\ map' = [map EXCEPT ![t] = Len(sets) + 1]
    BY <1>3 DEF emitter!on
  <2>2. x \in Seq(Entry) /\ LastLives(x)
    <3>1. <<>> \in Seq(Entry) /\ LastLives(<<>>)
      BY DEF LastLives
    <3> QED
      BY <3>1, AddEntry
  <2> HIDE DEF x
  <2>3. /\ sets' \in Seq(Seq(Entry)) /\ Len(sets') = Len(sets) + 1
        /\ DOMAIN sets' = DOMAIN sets \cup {Len(sets) + 1}
        /\ \A s \in DOMAIN sets : sets'[s] = sets[s]
        /\ sets'[Len(sets) + 1] = x
    <3>1. Seq(Entry) \cup {x} = Seq(Entry)
      BY <2>2
    <3> QED
      BY <1>1, <2>1, <3>1, Sequences
  <2>4. MapInv'
    <3>1. map' \in [emitter!Keys -> 0..Len(sets')]
      BY <1>1, <1>2, <2>1, <2>3
    <3>2. \A u, v \in emitter!Keys : map'[u] = map'[v] /\ map'[u] # 0 => u = v
      BY <1>1, <1>2, <2>1 DEF EInv, MapInv
    <3> QED
      BY <3>1, <3>2 DEF MapInv, emitter!Keys
  <2> QED
    BY <1>1, <1>2, <2>2, <2>3, <2>4, GrownSets
<1>4. CASE map[t] # 0
  <2> DEFINE s == map[t]
             x == emitter!Add(sets[s], l)
  <2>1. s \in DOMAIN sets /\ sets' = [sets EXCEPT ![s] = x] /\ map' = map
    BY <1>1, <1>2, <1>4 DEF emitter!on
  <2>2. /\ x \in Seq(Entry) /\ LastLives(x)
        /\ DOMAIN sets[s] \subseteq DOMAIN x
        /\ \A i \in DOMAIN sets[s] : x[i] = sets[s][i]
    BY <1>1, <2>1, AddEntry
  <2> HIDE DEF s, x
  <2>3. /\ sets' \in Seq(Seq(Entry)) /\ Len(sets') = Len(sets) /\ DOMAIN sets' = DOMAIN sets
        /\ \A r \in DOMAIN sets : sets'[r] = IF r = s THEN x ELSE sets[r]
    <3>1. Seq(Entry) \cup {x} = Seq(Entry)
      BY <2>2
    <3> QED
      BY <1>1, <2>1, <3>1, Sequences
  <2>4. MapInv'
    BY <1>2, <2>1, <2>3 DEF EInv, MapInv, emitter!Keys
  <2>5. /\ \A r \in DOMAIN sets' : LastLives(sets'[r])
        /\ \A r \in DOMAIN sets :
             /\ DOMAIN sets[r] \subseteq DOMAIN sets'[r]
             /\ \A i \in DOMAIN sets[r] : sets'[r][i].live => sets[r][i].live
    BY <1>1, <2>2, <2>3
  <2> QED
    BY <1>1, <1>2, <2>3, <2>4, <2>5, GrownSets
<1> QED
  BY <1>3, <1>4

LEMMA OffKeeps ==
  ASSUME EInv, NEW h, emitter!off(h)
  PROVE  EInv'
<1> DEFINE s == h[1]
           gone(r) == [r EXCEPT !.live = FALSE]
           x == [i \in DOMAIN sets[s] |->
                   IF sets[s][i].listener = h[2] THEN gone(sets[s][i]) ELSE sets[s][i]]
<1>1. /\ sets \in Seq(Seq(Entry)) /\ Len(sets) \in Nat /\ DOMAIN sets = 1..Len(sets)
      /\ \A k \in DOMAIN sets : sets[k] \in Seq(Entry) /\ LastLives(sets[k])
  BY SetsAreEntries
<1>2. sets' = [sets EXCEPT ![s] = x] /\ UNCHANGED <<map, emissions, stack>>
  BY DEF emitter!off
<1>3. CASE s \notin DOMAIN sets
  <2>1. sets' = sets
    BY <1>1, <1>2, <1>3
  <2>2. MapInv'
    BY <1>2, <2>1 DEF EInv, MapInv, emitter!Keys
  <2>3. /\ sets' \in Seq(Seq(Entry)) /\ Len(sets) <= Len(sets')
        /\ \A k \in DOMAIN sets' : LastLives(sets'[k])
        /\ \A k \in DOMAIN sets :
             /\ DOMAIN sets[k] \subseteq DOMAIN sets'[k]
             /\ \A i \in DOMAIN sets[k] : sets'[k][i].live => sets[k][i].live
    <3> HIDE DEF s, x
    <3> QED
      BY <1>1, <2>1
  <2> HIDE DEF s, x
  <2> QED
    BY <1>2, <2>2, <2>3, GrownSets
<1>4. CASE s \in DOMAIN sets
  <2>1. \A r \in Entry : gone(r) \in Entry /\ gone(r).listener = r.listener /\ ~gone(r).live
    BY DEF Entry
  <2> HIDE DEF gone
  <2>2. \A i \in DOMAIN sets[s] :
          /\ x[i] \in Entry /\ x[i].listener = sets[s][i].listener
          /\ x[i].live => sets[s][i].live
    BY <1>1, <1>4, <2>1
  <2>3. x \in Seq(Entry) /\ DOMAIN x = DOMAIN sets[s]
    <3>1. sets[s] \in Seq(Entry) /\ Len(sets[s]) \in Nat /\ DOMAIN sets[s] = 1..Len(sets[s])
      BY <1>1, <1>4
    <3>2. x \in [1..Len(sets[s]) -> Entry]
      BY <2>2, <3>1
    <3> QED
      BY <3>1, <3>2
  <2> HIDE DEF s, x
  <2>4. LastLives(x)
    BY <1>1, <1>4, <2>2, <2>3 DEF LastLives
  <2>5. /\ sets' \in Seq(Seq(Entry)) /\ Len(sets') = Len(sets) /\ DOMAIN sets' = DOMAIN sets
        /\ \A k \in DOMAIN sets : sets'[k] = IF k = s THEN x ELSE sets[k]
    <3>1. Seq(Entry) \cup {x} = Seq(Entry)
      BY <2>3
    <3> QED
      BY <1>1, <1>2, <1>4, <3>1, Sequences
  <2>6. MapInv'
    BY <1>2, <2>5 DEF EInv, MapInv, emitter!Keys
  <2> QED
    BY <1>1, <1>2, <2>2, <2>3, <2>4, <2>5, <2>6, GrownSets
<1> QED
  BY <1>3, <1>4

LEMMA RemoveAllKeeps == EInv /\ emitter!removeAllListeners => EInv'
<1> SUFFICES ASSUME EInv, emitter!removeAllListeners PROVE EInv'
  OBVIOUS
<1>1. UNCHANGED <<sets, emissions, stack>> /\ map' = [t \in emitter!Keys |-> 0]
  BY DEF emitter!removeAllListeners
<1>2. Len(sets) \in Nat
  BY DEF EInv, SetsInv
<1>3. MapInv'
  BY <1>1, <1>2 DEF MapInv, emitter!Keys
<1> QED
  BY <1>1, <1>2, <1>3, GrownSets DEF EInv, SetsInv, LastLives, Entry

-----------------------------------------------------------------------------
(* The program *)

\* A step that leaves the emitter alone.
LEMMA EmitterIdle ==
  ASSUME EInv, UNCHANGED <<map, sets, emissions, stack>>
  PROVE  EInv'
<1>1. SetsInv' /\ MapInv' /\ StackInv'
  BY DEF EInv, SetsInv, MapInv, StackInv, emitter!Keys
<1>2. ASSUME NEW k \in DOMAIN emissions
      PROVE  (/\ Kind(emissions[k])
              /\ emissions[k] \notin Settled => Called(emissions[k]) /\ Due(emissions[k]))'
  <2>1. Kind(emissions[k]) /\ (emissions[k] \notin Settled => Called(emissions[k]) /\ Due(emissions[k]))
    BY DEF EInv, EmissionsInv
  <2>2. Kind(emissions[k])'
    BY <2>1 DEF Kind
  <2>3. Called(emissions[k]) => Called(emissions[k])'
    BY DEF Called, emitter!Current
  <2>4. Due(emissions[k]) => Due(emissions[k])'
    BY DEF Due, emitter!Current
  <2> QED
    BY <2>1, <2>2, <2>3, <2>4
<1> QED
  BY <1>1, <1>2 DEF EInv, EmissionsInv

\* The emitter's part of a step.
LEMMA EmitterSteps ==
  ASSUME EInv, EventRelayAssumption, relayed \in Nat, Next
  PROVE  EInv'
<1>1. ASSUME Relay PROVE EInv'
  <2>1. PICK n \in Nat : n = relayed'
    BY <1>1 DEF Relay
  <2> DEFINE event == [type |-> Last(calls).type[1], call |-> n]
  <2>2. emitter!emit(event)
    BY <1>1, <2>1 DEF Relay
  <2>3. event \in [type : {event.type}, call : Nat]
    OBVIOUS
  <2> HIDE DEF event
  <2> QED
    BY <2>2, <2>3, EmitKeeps
<1>2. ASSUME UNCHANGED emitterVars PROVE EInv'
  <2>1. UNCHANGED <<map, sets, emissions, stack>>
    BY <1>2 DEF emitterVars
  <2> QED
    BY <2>1, EmitterIdle
<1>3. ASSUME ProgramStep PROVE EInv'
  <2>1. ASSUME NEW l \in Listeners, NEW t \in Types \cup {"*"}, emitter!on(l, t) PROVE EInv'
    BY <2>1, OnKeeps DEF emitter!Keys
  <2>2. ASSUME NEW h \in handles, emitter!off(h) PROVE EInv'
    BY <2>2, OffKeeps
  <2>3. ASSUME emitter!removeAllListeners PROVE EInv'
    BY <2>3, RemoveAllKeeps
  <2>4. ASSUME NEW t \in Types, emitter!emit([type |-> t, call |-> 0]) PROVE EInv'
    <3> DEFINE event == [type |-> t, call |-> 0]
    <3>1. event \in [type : {event.type}, call : Nat]
      OBVIOUS
    <3>2. emitter!emit(event)
      BY <2>4
    <3> HIDE DEF event
    <3> QED
      BY <3>1, <3>2, EmitKeeps
  <2> QED
    BY <1>3, <2>1, <2>2, <2>3, <2>4 DEF ProgramStep
<1>4. ASSUME EmitterStep PROVE EInv'
  BY <1>4, CallListenerKeeps, NextLoopKeeps, AwaitAllKeeps, ListenerReturnsKeeps,
     ListenerAwaitsKeeps, ListenerThrowsKeeps DEF EmitterStep, emitter!Loop, emitter!Body
<1>5. ASSUME Settles PROVE EInv'
  BY <1>5, PromiseResolvesKeeps, PromiseRejectsKeeps DEF Settles
<1> QED
  BY <1>1, <1>2, <1>3, <1>4, <1>5 DEF Next, HandlerEnds, StreamStep, Unsubscribe

\* The subscription's part of a step: nothing is read once it was ended.
LEMMA StreamSteps ==
  ASSUME AbortInv, Next
  PROVE  AbortInv' /\ (aborted => received' = received)
<1>1. ASSUME UNCHANGED streamVars
      PROVE  AbortInv' /\ (aborted => received' = received)
  BY <1>1 DEF AbortInv, streamVars
<1>2. ASSUME HandlerEnds
      PROVE  AbortInv' /\ (aborted => received' = received)
  BY <1>2 DEF AbortInv, HandlerEnds, stream!HandlerReturns, stream!HandlerThrows
<1>3. ASSUME StreamStep
      PROVE  AbortInv' /\ (aborted => received' = received)
  <2>1. ASSUME stream!Connect \/ stream!ConnectionEnds
        PROVE  AbortInv' /\ (aborted => received' = received)
    BY <2>1 DEF AbortInv, stream!Connect, stream!ConnectionEnds
  <2>2. ASSUME NEW n, stream!ChunkArrives(n)
        PROVE  AbortInv' /\ (aborted => received' = received)
    BY <2>2 DEF AbortInv, stream!ChunkArrives
  <2>3. ASSUME stream!readStream
        PROVE  AbortInv' /\ (aborted => received' = received)
    <3>1. UNCHANGED <<received, aborted>>
      BY <2>3 DEF stream!readStream, stream!SplitLines, stream!FieldLine,
                  stream!CallHandler, stream!EmptyEvent, stream!ReadMore
    <3>2. phase' \in {"lines", "handling"} \/ phase' = IF aborted THEN "closed" ELSE "reading"
      BY <2>3 DEF stream!readStream, stream!SplitLines, stream!FieldLine,
                  stream!CallHandler, stream!EmptyEvent, stream!ReadMore
    <3> QED
      BY <3>1, <3>2 DEF AbortInv
  <2> QED
    BY <1>3, <2>1, <2>2, <2>3 DEF StreamStep
<1>4. ASSUME Unsubscribe
      PROVE  AbortInv' /\ (aborted => received' = received)
  BY <1>4 DEF AbortInv, Unsubscribe, stream!unsubscribe
<1> QED
  BY <1>1, <1>2, <1>3, <1>4 DEF Next, Relay, ProgramStep, EmitterStep, Settles

LEMMA InitInv == Init => IInv
<1> SUFFICES ASSUME Init PROVE IInv
  OBVIOUS
<1>1. /\ map = [t \in emitter!Keys |-> 0] /\ sets = <<>> /\ emissions = <<>> /\ stack = <<>>
      /\ ~aborted /\ relayed = 0
  BY DEF Init, emitter!Init, stream!Init
<1>2. SetsInv /\ MapInv
  BY <1>1 DEF SetsInv, MapInv
<1>3. StackInv
  BY <1>1 DEF StackInv
<1>4. EmissionsInv
  <2>1. emissions \in Seq({}) /\ DOMAIN emissions = {}
    BY <1>1
  <2> QED
    BY <2>1 DEF EmissionsInv
<1> QED
  BY <1>1, <1>2, <1>3, <1>4 DEF IInv, EInv, AbortInv

LEMMA StepInv == EventRelayAssumption /\ IInv /\ [Next]_vars => IInv'
<1> SUFFICES ASSUME EventRelayAssumption, IInv, [Next]_vars PROVE IInv'
  OBVIOUS
<1>1. CASE Next
  <2>1. relayed' \in Nat
    BY <1>1 DEF IInv, Next, Relay, HandlerEnds, StreamStep, Unsubscribe, ProgramStep,
                EmitterStep, Settles
  <2> QED
    BY <1>1, <2>1, EmitterSteps, StreamSteps DEF IInv
<1>2. CASE UNCHANGED vars
  <2>1. UNCHANGED <<map, sets, emissions, stack, phase, aborted, relayed>>
    BY <1>2 DEF vars, emitterVars, streamVars
  <2> QED
    BY <2>1, EmitterIdle DEF IInv, AbortInv
<1> QED
  BY <1>1, <1>2

\* The invariant of the proofs: the Sets have at most one live entry of a
\* listener, the stack holds the emissions that call listeners, each inside the
\* one below it, and whoever is due to be called still lies ahead
\* (events.ts:104-184).
THEOREM Invariant == Spec => []IInv
<1>1. EventRelayAssumption
  BY EventRelayAssumption
<1> QED
  BY <1>1, InitInv, StepInv, PTL DEF Spec

\* A subscription that was ended reads nothing more (subscribe.ts:60-63).
THEOREM EndsReading == Spec => stream!StopsReading
<1>1. IInv /\ [Next]_vars => [aborted => received' = received]_stream!vars
  <2> SUFFICES ASSUME IInv, [Next]_vars PROVE [aborted => received' = received]_stream!vars
    OBVIOUS
  <2>1. CASE Next
    BY <2>1, StreamSteps DEF IInv
  <2>2. CASE UNCHANGED vars
    BY <2>2 DEF vars, streamVars, stream!vars, stream!parser
  <2> QED
    BY <2>1, <2>2
<1> QED
  BY <1>1, Invariant, PTL DEF Spec, stream!StopsReading

-----------------------------------------------------------------------------
(* Emissions that resolve *)

\* At the end of its loops an emission has called whom it had to, and no-one
\* twice.
LEMMA HeardAtEnd ==
  ASSUME EInv, NEW e, e \in Running({e.event.type}), Called(e), Due(e),
         e.outcome = "waiting" \/ (e.loop = "all" /\ emitter!Ahead(e) = {})
  PROVE  emitter!WasHeard(e)
<1>1. ASSUME NEW d \in e.due, sets[d[1]][d[2]].live
      PROVE  emitter!Contains(e.called, d)
  <2>1. PICK i \in DOMAIN e.called : e.called[i] = d
    BY <1>1, NothingAhead DEF Due
  <2>2. e.called \in Seq(Places)
    BY DEF Running
  <2> QED
    BY <2>1, <2>2 DEF emitter!Contains
<1> DEFINE entry(k) == sets[e.called[k][1]][e.called[k][2]]
<1>2. ASSUME NEW i \in DOMAIN e.called, NEW j \in DOMAIN e.called,
             i < j, e.called[i][1] = e.called[j][1], entry(i).listener = entry(j).listener
      PROVE  ~entry(i).live
  <2>1. /\ e.called[i][1] \in {e.typeListeners, e.allListeners} \ {0}
        /\ e.called[i][2] \in DOMAIN sets[e.called[i][1]]
        /\ e.called[j][2] \in DOMAIN sets[e.called[i][1]]
        /\ e.called[i][2] < e.called[j][2]
    BY <1>2 DEF Called
  <2>2. e.called[i][1] \in DOMAIN sets
    BY <2>1 DEF EInv, SetsInv, Called, Running
  <2> QED
    BY <1>2, <2>1, <2>2 DEF EInv, SetsInv
<1> HIDE DEF entry
<1>3. \A i, j \in DOMAIN e.called :
        i < j /\ e.called[i][1] = e.called[j][1] /\ entry(i).listener = entry(j).listener
          => ~entry(i).live
  BY <1>2
<1> QED
  BY <1>1, <1>3 DEF entry, emitter!WasHeard

\* What ResolvedMeansHeard says of a step.
HeardStep ==
  \A e \in DOMAIN emissions :
    emissions[e] # emitter!Resolved /\ emissions'[e] = emitter!Resolved =>
      /\ emitter!WasHeard(emissions[e])
      /\ \A p, q \in emissions[e].promises : p = q /\ emissions[e].outcome = "waiting"

\* A step that resolves no emission, or one that was heard.
LEMMA OneChanges ==
  ASSUME EInv, NEW k \in DOMAIN emissions, NEW f,
         emissions' = [emissions EXCEPT ![k] = f],
         f = emitter!Resolved =>
           /\ emitter!WasHeard(emissions[k])
           /\ \A p, q \in emissions[k].promises : p = q /\ emissions[k].outcome = "waiting"
  PROVE  HeardStep
<1>1. \A i \in DOMAIN emissions : emissions'[i] = IF i = k THEN f ELSE emissions[i]
  BY Sequences DEF EInv, EmissionsInv
<1> QED
  BY <1>1 DEF HeardStep

LEMMA LoopHeard == EInv /\ emitter!Loop => HeardStep
<1> SUFFICES ASSUME EInv, emitter!Loop PROVE HeardStep
  OBVIOUS
<1> DEFINE k == emitter!Top
           e == emissions[k]
<1>1. stack # <<>>
  BY DEF emitter!Loop, emitter!CallListener, emitter!NextLoop, emitter!AwaitAll
<1>2. /\ k \in DOMAIN emissions /\ e \in Running({e.event.type}) /\ e.outcome = "calling"
      /\ Called(e) /\ Due(e)
  BY <1>1, TopRuns
<1>3. CASE emitter!CallListener
  <2>1. PICK i : emissions' = [emissions EXCEPT ![k] =
                   [e EXCEPT !.place = i, !.inBody = TRUE,
                             !.called = Append(@, <<emitter!Current(e), i>>)]]
    BY <1>3 DEF emitter!CallListener
  <2> DEFINE f == [e EXCEPT !.place = i, !.inBody = TRUE,
                            !.called = Append(@, <<emitter!Current(e), i>>)]
  <2>2. f.outcome = "calling"
    BY <1>2 DEF Running
  <2>3. f # emitter!Resolved
    BY <2>2 DEF emitter!Resolved
  <2> HIDE DEF f
  <2> QED
    BY <1>2, <2>1, <2>3, OneChanges DEF f
<1>4. CASE emitter!NextLoop
  <2> DEFINE f == [e EXCEPT !.loop = "all", !.place = 0]
  <2>1. emissions' = [emissions EXCEPT ![k] = f]
    <3>1. PICK S : emissions \in Seq(S)
      BY DEF EInv, EmissionsInv
    <3>2. emissions' = [emissions EXCEPT ![k].loop = "all", ![k].place = 0]
      BY <1>4 DEF emitter!NextLoop
    <3> QED
      BY <1>2, <3>1, <3>2
  <2>2. f.outcome = "calling"
    BY <1>2 DEF Running
  <2>3. f # emitter!Resolved
    BY <2>2 DEF emitter!Resolved
  <2> HIDE DEF f
  <2> QED
    BY <1>2, <2>1, <2>3, OneChanges
<1>5. CASE emitter!AwaitAll
  <2> DEFINE f == IF e.promises = {} THEN emitter!Resolved ELSE [e EXCEPT !.outcome = "waiting"]
  <2>1. /\ emissions' = [emissions EXCEPT ![k] = f]
        /\ e.loop = "all" /\ emitter!Ahead(e) = {}
    BY <1>2, <1>5 DEF emitter!AwaitAll
  <2>2. emitter!WasHeard(e)
    BY <1>2, <2>1, HeardAtEnd
  <2>3. f = emitter!Resolved => e.promises = {}
    <3>1. [e EXCEPT !.outcome = "waiting"].outcome = "waiting"
      BY <1>2 DEF Running
    <3> QED
      BY <3>1 DEF emitter!Resolved
  <2> HIDE DEF f
  <2> QED
    BY <1>2, <2>1, <2>2, <2>3, OneChanges
<1> QED
  BY <1>3, <1>4, <1>5 DEF emitter!Loop

LEMMA BodyHeard == EInv /\ emitter!Body => HeardStep
<1> SUFFICES ASSUME EInv, emitter!Body PROVE HeardStep
  OBVIOUS
<1> DEFINE k == emitter!Top
           e == emissions[k]
<1>1. stack # <<>>
  BY DEF emitter!Body, emitter!InBody, emitter!ListenerReturns, emitter!ListenerAwaits,
         emitter!ListenerThrows
<1>2. k \in DOMAIN emissions /\ e \in Running({e.event.type}) /\ e.outcome = "calling"
  BY <1>1, TopRuns
<1>3. PICK S : emissions \in Seq(S)
  BY DEF EInv, EmissionsInv
<1>4. CASE emitter!ListenerReturns
  <2> DEFINE f == [e EXCEPT !.inBody = FALSE]
  <2>1. emissions' = [emissions EXCEPT ![k] = f]
    BY <1>2, <1>3, <1>4 DEF emitter!ListenerReturns
  <2>2. f.outcome = "calling"
    BY <1>2 DEF Running
  <2>3. f # emitter!Resolved
    BY <2>2 DEF emitter!Resolved
  <2> HIDE DEF f
  <2> QED
    BY <1>2, <2>1, <2>3, OneChanges
<1>5. CASE emitter!ListenerAwaits
  <2> DEFINE f == [e EXCEPT !.inBody = FALSE, !.promises = @ \cup {emitter!Last(e.called)}]
  <2>1. emissions' = [emissions EXCEPT ![k] = f]
    BY <1>2, <1>3, <1>5 DEF emitter!ListenerAwaits
  <2>2. f.outcome = "calling"
    BY <1>2 DEF Running
  <2>3. f # emitter!Resolved
    BY <2>2 DEF emitter!Resolved
  <2> HIDE DEF f
  <2> QED
    BY <1>2, <2>1, <2>3, OneChanges
<1>6. CASE emitter!ListenerThrows
  <2>1. emitter!Rejected # emitter!Resolved
    BY DEF emitter!Rejected, emitter!Resolved
  <2>2. emissions' = [emissions EXCEPT ![k] = emitter!Rejected]
    BY <1>6 DEF emitter!ListenerThrows
  <2> QED
    BY <1>2, <2>1, <2>2, OneChanges
<1> QED
  BY <1>4, <1>5, <1>6 DEF emitter!Body

LEMMA SettlesHeard ==
  ASSUME EInv, NEW k \in DOMAIN emissions, emitter!PromiseResolves(k) \/ emitter!PromiseRejects(k)
  PROVE  HeardStep
<1> DEFINE e == emissions[k]
<1>1. e.outcome = "waiting"
  BY DEF emitter!PromiseResolves, emitter!PromiseRejects
<1>2. e \in Running({e.event.type}) /\ Called(e) /\ Due(e)
  <2>1. e \notin Settled
    BY <1>1 DEF Settled, emitter!Resolved, emitter!Rejected
  <2> QED
    BY <2>1 DEF EInv, EmissionsInv, Kind
<1>3. CASE emitter!PromiseResolves(k)
  <2>1. PICK p \in e.promises :
          emissions' = [emissions EXCEPT ![k] =
            IF e.promises = {p} THEN emitter!Resolved ELSE [e EXCEPT !.promises = @ \ {p}]]
    BY <1>3 DEF emitter!PromiseResolves
  <2> DEFINE f == IF e.promises = {p} THEN emitter!Resolved ELSE [e EXCEPT !.promises = @ \ {p}]
  <2>2. f = emitter!Resolved => e.promises = {p}
    <3>1. [e EXCEPT !.promises = @ \ {p}].outcome = "waiting"
      BY <1>1, <1>2 DEF Running
    <3> QED
      BY <3>1 DEF emitter!Resolved
  <2>3. emitter!WasHeard(e)
    BY <1>1, <1>2, HeardAtEnd
  <2>4. f = emitter!Resolved => \A q, r \in e.promises : q = r /\ e.outcome = "waiting"
    BY <1>1, <2>2
  <2> HIDE DEF f
  <2> QED
    BY <2>1, <2>3, <2>4, OneChanges DEF f
<1>4. CASE emitter!PromiseRejects(k)
  <2>1. emissions' = [emissions EXCEPT ![k] = emitter!Rejected]
    BY <1>4 DEF emitter!PromiseRejects
  <2>2. emitter!Rejected # emitter!Resolved
    BY DEF emitter!Rejected, emitter!Resolved
  <2> QED
    BY <2>1, <2>2, OneChanges
<1> QED
  BY <1>3, <1>4

\* An emission that resolves was heard, once, by everyone who was listening
\* from its beginning and was not removed, and its listeners' promises have
\* been waited for, whatever the listeners did to the emitter meanwhile
\* (events.ts:166-184).
THEOREM HeardByAll == Spec => ResolvedMeansHeard
<1>1. IInv /\ [Next]_vars => [HeardStep]_emitter!vars
  <2> SUFFICES ASSUME IInv, [Next]_vars PROVE HeardStep \/ UNCHANGED emitter!vars
    OBVIOUS
  <2>1. ASSUME NEW event, emitter!emit(event) PROVE HeardStep
    <3>1. PICK S, x : emissions \in Seq(S) /\ emissions' = Append(emissions, x)
      BY <2>1 DEF IInv, EInv, EmissionsInv, emitter!emit
    <3>2. \A i \in DOMAIN emissions : emissions'[i] = emissions[i]
      BY <3>1, Sequences
    <3> QED
      BY <3>2 DEF HeardStep
  <2>2. ASSUME UNCHANGED emissions PROVE HeardStep
    BY <2>2 DEF HeardStep
  <2>3. CASE Relay
    <3>1. PICK event : emitter!emit(event)
      BY <2>3 DEF Relay
    <3> QED
      BY <2>1, <3>1
  <2>4. CASE ProgramStep
    BY <2>1, <2>2, <2>4 DEF ProgramStep, emitter!on, emitter!off, emitter!removeAllListeners
  <2>5. CASE EmitterStep
    BY <2>5, LoopHeard, BodyHeard DEF IInv, EmitterStep
  <2>6. CASE Settles
    BY <2>6, SettlesHeard DEF IInv, Settles
  <2>7. CASE HandlerEnds \/ StreamStep \/ Unsubscribe \/ UNCHANGED vars
    BY <2>7 DEF HandlerEnds, StreamStep, Unsubscribe, vars, emitterVars, emitter!vars
  <2> QED
    BY <2>3, <2>4, <2>5, <2>6, <2>7 DEF Next
<1> QED
  BY <1>1, Invariant, PTL DEF Spec, ResolvedMeansHeard, emitter!ResolvedMeansHeard, HeardStep

-----------------------------------------------------------------------------
(* Counting and recursion *)

\* Induction up to a number, on a set of numbers: without an operator as its
\* parameter, the prover can use it.
LEMMA CountInduction ==
  ASSUME NEW N \in Nat, NEW Good, 0 \in Good, \A n \in 1..N : n - 1 \in Good => n \in Good
  PROVE  0..N \subseteq Good
<1> DEFINE R   == OpToRel(<, Nat)
           Bad == (0..N) \ Good
<1>1. IsWellFoundedOn(R, Nat)
  BY NatLessThanWellFounded
<1>2. \A x, y \in Nat : y < x => <<y, x>> \in R
  BY DEF OpToRel
<1> HIDE DEF R
<1>3. ASSUME Bad # {} PROVE FALSE
  <2>1. Bad \subseteq Nat
    OBVIOUS
  <2> HIDE DEF Bad
  <2>2. PICK m \in Bad : \A y \in Bad : ~(<<y, m>> \in R)
    BY <1>1, <1>3, <2>1, WFMin
  <2> USE DEF Bad
  <2>3. m \in 1..N /\ m - 1 \in Nat /\ m - 1 < m /\ m \in Nat
    BY <2>1, <2>2
  <2>4. m - 1 \notin Bad
    BY <1>2, <2>2, <2>3
  <2> QED
    BY <2>2, <2>3, <2>4
<1> QED
  BY <1>3

\* The ways to get from one value to the next, and what they lead to from a
\* first value.
Ways(N, S) == [1..N -> [S -> S]]
IsComputed(f, N, S, a, G) ==
  f \in [0..N -> S] /\ f[0] = a /\ \A i \in 1..N : f[i] = G[i][f[i - 1]]

\* What each step computes from the one before, there is: the prover knows a
\* recursive function only as a choice of one with these values.
LEMMA Recursion ==
  ASSUME NEW N \in Nat, NEW S, NEW a \in S, NEW G \in Ways(N, S)
  PROVE  \E f : IsComputed(f, N, S, a, G)
<1> DEFINE Steps(f, n) == f[0] = a /\ \A i \in 1..n : f[i] = G[i][f[i - 1]]
           Good == {n \in 0..N : \E f \in [0..n -> S] : Steps(f, n)}
<1>1. 0 \in Good
  <2>1. [i \in 0..0 |-> a] \in [0..0 -> S] /\ Steps([i \in 0..0 |-> a], 0)
    OBVIOUS
  <2>2. 0 \in 0..N
    OBVIOUS
  <2> QED
    BY <2>1, <2>2
<1>2. ASSUME NEW n \in 1..N, n - 1 \in Good PROVE n \in Good
  <2>1. PICK f \in [0..(n - 1) -> S] : Steps(f, n - 1)
    BY <1>2
  <2> DEFINE h == [i \in 0..n |-> IF i = n THEN G[n][f[n - 1]] ELSE f[i]]
  <2>2. h \in [0..n -> S]
    <3>1. n - 1 \in 0..(n - 1) /\ \A i \in 0..n : i # n => i \in 0..(n - 1)
      OBVIOUS
    <3>2. G[n][f[n - 1]] \in S
      BY <2>1, <3>1 DEF Ways
    <3> QED
      BY <2>1, <3>1, <3>2
  <2>3. h[0] = a
    BY <2>1
  <2>4. ASSUME NEW i \in 1..n PROVE h[i] = G[i][h[i - 1]]
    <3>1. i - 1 \in 0..n /\ i \in 0..n /\ i - 1 # n
      OBVIOUS
    <3>2. h[i - 1] = f[i - 1]
      BY <3>1
    <3>3. CASE i = n
      BY <3>1, <3>2, <3>3
    <3>4. CASE i # n
      BY <2>1, <3>1, <3>2, <3>4
    <3> QED
      BY <3>3, <3>4
  <2> HIDE DEF h
  <2> QED
    BY <2>2, <2>3, <2>4
<1> HIDE DEF Good
<1>3. N \in Good
  BY <1>1, <1>2, CountInduction
<1> QED
  BY <1>3 DEF Good, IsComputed

\* A function whose values come each from the one before stays in a set.
LEMMA RecursionRange ==
  ASSUME NEW N \in Nat, NEW S, NEW f, f = [i \in 0..N |-> f[i]],
         f[0] \in S, \A i \in 1..N : f[i - 1] \in S => f[i] \in S
  PROVE  f \in [0..N -> S]
<1> DEFINE Good == {i \in 0..N : f[i] \in S}
<1>1. 0 \in Good /\ \A i \in 1..N : i - 1 \in Good => i \in Good
  <2>1. 0 \in 0..N /\ \A i \in 1..N : i \in 0..N
    OBVIOUS
  <2> QED
    BY <2>1
<1> HIDE DEF Good
<1>2. 0..N \subseteq Good
  BY <1>1, CountInduction
<1>3. \A i \in 0..N : f[i] \in S
  BY <1>2 DEF Good
<1> QED
  BY <1>3

-----------------------------------------------------------------------------
(* The text of the stream, its lines, and what is told of them *)

\* The tokens of the stream.
NL == stream!NL
Names == {"event:", "id:", "data:"}
Tokens == Values \cup Names \cup {NL}

\* The events of the stream.
SentEvents == [type : Seq(Values), id : Seq(Values), data : Seq(Values)]

\* What is assumed of the events of the stream.
LEMMA SentTyped ==
  /\ Sent \in Seq(SentEvents)
  /\ Len(Sent) \in Nat
  /\ \A i \in 1..Len(Sent) : i \in DOMAIN Sent /\ Sent[i] \in SentEvents
  /\ NL \notin Values /\ NL \notin Names
<1>1. Sent \in Seq(SentEvents) /\ NL \notin Values
  BY EventRelayAssumption DEF SentEvents, NL
<1>2. NL \notin Names
  BY DEF NL, Names, stream!NL
<1> QED
  BY <1>1, <1>2

\* Sequences made from others.
LEMMA SequenceTypes ==
  ASSUME NEW S, NEW s \in Seq(S)
  PROVE  /\ \A x \in S : Append(s, x) \in Seq(S)
         /\ \A x \in S : <<x>> \in Seq(S)
         /\ \A t \in Seq(S) : s \o t \in Seq(S)
         /\ \A i \in 1..Len(s) : s[i] \in S /\ i \in DOMAIN s
         /\ Len(s) \in Nat
OBVIOUS

\* What follows the last line end in the first tokens of a text: its recursion.
LEMMA OpenLineEquation ==
  ASSUME NEW text \in Seq(Tokens)
  PROVE  /\ stream!OpenLine(text) \in [0..Len(text) -> Seq(Tokens)]
         /\ stream!OpenLine(text)[0] = <<>>
         /\ \A i \in 1..Len(text) :
              stream!OpenLine(text)[i] =
                IF text[i] = NL THEN <<>> ELSE Append(stream!OpenLine(text)[i - 1], text[i])
<1> DEFINE N == Len(text)
           S == Seq(Tokens)
           a == <<>>
           G == [i \in 1..N |-> [x \in S |-> IF text[i] = NL THEN a ELSE Append(x, text[i])]]
           g == stream!OpenLine(text)
<1>1. N \in Nat /\ a \in S
  OBVIOUS
<1>2. \A i \in 1..N : text[i] \in Tokens /\ \A x \in S : Append(x, text[i]) \in S
  OBVIOUS
<1>3. G \in Ways(N, S)
  <2>1. \A i \in 1..N : [x \in S |-> IF text[i] = NL THEN a ELSE Append(x, text[i])] \in [S -> S]
    BY <1>1, <1>2
  <2> HIDE DEF N, S
  <2> QED
    BY <2>1, Zenon DEF Ways
<1> HIDE DEF N, S, a
<1>4. PICK f : IsComputed(f, N, S, a, G)
  <2> HIDE DEF G
  <2> QED
    BY <1>1, <1>3, Recursion
<1>5. ASSUME NEW i \in 0..N PROVE f[i] = IF i = 0 \/ text[i] = NL THEN a ELSE Append(f[i - 1], text[i])
  <2>1. i = 0 \/ (i \in 1..N /\ f[i - 1] \in S)
    BY <1>1, <1>4 DEF IsComputed
  <2> QED
    BY <1>4, <2>1 DEF IsComputed
<1>6. f = [i \in 0..N |-> IF i = 0 \/ text[i] = NL THEN a ELSE Append(f[i - 1], text[i])]
  BY <1>4, <1>5 DEF IsComputed
<1>7. g = [i \in 0..N |-> IF i = 0 \/ text[i] = NL THEN a ELSE Append(g[i - 1], text[i])]
  BY <1>6, Zenon DEF stream!OpenLine, N, NL, a
<1> HIDE DEF g
<1>8. \A i \in 0..N : g[i] = IF i = 0 \/ text[i] = NL THEN a ELSE Append(g[i - 1], text[i])
  BY <1>7
<1>9. g[0] = a /\ \A i \in 1..N : g[i] = IF text[i] = NL THEN a ELSE Append(g[i - 1], text[i])
  BY <1>1, <1>8
<1>10. g \in [0..N -> S]
  <2>1. g = [i \in 0..N |-> g[i]]
    BY <1>7
  <2>2. \A i \in 1..N : g[i - 1] \in S => g[i] \in S
    BY <1>1, <1>2, <1>9
  <2> QED
    BY <1>1, <1>9, <2>1, <2>2, RecursionRange
<1> QED
  BY <1>9, <1>10 DEF g, N, S, a

\* The lines before it.
LEMMA WholeLinesEquation ==
  ASSUME NEW text \in Seq(Tokens)
  PROVE  /\ stream!WholeLines(text) \in [0..Len(text) -> Seq(Seq(Tokens))]
         /\ stream!WholeLines(text)[0] = <<>>
         /\ \A i \in 1..Len(text) :
              stream!WholeLines(text)[i] =
                IF text[i] = NL THEN Append(stream!WholeLines(text)[i - 1], stream!OpenLine(text)[i - 1])
                ELSE stream!WholeLines(text)[i - 1]
<1> DEFINE N == Len(text)
           S == Seq(Seq(Tokens))
           a == <<>>
           F(i, x) == IF text[i] = NL THEN Append(x, stream!OpenLine(text)[i - 1]) ELSE x
           G == [i \in 1..N |-> [x \in S |-> F(i, x)]]
           g == stream!WholeLines(text)
<1>1. N \in Nat /\ a \in S
  OBVIOUS
<1>2. ASSUME NEW i \in 1..N, NEW x \in S PROVE F(i, x) \in S
  <2>1. stream!OpenLine(text)[i - 1] \in Seq(Tokens)
    BY <1>1, OpenLineEquation
  <2>2. Append(x, stream!OpenLine(text)[i - 1]) \in S
    BY <2>1, SequenceTypes
  <2> QED
    BY <2>2
<1>3. G \in Ways(N, S)
  <2>1. \A i \in 1..N : [x \in S |-> F(i, x)] \in [S -> S]
    BY <1>1, <1>2
  <2> HIDE DEF N, S
  <2> QED
    BY <2>1, Zenon DEF Ways
<1> HIDE DEF N, S, a
<1>4. PICK f : IsComputed(f, N, S, a, G)
  <2> HIDE DEF G
  <2> QED
    BY <1>1, <1>3, Recursion
<1>5. ASSUME NEW i \in 0..N PROVE f[i] = IF i = 0 THEN a ELSE F(i, f[i - 1])
  <2>1. i = 0 \/ (i \in 1..N /\ f[i - 1] \in S)
    BY <1>1, <1>4 DEF IsComputed
  <2> QED
    BY <1>4, <2>1 DEF IsComputed
<1>6. f = [i \in 0..N |-> IF i = 0 THEN a ELSE F(i, f[i - 1])]
  BY <1>4, <1>5 DEF IsComputed
<1>7. g = [i \in 0..N |-> IF i = 0 THEN a ELSE F(i, g[i - 1])]
  BY <1>6, Zenon DEF stream!WholeLines, N, NL, a
<1> HIDE DEF g
<1>8. g[0] = a /\ \A i \in 1..N : g[i] = F(i, g[i - 1])
  <2>1. \A i \in 0..N : g[i] = IF i = 0 THEN a ELSE F(i, g[i - 1])
    BY <1>7
  <2>2. 0 \in 0..N /\ \A i \in 1..N : i \in 0..N /\ i # 0
    BY <1>1
  <2> QED
    BY <2>1, <2>2, Zenon
<1>9. g \in [0..N -> S]
  <2>1. g = [i \in 0..N |-> g[i]]
    BY <1>7
  <2>2. ASSUME NEW i \in 1..N, g[i - 1] \in S PROVE g[i] \in S
    <3>1. g[i] = F(i, g[i - 1])
      BY <1>8
    <3> QED
      BY <1>2, <2>2, <3>1, Zenon
  <2> QED
    BY <1>1, <1>8, <2>1, <2>2, RecursionRange
<1> QED
  BY <1>8, <1>9 DEF g, N, S, a

\* The data lines of an event.
LEMMA DataLinesEquation ==
  ASSUME NEW e \in SentEvents
  PROVE  /\ stream!DataLines(e) \in [0..Len(e.data) -> Seq(Tokens)]
         /\ stream!DataLines(e)[0] = <<>>
         /\ \A i \in 1..Len(e.data) :
              stream!DataLines(e)[i] = stream!DataLines(e)[i - 1] \o <<"data:", e.data[i], NL>>
<1> DEFINE N == Len(e.data)
           S == Seq(Tokens)
           a == <<>>
           F(i, x) == x \o <<"data:", e.data[i], NL>>
           G == [i \in 1..N |-> [x \in S |-> F(i, x)]]
           g == stream!DataLines(e)
<1>1. N \in Nat /\ a \in S
  BY DEF SentEvents
<1>2. ASSUME NEW i \in 1..N, NEW x \in S PROVE F(i, x) \in S
  <2>1. e.data[i] \in Values
    BY DEF SentEvents
  <2>2. <<"data:", e.data[i], NL>> \in Seq(Tokens)
    BY <2>1 DEF Tokens, Names
  <2> QED
    BY <2>2
<1>3. G \in Ways(N, S)
  <2>1. \A i \in 1..N : [x \in S |-> F(i, x)] \in [S -> S]
    BY <1>1, <1>2
  <2> HIDE DEF N, S
  <2> QED
    BY <2>1, Zenon DEF Ways
<1> HIDE DEF N, S, a
<1>4. PICK f : IsComputed(f, N, S, a, G)
  <2> HIDE DEF G
  <2> QED
    BY <1>1, <1>3, Recursion
<1>5. ASSUME NEW i \in 0..N PROVE f[i] = IF i = 0 THEN a ELSE F(i, f[i - 1])
  <2>1. i = 0 \/ (i \in 1..N /\ f[i - 1] \in S)
    BY <1>1, <1>4 DEF IsComputed
  <2> QED
    BY <1>4, <2>1 DEF IsComputed
<1>6. f = [i \in 0..N |-> IF i = 0 THEN a ELSE F(i, f[i - 1])]
  BY <1>4, <1>5 DEF IsComputed
<1>7. g = [i \in 0..N |-> IF i = 0 THEN a ELSE F(i, g[i - 1])]
  BY <1>6, Zenon DEF stream!DataLines, N, NL, a
<1> HIDE DEF g
<1>8. g[0] = a /\ \A i \in 1..N : g[i] = F(i, g[i - 1])
  <2>1. \A i \in 0..N : g[i] = IF i = 0 THEN a ELSE F(i, g[i - 1])
    BY <1>7
  <2>2. 0 \in 0..N /\ \A i \in 1..N : i \in 0..N /\ i # 0
    BY <1>1
  <2> QED
    BY <2>1, <2>2, Zenon
<1>9. g \in [0..N -> S]
  <2>1. g = [i \in 0..N |-> g[i]]
    BY <1>7
  <2>2. ASSUME NEW i \in 1..N, g[i - 1] \in S PROVE g[i] \in S
    <3>1. g[i] = F(i, g[i - 1])
      BY <1>8
    <3> QED
      BY <1>2, <2>2, <3>1, Zenon
  <2> QED
    BY <1>1, <1>8, <2>1, <2>2, RecursionRange
<1> QED
  BY <1>8, <1>9 DEF g, N, S, a

\* Its data, as a subscriber is to be told of them.
LEMMA JoinedEquation ==
  ASSUME NEW e \in SentEvents
  PROVE  /\ stream!Joined(e) \in [0..Len(e.data) -> Seq(Tokens)]
         /\ stream!Joined(e)[0] = <<>>
         /\ \A i \in 1..Len(e.data) :
              stream!Joined(e)[i] =
                IF i = 1 THEN <<e.data[1]>>
                ELSE stream!Joined(e)[i - 1] \o <<NL, e.data[i]>>
<1> DEFINE N == Len(e.data)
           S == Seq(Tokens)
           a == <<>>
           F(i, x) == IF i = 1 THEN <<e.data[1]>> ELSE x \o <<NL, e.data[i]>>
           G == [i \in 1..N |-> [x \in S |-> F(i, x)]]
           g == stream!Joined(e)
<1>1. N \in Nat /\ a \in S
  BY DEF SentEvents
<1>2. ASSUME NEW i \in 1..N, NEW x \in S PROVE F(i, x) \in S
  <2>1. e.data[i] \in Values
    BY DEF SentEvents
  <2>2. <<e.data[i]>> \in Seq(Tokens) /\ <<NL, e.data[i]>> \in Seq(Tokens)
    BY <2>1 DEF Tokens
  <2>3. x \o <<NL, e.data[i]>> \in S
    BY <2>2, SequenceTypes
  <2> QED
    BY <2>2, <2>3
<1>3. G \in Ways(N, S)
  <2>1. \A i \in 1..N : [x \in S |-> F(i, x)] \in [S -> S]
    BY <1>1, <1>2
  <2> HIDE DEF N, S
  <2> QED
    BY <2>1, Zenon DEF Ways
<1> HIDE DEF N, S, a
<1>4. PICK f : IsComputed(f, N, S, a, G)
  <2> HIDE DEF G
  <2> QED
    BY <1>1, <1>3, Recursion
<1>5. ASSUME NEW i \in 0..N PROVE f[i] = IF i = 0 THEN a ELSE F(i, f[i - 1])
  <2>1. i = 0 \/ (i \in 1..N /\ f[i - 1] \in S)
    BY <1>1, <1>4 DEF IsComputed
  <2> QED
    BY <1>4, <2>1 DEF IsComputed
<1>6. f = [i \in 0..N |-> IF i = 0 THEN a ELSE F(i, f[i - 1])]
  BY <1>4, <1>5 DEF IsComputed
<1>7. g = [i \in 0..N |-> IF i = 0 THEN a ELSE F(i, g[i - 1])]
  BY <1>6, Zenon DEF stream!Joined, N, NL, a
<1> HIDE DEF g
<1>8. g[0] = a /\ \A i \in 1..N : g[i] = F(i, g[i - 1])
  <2>1. \A i \in 0..N : g[i] = IF i = 0 THEN a ELSE F(i, g[i - 1])
    BY <1>7
  <2>2. 0 \in 0..N /\ \A i \in 1..N : i \in 0..N /\ i # 0
    BY <1>1
  <2> QED
    BY <2>1, <2>2, Zenon
<1>9. g \in [0..N -> S]
  <2>1. g = [i \in 0..N |-> g[i]]
    BY <1>7
  <2>2. ASSUME NEW i \in 1..N, g[i - 1] \in S PROVE g[i] \in S
    <3>1. g[i] = F(i, g[i - 1])
      BY <1>8
    <3> QED
      BY <1>2, <2>2, <3>1, Zenon
  <2> QED
    BY <1>1, <1>8, <2>1, <2>2, RecursionRange
<1> QED
  BY <1>8, <1>9 DEF g, N, S, a

\* The text of an event.
LEMMA TextTokens ==
  ASSUME NEW e \in SentEvents
  PROVE  stream!Text(e) \in Seq(Tokens)
<1>1. stream!DataLines(e)[Len(e.data)] \in Seq(Tokens)
  <2>1. Len(e.data) \in 0..Len(e.data)
    BY DEF SentEvents
  <2> QED
    BY <2>1, DataLinesEquation
<1>2. stream!Field("event:", e.type) \in Seq(Tokens) /\ stream!Field("id:", e.id) \in Seq(Tokens)
  <2>1. ASSUME NEW name \in Names, NEW value \in Seq(Values)
        PROVE  stream!Field(name, value) \in Seq(Tokens)
    <3>1. <<name>> \in Seq(Tokens) /\ value \in Seq(Tokens) /\ <<NL>> \in Seq(Tokens)
      BY DEF Tokens
    <3> QED
      BY <3>1 DEF stream!Field, NL
  <2> QED
    BY <2>1 DEF Names, SentEvents
<1>3. <<NL>> \in Seq(Tokens)
  BY DEF Tokens
<1> QED
  BY <1>1, <1>2, <1>3 DEF stream!Text, NL

\* The stream of the first events.
LEMMA StreamEquation ==
  /\ stream!StreamOf \in [0..Len(Sent) -> Seq(Tokens)]
  /\ stream!StreamOf[0] = <<>>
  /\ \A i \in 1..Len(Sent) :
       stream!StreamOf[i] = stream!StreamOf[i - 1] \o stream!Text(Sent[i])
<1> DEFINE N == Len(Sent)
           S == Seq(Tokens)
           a == <<>>
           F(i, x) == x \o stream!Text(Sent[i])
           G == [i \in 1..N |-> [x \in S |-> F(i, x)]]
           g == stream!StreamOf
<1>1. N \in Nat /\ a \in S
  BY SentTyped
<1>2. ASSUME NEW i \in 1..N, NEW x \in S PROVE F(i, x) \in S
  <2>1. Sent[i] \in SentEvents
    BY SentTyped
  <2> QED
    BY <2>1, TextTokens, SequenceTypes
<1>3. G \in Ways(N, S)
  <2>1. \A i \in 1..N : [x \in S |-> F(i, x)] \in [S -> S]
    BY <1>1, <1>2
  <2> HIDE DEF N, S
  <2> QED
    BY <2>1, Zenon DEF Ways
<1> HIDE DEF N, S, a
<1>4. PICK f : IsComputed(f, N, S, a, G)
  <2> HIDE DEF G
  <2> QED
    BY <1>1, <1>3, Recursion
<1>5. ASSUME NEW i \in 0..N PROVE f[i] = IF i = 0 THEN a ELSE F(i, f[i - 1])
  <2>1. i = 0 \/ (i \in 1..N /\ f[i - 1] \in S)
    BY <1>1, <1>4 DEF IsComputed
  <2> QED
    BY <1>4, <2>1 DEF IsComputed
<1>6. f = [i \in 0..N |-> IF i = 0 THEN a ELSE F(i, f[i - 1])]
  BY <1>4, <1>5 DEF IsComputed
<1>7. g = [i \in 0..N |-> IF i = 0 THEN a ELSE F(i, g[i - 1])]
  BY <1>6, Zenon DEF stream!StreamOf, N, NL, a
<1> HIDE DEF g
<1>8. g[0] = a /\ \A i \in 1..N : g[i] = F(i, g[i - 1])
  <2>1. \A i \in 0..N : g[i] = IF i = 0 THEN a ELSE F(i, g[i - 1])
    BY <1>7
  <2>2. 0 \in 0..N /\ \A i \in 1..N : i \in 0..N /\ i # 0
    BY <1>1
  <2> QED
    BY <2>1, <2>2, Zenon
<1>9. g \in [0..N -> S]
  <2>1. g = [i \in 0..N |-> g[i]]
    BY <1>7
  <2>2. ASSUME NEW i \in 1..N, g[i - 1] \in S PROVE g[i] \in S
    <3>1. g[i] = F(i, g[i - 1])
      BY <1>8
    <3> QED
      BY <1>2, <2>2, <3>1, Zenon
  <2> QED
    BY <1>1, <1>8, <2>1, <2>2, RecursionRange
<1> QED
  BY <1>8, <1>9 DEF g, N, S, a

\* What is told of events.
ToldOf == {stream!SSEEvent(Sent[i]) : i \in DOMAIN Sent}

\* What is told of the first events.
LEMMA ToldEquation ==
  /\ stream!Told \in [0..Len(Sent) -> Seq(ToldOf)]
  /\ stream!Told[0] = <<>>
  /\ \A i \in 1..Len(Sent) :
       stream!Told[i] =
         IF Sent[i].data = <<>> THEN stream!Told[i - 1]
         ELSE Append(stream!Told[i - 1], stream!SSEEvent(Sent[i]))
<1> DEFINE N == Len(Sent)
           S == Seq(ToldOf)
           a == <<>>
           F(i, x) == IF Sent[i].data = <<>> THEN x ELSE Append(x, stream!SSEEvent(Sent[i]))
           G == [i \in 1..N |-> [x \in S |-> F(i, x)]]
           g == stream!Told
<1>1. N \in Nat /\ a \in S
  BY SentTyped
<1>2. ASSUME NEW i \in 1..N, NEW x \in S PROVE F(i, x) \in S
  <2>1. stream!SSEEvent(Sent[i]) \in ToldOf
    BY SentTyped DEF ToldOf
  <2>2. Append(x, stream!SSEEvent(Sent[i])) \in S
    BY <2>1, SequenceTypes
  <2> QED
    BY <2>2
<1>3. G \in Ways(N, S)
  <2>1. \A i \in 1..N : [x \in S |-> F(i, x)] \in [S -> S]
    BY <1>1, <1>2
  <2> HIDE DEF N, S
  <2> QED
    BY <2>1, Zenon DEF Ways
<1> HIDE DEF N, S, a
<1>4. PICK f : IsComputed(f, N, S, a, G)
  <2> HIDE DEF G
  <2> QED
    BY <1>1, <1>3, Recursion
<1>5. ASSUME NEW i \in 0..N PROVE f[i] = IF i = 0 THEN a ELSE F(i, f[i - 1])
  <2>1. i = 0 \/ (i \in 1..N /\ f[i - 1] \in S)
    BY <1>1, <1>4 DEF IsComputed
  <2> QED
    BY <1>4, <2>1 DEF IsComputed
<1>6. f = [i \in 0..N |-> IF i = 0 THEN a ELSE F(i, f[i - 1])]
  BY <1>4, <1>5 DEF IsComputed
<1>7. g = [i \in 0..N |-> IF i = 0 THEN a ELSE F(i, g[i - 1])]
  BY <1>6, Zenon DEF stream!Told, N, NL, a
<1> HIDE DEF g
<1>8. g[0] = a /\ \A i \in 1..N : g[i] = F(i, g[i - 1])
  <2>1. \A i \in 0..N : g[i] = IF i = 0 THEN a ELSE F(i, g[i - 1])
    BY <1>7
  <2>2. 0 \in 0..N /\ \A i \in 1..N : i \in 0..N /\ i # 0
    BY <1>1
  <2> QED
    BY <2>1, <2>2, Zenon
<1>9. g \in [0..N -> S]
  <2>1. g = [i \in 0..N |-> g[i]]
    BY <1>7
  <2>2. ASSUME NEW i \in 1..N, g[i - 1] \in S PROVE g[i] \in S
    <3>1. g[i] = F(i, g[i - 1])
      BY <1>8
    <3> QED
      BY <1>2, <2>2, <3>1, Zenon
  <2> QED
    BY <1>1, <1>8, <2>1, <2>2, RecursionRange
<1> QED
  BY <1>8, <1>9 DEF g, N, S, a

\* The calls of the handler that are not repeated ones.
LEMMA FirstCallsEquation ==
  ASSUME NEW C, NEW cs \in Seq(C)
  PROVE  /\ stream!FirstCalls(cs) \in [0..Len(cs) -> Seq(C)]
         /\ stream!FirstCalls(cs)[0] = <<>>
         /\ \A i \in 1..Len(cs) :
              stream!FirstCalls(cs)[i] =
                IF cs[i].again THEN stream!FirstCalls(cs)[i - 1]
                ELSE Append(stream!FirstCalls(cs)[i - 1], cs[i])
<1> DEFINE N == Len(cs)
           S == Seq(C)
           a == <<>>
           F(i, x) == IF cs[i].again THEN x ELSE Append(x, cs[i])
           G == [i \in 1..N |-> [x \in S |-> F(i, x)]]
           g == stream!FirstCalls(cs)
<1>1. N \in Nat /\ a \in S
  OBVIOUS
<1>2. ASSUME NEW i \in 1..N, NEW x \in S PROVE F(i, x) \in S
  <2>1. cs[i] \in C
    BY SequenceTypes
  <2>2. Append(x, cs[i]) \in S
    BY <2>1, SequenceTypes
  <2> QED
    BY <2>2
<1>3. G \in Ways(N, S)
  <2>1. \A i \in 1..N : [x \in S |-> F(i, x)] \in [S -> S]
    BY <1>1, <1>2
  <2> HIDE DEF N, S
  <2> QED
    BY <2>1, Zenon DEF Ways
<1> HIDE DEF N, S, a
<1>4. PICK f : IsComputed(f, N, S, a, G)
  <2> HIDE DEF G
  <2> QED
    BY <1>1, <1>3, Recursion
<1>5. ASSUME NEW i \in 0..N PROVE f[i] = IF i = 0 THEN a ELSE F(i, f[i - 1])
  <2>1. i = 0 \/ (i \in 1..N /\ f[i - 1] \in S)
    BY <1>1, <1>4 DEF IsComputed
  <2> QED
    BY <1>4, <2>1 DEF IsComputed
<1>6. f = [i \in 0..N |-> IF i = 0 THEN a ELSE F(i, f[i - 1])]
  BY <1>4, <1>5 DEF IsComputed
<1>7. g = [i \in 0..N |-> IF i = 0 THEN a ELSE F(i, g[i - 1])]
  BY <1>6, Zenon DEF stream!FirstCalls, N, NL, a
<1> HIDE DEF g
<1>8. g[0] = a /\ \A i \in 1..N : g[i] = F(i, g[i - 1])
  <2>1. \A i \in 0..N : g[i] = IF i = 0 THEN a ELSE F(i, g[i - 1])
    BY <1>7
  <2>2. 0 \in 0..N /\ \A i \in 1..N : i \in 0..N /\ i # 0
    BY <1>1
  <2> QED
    BY <2>1, <2>2, Zenon
<1>9. g \in [0..N -> S]
  <2>1. g = [i \in 0..N |-> g[i]]
    BY <1>7
  <2>2. ASSUME NEW i \in 1..N, g[i - 1] \in S PROVE g[i] \in S
    <3>1. g[i] = F(i, g[i - 1])
      BY <1>8
    <3> QED
      BY <1>2, <2>2, <3>1, Zenon
  <2> QED
    BY <1>1, <1>8, <2>1, <2>2, RecursionRange
<1> QED
  BY <1>8, <1>9 DEF g, N, S, a

\* The lines of an event before its empty one: the type, the id, the data.
\* The first two may be missing.
Line(e, s) ==
  IF s = 1 THEN IF e.type = <<>> THEN <<>> ELSE <<"event:">> \o e.type
  ELSE IF s = 2 THEN IF e.id = <<>> THEN <<>> ELSE <<"id:">> \o e.id
  ELSE <<"data:", e.data[s - 2]>>

\* How many tokens of the event come before its line s + 1.
Start(e, s) ==
  IF s = 0 THEN 0
  ELSE IF s = 1 THEN Len(stream!Field("event:", e.type))
  ELSE Len(stream!Field("event:", e.type)) + Len(stream!Field("id:", e.id)) + 3 * (s - 2)

\* One sequence after another.
LEMMA Concat ==
  ASSUME NEW S, NEW s \in Seq(S), NEW t \in Seq(S)
  PROVE  /\ s \o t \in Seq(S)
         /\ Len(s) \in Nat /\ Len(t) \in Nat
         /\ Len(s \o t) = Len(s) + Len(t)
         /\ \A i \in 1..Len(s) : (s \o t)[i] = s[i]
         /\ \A i \in 1..Len(t) : (s \o t)[Len(s) + i] = t[i]
<1>1. ASSUME NEW i \in 1..Len(t) PROVE (s \o t)[Len(s) + i] = t[i]
  <2>1. Len(s) + i \in 1..(Len(s) + Len(t)) /\ ~(Len(s) + i <= Len(s)) /\ Len(s) + i - Len(s) = i
    OBVIOUS
  <2> QED
    BY <2>1
<1> QED
  BY <1>1

\* The tokens of data lines.
LEMMA DataTokens ==
  ASSUME NEW e \in SentEvents, NEW n \in 0..Len(e.data)
  PROVE  /\ stream!DataLines(e)[n] \in Seq(Tokens)
         /\ Len(stream!DataLines(e)[n]) = 3 * n
         /\ \A m \in 1..n : /\ stream!DataLines(e)[n][3 * m - 2] = "data:"
                            /\ stream!DataLines(e)[n][3 * m - 1] = e.data[m]
                            /\ stream!DataLines(e)[n][3 * m] = NL
<1> DEFINE N == Len(e.data)
           D == stream!DataLines(e)
           Is(d, k) == /\ Len(d) = 3 * k
                       /\ \A m \in 1..k : d[3 * m - 2] = "data:" /\ d[3 * m - 1] = e.data[m] /\ d[3 * m] = NL
           Good == {k \in 0..N : Is(D[k], k)}
<1>1. N \in Nat
  BY DEF SentEvents
<1>2. /\ D \in [0..N -> Seq(Tokens)] /\ D[0] = <<>>
      /\ \A k \in 1..N : D[k] = D[k - 1] \o <<"data:", e.data[k], NL>>
  BY DataLinesEquation
<1> HIDE DEF D, N
<1>3. 0 \in Good
  BY <1>1, <1>2
<1>4. ASSUME NEW k \in 1..N, k - 1 \in Good PROVE k \in Good
  <2>1. /\ k \in Nat /\ k - 1 \in Nat /\ k - 1 \in 0..N /\ k \in 0..N
        /\ D[k - 1] \in Seq(Tokens) /\ Is(D[k - 1], k - 1)
    BY <1>1, <1>2, <1>4
  <2> DEFINE d == D[k - 1]  t == <<"data:", e.data[k], NL>>
  <2>2. d \in Seq(Tokens) /\ Len(d) = 3 * k - 3
    BY <2>1
  <2>3. e.data[k] \in Tokens
    BY DEF N, SentEvents, Tokens
  <2>4. t \in Seq(Tokens) /\ Len(t) = 3 /\ t[1] = "data:" /\ t[2] = e.data[k] /\ t[3] = NL
    BY <2>3 DEF Tokens, Names
  <2>5. Is(d, k - 1)
    BY <2>1
  <2> HIDE DEF d, t
  <2>6. /\ Len(d \o t) = 3 * k
        /\ \A i \in 1..(3 * k - 3) : (d \o t)[i] = d[i]
        /\ \A i \in 1..3 : (d \o t)[3 * k - 3 + i] = t[i]
    <3>1. Len(d \o t) = Len(d) + Len(t) /\ \A i \in 1..Len(d) : (d \o t)[i] = d[i]
      BY <2>2, <2>4, Concat, ZenonT(30)
    <3>2. ASSUME NEW i \in 1..Len(t) PROVE (d \o t)[Len(d) + i] = t[i]
      <4>1. d \in Seq(Tokens) /\ t \in Seq(Tokens)
        BY <2>2, <2>4
      <4> QED
        BY <4>1, Concat
    <3> QED
      BY <2>1, <2>2, <2>4, <3>1, <3>2
  <2>7. ASSUME NEW m \in 1..k
        PROVE  (d \o t)[3 * m - 2] = "data:" /\ (d \o t)[3 * m - 1] = e.data[m] /\ (d \o t)[3 * m] = NL
    <3>1. CASE m = k
      <4>1. 3 * m - 2 = 3 * k - 3 + 1 /\ 3 * m - 1 = 3 * k - 3 + 2 /\ 3 * m = 3 * k - 3 + 3
        BY <2>1, <3>1
      <4>2. 1 \in 1..3 /\ 2 \in 1..3 /\ 3 \in 1..3
        OBVIOUS
      <4>3. /\ (d \o t)[3 * k - 3 + 1] = t[1]
            /\ (d \o t)[3 * k - 3 + 2] = t[2]
            /\ (d \o t)[3 * k - 3 + 3] = t[3]
        BY <2>6, <4>2, Zenon
      <4> QED
        BY <2>4, <3>1, <4>1, <4>3
    <3>2. CASE m # k
      <4>1. m \in 1..(k - 1) /\ {3 * m - 2, 3 * m - 1, 3 * m} \subseteq 1..(3 * k - 3)
        BY <2>1, <3>2
      <4> QED
        BY <2>5, <2>6, <4>1
    <3> QED
      BY <3>1, <3>2
  <2>8. D[k] = d \o t
    BY <1>2 DEF d, t
  <2>9. Is(D[k], k)
    BY <2>6, <2>7, <2>8
  <2> QED
    BY <2>1, <2>9
<1> HIDE DEF Good
<1>5. n \in Good
  BY <1>1, <1>3, <1>4, CountInduction DEF N
<1> QED
  BY <1>2, <1>5 DEF Good, N, D

\* A field of an event is missing or a line of its own.
LEMMA FieldTokens ==
  ASSUME NEW name \in Names, NEW value \in Seq(Values), value # <<>>
  PROVE  /\ <<name>> \o value \in Seq(Tokens)
         /\ <<name>> \o value # <<>>
         /\ Head(<<name>> \o value) = name /\ Tail(<<name>> \o value) = value
         /\ \A i \in 1..Len(<<name>> \o value) : (<<name>> \o value)[i] # NL
         /\ Len(stream!Field(name, value)) = Len(<<name>> \o value) + 1
         /\ \A i \in 1..Len(<<name>> \o value) :
              stream!Field(name, value)[i] = (<<name>> \o value)[i]
         /\ stream!Field(name, value)[Len(<<name>> \o value) + 1] = NL
<1> DEFINE line == <<name>> \o value
<1>1. <<name>> \in Seq(Tokens) /\ value \in Seq(Tokens) /\ <<NL>> \in Seq(Tokens)
  BY DEF Tokens
<1>2. line \in Seq(Tokens) /\ Len(line) = Len(value) + 1 /\ line[1] = name
  BY <1>1
<1>3. ASSUME NEW i \in 1..Len(line) PROVE line[i] # NL
  <2>1. i = 1 \/ (i > 1 /\ i - 1 \in 1..Len(value) /\ line[i] = value[i - 1])
    BY <1>1, <1>2
  <2>2. name # NL /\ \A k \in 1..Len(value) : value[k] \in Values /\ value[k] # NL
    BY SentTyped
  <2> QED
    BY <1>2, <2>1, <2>2
<1>4. Tail(line) = value
  <2>1. Len(Tail(line)) = Len(value) /\ Tail(line) \in Seq(Tokens)
    BY <1>1, <1>2
  <2>2. ASSUME NEW i \in 1..Len(value) PROVE Tail(line)[i] = value[i]
    BY <1>1, <1>2
  <2> QED
    BY <1>1, <2>1, <2>2
<1>5. stream!Field(name, value) = line \o <<NL>>
  BY DEF stream!Field, NL
<1>6. line # <<>> /\ Head(line) = name
  BY <1>1, <1>2
<1> HIDE DEF line
<1>7. /\ Len(line \o <<NL>>) = Len(line) + 1
      /\ \A i \in 1..Len(line) : (line \o <<NL>>)[i] = line[i]
      /\ (line \o <<NL>>)[Len(line) + 1] = NL
  BY <1>1, <1>2
<1> QED
  BY <1>2, <1>3, <1>4, <1>5, <1>6, <1>7 DEF line

\* A line is missing, or one without NL that says what it is.
LEMMA LineTokens ==
  ASSUME NEW e \in SentEvents, NEW s \in 1..(Len(e.data) + 2)
  PROVE  /\ Line(e, s) \in Seq(Tokens)
         /\ \A i \in 1..Len(Line(e, s)) : Line(e, s)[i] # NL
         /\ Line(e, s) = <<>> => (s = 1 /\ e.type = <<>>) \/ (s = 2 /\ e.id = <<>>)
         /\ Line(e, s) # <<>> =>
              \/ s = 1 /\ Head(Line(e, s)) = "event:" /\ Tail(Line(e, s)) = e.type
              \/ s = 2 /\ Head(Line(e, s)) = "id:" /\ Tail(Line(e, s)) = e.id
              \/ s > 2 /\ Head(Line(e, s)) = "data:" /\ Tail(Line(e, s)) = <<e.data[s - 2]>>
<1>1. e.type \in Seq(Values) /\ e.id \in Seq(Values) /\ e.data \in Seq(Values)
  BY DEF SentEvents
<1>2. {"event:", "id:", "data:"} \subseteq Names /\ <<>> \in Seq(Tokens)
  BY DEF Names
<1>3. CASE s = 1
  <2>1. CASE e.type = <<>>
    BY <1>2, <1>3, <2>1 DEF Line
  <2>2. CASE e.type # <<>>
    BY <1>1, <1>2, <1>3, <2>2, FieldTokens DEF Line
  <2> QED
    BY <2>1, <2>2
<1>4. CASE s = 2
  <2>1. CASE e.id = <<>>
    BY <1>2, <1>4, <2>1 DEF Line
  <2>2. CASE e.id # <<>>
    BY <1>1, <1>2, <1>4, <2>2, FieldTokens, SMTT(30) DEF Line
  <2> QED
    BY <2>1, <2>2
<1>5. CASE s > 2
  <2>1. s - 2 \in 1..Len(e.data)
    BY <1>1, <1>5
  <2> DEFINE v == e.data[s - 2]
  <2>2. v \in Values /\ v # NL /\ "data:" # NL
    BY <1>1, <1>2, <2>1, SentTyped DEF Names
  <2> HIDE DEF v
  <2>3. <<"data:", v>> \in Seq(Tokens)
    BY <2>2 DEF Tokens, Names
  <2>4. Len(<<"data:", v>>) = 2 /\ <<"data:", v>>[1] = "data:" /\ <<"data:", v>>[2] = v
    OBVIOUS
  <2>5. Head(<<"data:", v>>) = "data:" /\ Tail(<<"data:", v>>) = <<v>> /\ <<"data:", v>> # <<>>
    OBVIOUS
  <2>6. \A i \in 1..Len(<<"data:", v>>) : <<"data:", v>>[i] # NL
    BY <2>2, <2>4
  <2>7. Line(e, s) = <<"data:", v>>
    BY <1>5 DEF Line, v
  <2> HIDE DEF Line
  <2> QED
    BY <1>5, <2>3, <2>5, <2>6, <2>7 DEF v
<1> QED
  BY <1>3, <1>4, <1>5

\* Where the parts of an event's text are.
LEMMA TextParts ==
  ASSUME NEW e \in SentEvents
  PROVE  LET a == stream!Field("event:", e.type)  b == stream!Field("id:", e.id)
             d == stream!DataLines(e)[Len(e.data)]  x == stream!Text(e)
         IN  /\ a \in Seq(Tokens) /\ b \in Seq(Tokens) /\ d \in Seq(Tokens) /\ x \in Seq(Tokens)
             /\ Len(x) = Len(a) + Len(b) + Len(d) + 1
             /\ \A i \in 1..Len(a) : x[i] = a[i]
             /\ \A i \in 1..Len(b) : x[Len(a) + i] = b[i]
             /\ \A i \in 1..Len(d) : x[Len(a) + Len(b) + i] = d[i]
             /\ x[Len(x)] = NL
<1> DEFINE a == stream!Field("event:", e.type)
           b == stream!Field("id:", e.id)
           d == stream!DataLines(e)[Len(e.data)]
           z == <<NL>>
<1>1. ASSUME NEW name \in Names, NEW value \in Seq(Values) PROVE stream!Field(name, value) \in Seq(Tokens)
  <2>1. <<name>> \in Seq(Tokens) /\ value \in Seq(Tokens) /\ <<NL>> \in Seq(Tokens)
    BY DEF Tokens
  <2> QED
    BY <2>1 DEF stream!Field, NL
<1>2. a \in Seq(Tokens) /\ b \in Seq(Tokens)
  BY <1>1 DEF Names, SentEvents
<1>3. d \in Seq(Tokens)
  <2>1. Len(e.data) \in 0..Len(e.data)
    BY DEF SentEvents
  <2> QED
    BY <2>1, DataTokens
<1>4. z \in Seq(Tokens) /\ Len(z) = 1 /\ z[1] = NL
  BY DEF Tokens
<1>5. stream!Text(e) = ((a \o b) \o d) \o z
  BY DEF stream!Text, NL
<1> HIDE DEF a, b, d, z
<1> DEFINE ab == a \o b
           abd == ab \o d
<1>6. /\ ab \in Seq(Tokens) /\ Len(ab) = Len(a) + Len(b)
      /\ Len(a) \in Nat /\ Len(b) \in Nat
      /\ \A i \in 1..Len(a) : ab[i] = a[i]
  BY <1>2, Concat
<1>7. ASSUME NEW i \in 1..Len(b) PROVE ab[Len(a) + i] = b[i]
  BY <1>2, Concat
<1> HIDE DEF ab
<1>8. /\ abd \in Seq(Tokens) /\ Len(abd) = Len(ab) + Len(d)
      /\ Len(d) \in Nat
      /\ \A i \in 1..Len(ab) : abd[i] = ab[i]
  BY <1>3, <1>6, Concat
<1>9. ASSUME NEW i \in 1..Len(d) PROVE abd[Len(ab) + i] = d[i]
  BY <1>3, <1>6, Concat
<1> HIDE DEF abd
<1> DEFINE x == abd \o z
<1>10. /\ x \in Seq(Tokens) /\ Len(x) = Len(abd) + 1
       /\ \A i \in 1..Len(abd) : x[i] = abd[i]
       /\ x[Len(abd) + 1] = NL
  <2>1. abd \in Seq(Tokens) /\ z \in Seq(Tokens)
    BY <1>4, <1>8
  <2>2. x \in Seq(Tokens) /\ Len(x) = Len(abd) + Len(z) /\ \A i \in 1..Len(abd) : x[i] = abd[i]
    BY <2>1, Concat
  <2>3. ASSUME NEW i \in 1..Len(z) PROVE x[Len(abd) + i] = z[i]
    BY <2>1, Concat
  <2>4. 1 \in 1..Len(z)
    BY <1>4
  <2> QED
    BY <1>4, <2>2, <2>3, <2>4
<1>12. stream!Text(e) = x
  BY <1>5 DEF ab, abd
<1> HIDE DEF x
<1>13. Len(x) = Len(a) + Len(b) + Len(d) + 1 /\ x[Len(x)] = NL
  BY <1>6, <1>8, <1>10
<1>14. ASSUME NEW i \in 1..Len(a) PROVE x[i] = a[i]
  <2>1. i \in 1..Len(ab) /\ i \in 1..Len(abd)
    BY <1>6, <1>8
  <2> QED
    BY <1>6, <1>8, <1>10, <2>1
<1>15. ASSUME NEW i \in 1..Len(b) PROVE x[Len(a) + i] = b[i]
  <2>1. Len(a) + i \in 1..Len(ab) /\ Len(a) + i \in 1..Len(abd)
    BY <1>6, <1>8
  <2> QED
    BY <1>7, <1>8, <1>10, <2>1
<1>16. ASSUME NEW i \in 1..Len(d) PROVE x[Len(a) + Len(b) + i] = d[i]
  <2>1. Len(ab) + i \in 1..Len(abd) /\ Len(ab) + i = Len(a) + Len(b) + i
    BY <1>6, <1>8
  <2> QED
    BY <1>9, <1>10, <2>1
<1> QED
  BY <1>2, <1>3, <1>10, <1>12, <1>13, <1>14, <1>15, <1>16 DEF a, b, d

\* Where its lines are.
LEMMA TextLines ==
  ASSUME NEW e \in SentEvents
  PROVE  LET n == Len(e.data) + 2  x == stream!Text(e)
         IN  /\ n \in Nat /\ \A s \in 0..n : Start(e, s) \in Nat /\ Start(e, s) <= Start(e, n)
             /\ x \in Seq(Tokens) /\ Len(x) = Start(e, n) + 1 /\ x[Len(x)] = NL
             /\ \A s \in 1..n : Line(e, s) = <<>> => Start(e, s) = Start(e, s - 1)
             /\ \A s \in 1..n : Line(e, s) # <<>> =>
                  /\ Start(e, s) = Start(e, s - 1) + Len(Line(e, s)) + 1
                  /\ \A i \in 1..Len(Line(e, s)) : x[Start(e, s - 1) + i] = Line(e, s)[i]
                  /\ x[Start(e, s)] = NL
<1> DEFINE a == stream!Field("event:", e.type)
           b == stream!Field("id:", e.id)
           d == stream!DataLines(e)[Len(e.data)]
           x == stream!Text(e)
           n == Len(e.data)
<1>1. /\ a \in Seq(Tokens) /\ b \in Seq(Tokens) /\ d \in Seq(Tokens) /\ x \in Seq(Tokens)
      /\ Len(x) = Len(a) + Len(b) + Len(d) + 1
      /\ \A i \in 1..Len(a) : x[i] = a[i]
      /\ \A i \in 1..Len(b) : x[Len(a) + i] = b[i]
      /\ \A i \in 1..Len(d) : x[Len(a) + Len(b) + i] = d[i]
      /\ x[Len(x)] = NL
  BY TextParts
<1>2. n \in Nat /\ e.type \in Seq(Values) /\ e.id \in Seq(Values) /\ e.data \in Seq(Values)
      /\ n \in 0..n
  BY DEF SentEvents
<1>3. /\ Len(d) = 3 * n
      /\ \A m \in 1..n : d[3 * m - 2] = "data:" /\ d[3 * m - 1] = e.data[m] /\ d[3 * m] = NL
  BY <1>2, DataTokens
<1>4. Len(a) \in Nat /\ Len(b) \in Nat /\ Len(d) \in Nat
  BY <1>1
<1>5. ASSUME NEW s \in 0..(n + 2)
      PROVE  Start(e, s) = IF s = 0 THEN 0 ELSE IF s = 1 THEN Len(a) ELSE Len(a) + Len(b) + 3 * (s - 2)
  BY DEF Start
<1> HIDE DEF a, b, d, x
<1>6. ASSUME NEW s \in 0..(n + 2)
      PROVE  Start(e, s) \in Nat /\ Start(e, s) <= Start(e, n + 2)
  <2>1. Start(e, n + 2) = Len(a) + Len(b) + 3 * ((n + 2) - 2)
    <3>1. n + 2 \in 0..(n + 2) /\ n + 2 # 0 /\ n + 2 # 1
      BY <1>2
    <3> QED
      BY <1>5, <3>1, Zenon
  <2> QED
    BY <1>2, <1>4, <1>5, <2>1
<1>7. Len(x) = Start(e, n + 2) + 1
  <2>1. n + 2 \in 0..(n + 2) /\ n + 2 # 0 /\ n + 2 # 1 /\ (n + 2) - 2 = n
    BY <1>2
  <2>2. Start(e, n + 2) = Len(a) + Len(b) + 3 * ((n + 2) - 2)
    BY <1>5, <2>1, Zenon
  <2>3. Start(e, n + 2) = Len(a) + Len(b) + 3 * n
    BY <2>1, <2>2
  <2>4. Len(x) = Len(a) + Len(b) + 3 * n + 1
    BY <1>1, <1>3
  <2> QED
    BY <2>3, <2>4
<1>8. /\ a = <<>> <=> e.type = <<>>
      /\ b = <<>> <=> e.id = <<>>
  <2>1. ASSUME NEW name \in Names, NEW value \in Seq(Values)
        PROVE  stream!Field(name, value) = <<>> <=> value = <<>>
    <3>1. CASE value = <<>>
      BY <3>1 DEF stream!Field
    <3>2. CASE value # <<>>
      <4>1. Len(<<name>> \o value) \in Nat
        BY <3>2, FieldTokens
      <4>2. Len(stream!Field(name, value)) = Len(<<name>> \o value) + 1
        BY <3>2, FieldTokens
      <4> QED
        BY <3>2, <4>1, <4>2
    <3> QED
      BY <3>1, <3>2
  <2> QED
    BY <1>2, <2>1 DEF Names, a, b
<1>9. ASSUME NEW s \in 1..(n + 2), Line(e, s) = <<>>
      PROVE  Start(e, s) = Start(e, s - 1)
  <2>1. (s = 1 /\ e.type = <<>>) \/ (s = 2 /\ e.id = <<>>)
    BY <1>9, LineTokens
  <2>2. s \in 0..(n + 2) /\ s - 1 \in 0..(n + 2)
    BY <1>2
  <2> QED
    BY <1>4, <1>5, <1>8, <2>1, <2>2
<1>10. ASSUME NEW s \in 1..(n + 2), Line(e, s) # <<>>
       PROVE  /\ Start(e, s) = Start(e, s - 1) + Len(Line(e, s)) + 1
              /\ \A i \in 1..Len(Line(e, s)) : x[Start(e, s - 1) + i] = Line(e, s)[i]
              /\ x[Start(e, s)] = NL
  <2> DEFINE p == Start(e, s - 1)
             q == Start(e, s)
             w == Line(e, s)
  <2>1. s \in 0..(n + 2) /\ s - 1 \in 0..(n + 2) /\ w \in Seq(Tokens) /\ Len(w) \in Nat
    BY <1>2, LineTokens
  <2> HIDE DEF p, q, w
  <2> SUFFICES /\ q = p + Len(w) + 1
               /\ \A i \in 1..Len(w) : x[p + i] = w[i]
               /\ x[q] = NL
    BY DEF p, q, w
  <2>2. CASE s = 1
    <3>1. e.type # <<>>
      BY <1>10, <2>2 DEF Line, w
    <3>2. w = <<"event:">> \o e.type
      BY <3>1, <2>2 DEF Line, w
    <3>3. /\ Len(a) = Len(w) + 1
          /\ \A i \in 1..Len(w) : a[i] = w[i]
          /\ a[Len(w) + 1] = NL
      BY <1>2, <3>1, <3>2, FieldTokens DEF Names, a
    <3>4. q = Len(a) /\ p = 0
      BY <1>5, <2>1, <2>2 DEF p, q
    <3>5. \A i \in 1..Len(w) : p + i = i /\ i \in 1..Len(a)
      BY <2>1, <3>3, <3>4
    <3>6. q = p + Len(w) + 1 /\ q = Len(w) + 1 /\ q \in 1..Len(a)
      BY <2>1, <3>3, <3>4
    <3> QED
      BY <1>1, <3>3, <3>5, <3>6
  <2>3. CASE s = 2
    <3>1. e.id # <<>>
      BY <1>10, <2>3 DEF Line, w
    <3>2. w = <<"id:">> \o e.id
      BY <3>1, <2>3 DEF Line, w
    <3>3. /\ Len(b) = Len(w) + 1
          /\ \A i \in 1..Len(w) : b[i] = w[i]
          /\ b[Len(w) + 1] = NL
      BY <1>2, <3>1, <3>2, FieldTokens, SMTT(30) DEF Names, b
    <3>4. q = Len(a) + Len(b) /\ p = Len(a)
      BY <1>4, <1>5, <2>1, <2>3, SMTT(30) DEF p, q
    <3>5. \A i \in 1..Len(w) : p + i = Len(a) + i /\ i \in 1..Len(b)
      BY <1>4, <2>1, <3>3, <3>4
    <3>6. q = p + Len(w) + 1 /\ q = Len(a) + (Len(w) + 1) /\ Len(w) + 1 \in 1..Len(b)
      BY <1>4, <2>1, <3>3, <3>4
    <3> QED
      BY <1>1, <3>3, <3>5, <3>6
  <2>4. CASE s > 2
    <3> DEFINE m == s - 2
    <3>1. m \in 1..n /\ s = m + 2
      BY <1>2, <2>4
    <3>2. w = <<"data:", e.data[m]>>
      BY <2>4 DEF Line, w
    <3>3. Len(w) = 2 /\ w[1] = "data:" /\ w[2] = e.data[m]
      BY <3>2
    <3> HIDE DEF m
    <3>4. q = Len(a) + Len(b) + 3 * m /\ p = Len(a) + Len(b) + (3 * m - 3)
      BY <1>4, <1>5, <2>1, <2>4, <3>1 DEF p, q
    <3>5. /\ 3 * m - 2 \in 1..Len(d) /\ 3 * m - 1 \in 1..Len(d) /\ 3 * m \in 1..Len(d)
      BY <1>2, <1>3, <3>1
    <3>6. /\ x[Len(a) + Len(b) + (3 * m - 2)] = "data:"
          /\ x[Len(a) + Len(b) + (3 * m - 1)] = e.data[m]
          /\ x[Len(a) + Len(b) + 3 * m] = NL
      BY <1>1, <1>3, <3>1, <3>5, ZenonT(30)
    <3>7. /\ p + 1 = Len(a) + Len(b) + (3 * m - 2)
          /\ p + 2 = Len(a) + Len(b) + (3 * m - 1)
          /\ q = p + Len(w) + 1
      BY <1>4, <3>1, <3>3, <3>4
    <3>8. \A i \in 1..Len(w) : i = 1 \/ i = 2
      BY <3>3
    <3> QED
      BY <3>3, <3>4, <3>6, <3>7, <3>8
  <2> QED
    BY <2>2, <2>3, <2>4
<1> QED
  <2>1. n + 2 \in Nat /\ x \in Seq(Tokens) /\ x[Len(x)] = NL
    BY <1>1, <1>2
  <2>2. \A s \in 1..(n + 2) : Line(e, s) = <<>> => Start(e, s) = Start(e, s - 1)
    BY <1>9
  <2>3. \A s \in 1..(n + 2) : Line(e, s) # <<>> =>
          /\ Start(e, s) = Start(e, s - 1) + Len(Line(e, s)) + 1
          /\ \A i \in 1..Len(Line(e, s)) : x[Start(e, s - 1) + i] = Line(e, s)[i]
          /\ x[Start(e, s)] = NL
    BY <1>10
  <2> QED
    BY <1>6, <1>7, <2>1, <2>2, <2>3, Zenon DEF x

\* How long the stream of the first k events is.
Upto(k) == Len(stream!StreamOf[k])

\* The stream of some events begins with that of fewer.
LEMMA StreamGrows ==
  ASSUME NEW j \in 0..Len(Sent)
  PROVE  /\ stream!StreamOf[j] \in Seq(Tokens) /\ Upto(j) \in Nat
         /\ \A k \in 0..j :
              /\ Upto(k) \in Nat /\ Upto(k) <= Upto(j)
              /\ k < j => Upto(k) < Upto(j)
              /\ \A i \in 1..Upto(k) : stream!StreamOf[j][i] = stream!StreamOf[k][i]
<1> DEFINE F == stream!StreamOf
           Grows(n) == \A k \in 0..n :
                         /\ Len(F[k]) <= Len(F[n])
                         /\ k < n => Len(F[k]) < Len(F[n])
                         /\ \A i \in 1..Len(F[k]) : F[n][i] = F[k][i]
           Good == {n \in 0..Len(Sent) : Grows(n)}
<1>1. /\ F \in [0..Len(Sent) -> Seq(Tokens)]
      /\ \A n \in 1..Len(Sent) : F[n] = F[n - 1] \o stream!Text(Sent[n])
  BY StreamEquation
<1>2. Len(Sent) \in Nat
  BY SentTyped
<1> HIDE DEF F
<1>3. \A n \in 0..Len(Sent) : F[n] \in Seq(Tokens) /\ Len(F[n]) \in Nat
  BY <1>1
<1>4. 0 \in Good
  <2>1. 0 \in 0..Len(Sent) /\ \A k \in 0..0 : k = 0
    BY <1>2
  <2> QED
    BY <1>3, <2>1
<1>5. ASSUME NEW n \in 1..Len(Sent), n - 1 \in Good PROVE n \in Good
  <2>1. n - 1 \in 0..Len(Sent) /\ n \in 0..Len(Sent) /\ Grows(n - 1) /\ n \in Nat
    BY <1>2, <1>5
  <2> DEFINE t == stream!Text(Sent[n])  p == F[n - 1]
  <2>2. Sent[n] \in SentEvents
    BY SentTyped
  <2>3. t \in Seq(Tokens) /\ Len(t) \in Nat /\ Len(t) > 0
    <3>1. Len(Sent[n].data) + 2 \in Nat
      BY <2>2 DEF SentEvents
    <3>2. Start(Sent[n], Len(Sent[n].data) + 2) \in Nat
      BY <2>2, <3>1, TextLines
    <3>3. t \in Seq(Tokens) /\ Len(t) = Start(Sent[n], Len(Sent[n].data) + 2) + 1
      BY <2>2, TextLines
    <3> QED
      BY <3>2, <3>3
  <2>4. p \in Seq(Tokens) /\ Len(p) \in Nat
    BY <1>3, <2>1
  <2>5. F[n] = p \o t
    BY <1>1
  <2>6. Grows(n - 1)
    BY <2>1
  <2> HIDE DEF t, p
  <2>7. Len(p \o t) > Len(p) /\ \A i \in 1..Len(p) : (p \o t)[i] = p[i]
    BY <2>3, <2>4, Concat
  <2>8. Len(p \o t) \in Nat
    BY <2>3, <2>4
  <2>9. ASSUME NEW k \in 0..n
        PROVE  /\ Len(F[k]) <= Len(F[n])
               /\ k < n => Len(F[k]) < Len(F[n])
               /\ \A i \in 1..Len(F[k]) : F[n][i] = F[k][i]
    <3>1. CASE k = n
      BY <2>5, <2>8, <3>1
    <3>2. CASE k # n
      <4>1. k \in 0..(n - 1) /\ k \in 0..Len(Sent)
        BY <2>1, <3>2
      <4>2. /\ Len(F[k]) \in Nat /\ Len(F[k]) <= Len(p)
            /\ \A i \in 1..Len(F[k]) : p[i] = F[k][i]
        BY <1>3, <2>6, <4>1 DEF p
      <4>3. \A i \in 1..Len(F[k]) : i \in 1..Len(p)
        BY <2>4, <4>2
      <4> QED
        BY <2>4, <2>5, <2>7, <2>8, <4>2, <4>3
    <3> QED
      BY <3>1, <3>2
  <2> QED
    BY <2>1, <2>9
<1> HIDE DEF Good
<1>6. j \in Good
  BY <1>2, <1>4, <1>5, CountInduction
<1>7. \A k \in 0..j : k \in 0..Len(Sent)
  BY <1>2
<1> QED
  BY <1>3, <1>6, <1>7 DEF Good, F, Upto

\* The place after the first k events and the first s lines of the next, and
\* the lines there are.
At(k, s) == Upto(k) + Start(Sent[k + 1], s)
Stages(k) == IF k = Len(Sent) THEN {0} ELSE 0..(Len(Sent[k + 1].data) + 2)

\* What the stream has at that place: the next line, if the event has it, or
\* the end of the event.
LEMMA StreamLines ==
  ASSUME NEW k \in 0..Len(Sent), NEW s \in Stages(k)
  PROVE  LET n == Len(Sent[k + 1].data) + 2
         IN  /\ At(k, s) \in Nat /\ At(k, s) <= Len(stream!Stream)
             /\ Upto(k) <= At(k, s) /\ Len(stream!Stream) \in Nat
             /\ At(k, 0) = Upto(k)
             /\ k = Len(Sent) => s = 0 /\ At(k, s) = Len(stream!Stream)
             /\ k < Len(Sent) =>
                  /\ Sent[k + 1] \in SentEvents /\ n \in Nat
                  /\ s = n => /\ At(k, s) + 1 = Upto(k + 1)
                              /\ At(k, s) + 1 <= Len(stream!Stream)
                              /\ stream!Stream[At(k, s) + 1] = NL
                  /\ s < n /\ Line(Sent[k + 1], s + 1) = <<>> => At(k, s + 1) = At(k, s)
                  /\ s < n /\ Line(Sent[k + 1], s + 1) # <<>> =>
                       /\ At(k, s + 1) = At(k, s) + Len(Line(Sent[k + 1], s + 1)) + 1
                       /\ At(k, s + 1) < Upto(k + 1) /\ Upto(k + 1) <= Len(stream!Stream)
                       /\ \A i \in 1..Len(Line(Sent[k + 1], s + 1)) :
                            stream!Stream[At(k, s) + i] = Line(Sent[k + 1], s + 1)[i]
                       /\ stream!Stream[At(k, s + 1)] = NL
                  /\ At(k, s) < Upto(k + 1)
<1> DEFINE n == Len(Sent[k + 1].data) + 2
           X == stream!Stream
           F == stream!StreamOf
           e == Sent[k + 1]
           x == stream!Text(e)
           N == Len(Sent)
<1>1. N \in Nat /\ k \in Nat /\ k <= N /\ N \in 0..N
  BY SentTyped
<1>2. /\ Upto(N) \in Nat /\ Upto(k) \in Nat /\ Upto(k) <= Upto(N)
      /\ F[k] \in Seq(Tokens) /\ Upto(k) = Len(F[k])
      /\ X = F[N] /\ Len(X) = Upto(N)
  BY <1>1, StreamGrows DEF stream!Stream, Upto
<1>3. Start(e, 0) = 0
  BY DEF Start
<1>4. CASE k = N
  <2>1. s = 0
    BY <1>4 DEF Stages
  <2> QED
    BY <1>1, <1>2, <1>3, <1>4, <2>1 DEF At
<1>5. CASE k < N
  <2>1. k + 1 \in 1..N /\ k + 1 \in 0..N /\ e \in SentEvents /\ s \in 0..n
    BY <1>1, <1>5, SentTyped DEF Stages
  <2>2. /\ n \in Nat /\ (\A r \in 0..n : Start(e, r) \in Nat /\ Start(e, r) <= Start(e, n))
        /\ x \in Seq(Tokens) /\ Len(x) = Start(e, n) + 1 /\ x[Len(x)] = NL
        /\ \A r \in 1..n : Line(e, r) = <<>> => Start(e, r) = Start(e, r - 1)
        /\ \A r \in 1..n : Line(e, r) # <<>> =>
             /\ Start(e, r) = Start(e, r - 1) + Len(Line(e, r)) + 1
             /\ \A i \in 1..Len(Line(e, r)) : x[Start(e, r - 1) + i] = Line(e, r)[i]
             /\ x[Start(e, r)] = NL
    BY <2>1, TextLines
  <2>3. F[k + 1] = F[k] \o x
    <3>1. F[k + 1] = F[(k + 1) - 1] \o stream!Text(Sent[k + 1])
      BY <2>1, StreamEquation
    <3>2. (k + 1) - 1 = k
      BY <1>1
    <3> QED
      BY <3>1, <3>2, Zenon
  <2>4. /\ Upto(k + 1) \in Nat /\ Upto(k + 1) <= Upto(N)
        /\ Upto(k + 1) = Len(F[k + 1])
        /\ \A i \in 1..Upto(k + 1) : X[i] = F[k + 1][i]
    BY <1>1, <1>2, <2>1, StreamGrows DEF Upto
  <2> HIDE DEF X, F, x, e, n, N
  <2>5. /\ Len(F[k + 1]) = Upto(k) + Len(x)
        /\ Upto(k + 1) = Upto(k) + Len(x)
    <3>1. F[k] \in Seq(Tokens) /\ x \in Seq(Tokens) /\ Len(F[k]) = Upto(k)
      BY <1>2, <2>2, Zenon
    <3>2. Len(F[k] \o x) = Len(F[k]) + Len(x)
      BY <3>1, Concat
    <3> QED
      BY <2>3, <2>4, <3>1, <3>2
  <2>6. ASSUME NEW i \in 1..Len(x) PROVE X[Upto(k) + i] = x[i]
    <3>1. F[k + 1][Len(F[k]) + i] = x[i]
      BY <1>2, <2>2, <2>3, Concat
    <3>2. Len(x) \in Nat
      BY <2>2
    <3>3. Upto(k) + i \in 1..Upto(k + 1)
      BY <1>2, <2>5, <3>2
    <3> QED
      BY <1>2, <2>4, <3>1, <3>3
  <2>7. ASSUME s = n
        PROVE  /\ At(k, s) + 1 = Upto(k + 1)
               /\ X[At(k, s) + 1] = NL
    <3>1. At(k, s) = Upto(k) + Start(e, n) /\ n \in 0..n /\ Start(e, n) \in Nat
      BY <2>2, <2>7 DEF At, e
    <3>2. Upto(k) \in Nat /\ Len(x) = Start(e, n) + 1
      BY <1>2, <2>2, Zenon
    <3>3. At(k, s) + 1 = Upto(k) + Len(x) /\ Len(x) \in 1..Len(x)
      BY <3>1, <3>2
    <3> QED
      BY <2>2, <2>5, <2>6, <3>3
  <2>8. ASSUME s < n
        PROVE  /\ s + 1 \in 1..n /\ s + 1 \in 0..n /\ (s + 1) - 1 = s
               /\ At(k, s) = Upto(k) + Start(e, s) /\ At(k, s + 1) = Upto(k) + Start(e, s + 1)
               /\ Start(e, s) \in Nat /\ Start(e, s + 1) \in Nat
               /\ Start(e, s + 1) < Len(x)
               /\ Len(x) \in Nat
    <3>1. s + 1 \in 1..n /\ s + 1 \in 0..n /\ (s + 1) - 1 = s /\ n \in 0..n
      BY <2>1, <2>2, <2>8
    <3>2. At(k, s) = Upto(k) + Start(e, s) /\ At(k, s + 1) = Upto(k) + Start(e, s + 1)
      BY DEF At, e
    <3> QED
      BY <2>1, <2>2, <3>1, <3>2
  <2>9. ASSUME s < n, Line(e, s + 1) = <<>>
        PROVE  At(k, s + 1) = At(k, s)
    <3>1. Start(e, s + 1) = Start(e, (s + 1) - 1)
      BY <2>2, <2>8, <2>9
    <3> QED
      BY <2>8, <2>9, <3>1
  <2>10. ASSUME s < n, Line(e, s + 1) # <<>>
         PROVE  /\ At(k, s + 1) = At(k, s) + Len(Line(e, s + 1)) + 1
                /\ At(k, s + 1) < Upto(k + 1)
                /\ \A i \in 1..Len(Line(e, s + 1)) : X[At(k, s) + i] = Line(e, s + 1)[i]
                /\ X[At(k, s + 1)] = NL
    <3> DEFINE w == Line(e, s + 1)  p == Start(e, s)  q == Start(e, s + 1)
    <3>1. /\ q = Start(e, (s + 1) - 1) + Len(w) + 1
          /\ \A i \in 1..Len(w) : x[Start(e, (s + 1) - 1) + i] = w[i]
          /\ x[q] = NL
      BY <2>2, <2>8, <2>10, Zenon
    <3>2. Len(w) \in Nat
      BY <2>1, <2>8, <2>10, LineTokens DEF n, e
    <3>3. Start(e, (s + 1) - 1) = p
      BY <2>8, <2>10
    <3>4. At(k, s) = Upto(k) + p /\ At(k, s + 1) = Upto(k) + q /\ q < Len(x) /\ p \in Nat /\ q \in Nat /\ Len(x) \in Nat
      BY <2>8, <2>10
    <3> HIDE DEF w, p, q
    <3>5. q = p + Len(w) + 1 /\ x[q] = NL /\ \A i \in 1..Len(w) : x[p + i] = w[i]
      BY <3>1, <3>3
    <3>6. q \in 1..Len(x) /\ \A i \in 1..Len(w) : p + i \in 1..Len(x)
      BY <3>2, <3>4, <3>5
    <3>7. At(k, s + 1) = At(k, s) + Len(w) + 1 /\ At(k, s + 1) < Upto(k + 1)
      <4>1. Upto(k) \in Nat /\ q = p + Len(w) + 1 /\ Upto(k + 1) = Upto(k) + Len(x)
        BY <1>2, <2>5, <3>5, Zenon
      <4> QED
        BY <3>2, <3>4, <4>1
    <3>8. X[At(k, s + 1)] = NL
      BY <2>6, <3>4, <3>5, <3>6
    <3>9. ASSUME NEW i \in 1..Len(w) PROVE X[At(k, s) + i] = w[i]
      <4>1. At(k, s) + i = Upto(k) + (p + i)
        <5>1. Upto(k) \in Nat
          BY <1>2, Zenon
        <5> QED
          BY <3>2, <3>4, <5>1
      <4> QED
        BY <2>6, <3>5, <3>6, <4>1
    <3> QED
      BY <3>7, <3>8, <3>9 DEF w
  <2>11. At(k, s) = Upto(k) + Start(e, s) /\ At(k, 0) = Upto(k) + Start(e, 0)
    BY DEF At, e
  <2>12. Start(e, s) \in Nat /\ Start(e, s) < Len(x) /\ Len(x) \in Nat
    BY <2>1, <2>2
  <2>13. /\ At(k, s) \in Nat /\ Upto(k) <= At(k, s) /\ At(k, s) < Upto(k + 1)
         /\ At(k, s) <= Len(X) /\ Len(X) \in Nat /\ At(k, 0) = Upto(k)
         /\ Upto(k + 1) <= Len(X)
    BY <1>2, <1>3, <2>4, <2>5, <2>11, <2>12 DEF e
  <2> QED
    BY <1>5, <2>1, <2>2, <2>7, <2>9, <2>10, <2>13 DEF X, e, n, N
<1> QED
  BY <1>1, <1>4, <1>5

-----------------------------------------------------------------------------
(* What readStream() makes of it *)

\* The text of the stream.
X == stream!Stream

\* x is what the stream has between two places.
Piece(x, from, to) ==
  /\ x \in Seq(Tokens) /\ from \in Nat /\ to \in Nat
  /\ to = from + Len(x)
  /\ \A i \in 1..Len(x) : X[from + i] = x[i]

\* There no line ends.
NoBreak(from, to) == \A i \in (from + 1)..to : X[i] # NL

\* ls are the lines of the stream behind a place, b the places of their ends,
\* and no more is known of the stream than up to another place.
Cut(ls, b, from, to) ==
  /\ from \in Nat /\ to \in Nat
  /\ ls \in Seq(Seq(Tokens))
  /\ b \in [0..Len(ls) -> Nat]
  /\ b[0] = from /\ b[Len(ls)] <= to
  /\ \A j \in 1..Len(ls) :
       /\ b[j - 1] < b[j] /\ b[j] <= to
       /\ Piece(ls[j], b[j - 1], b[j] - 1)
       /\ NoBreak(b[j - 1], b[j] - 1)
       /\ X[b[j]] = NL

\* split('\n') gives the lines and the rest.
SplitOf(ls, rest, from, to) ==
  \E b : /\ Cut(ls, b, from, to)
         /\ Piece(rest, b[Len(ls)], to)
         /\ NoBreak(b[Len(ls)], to)

\* One more line.
LEMMA CutLonger ==
  ASSUME NEW ls, NEW b, NEW from, NEW to, NEW rest, Cut(ls, b, from, to),
         Piece(rest, b[Len(ls)], to), NoBreak(b[Len(ls)], to), X[to + 1] = NL
  PROVE  SplitOf(Append(ls, rest), <<>>, from, to + 1)
<1> DEFINE n == Len(ls)
           c == [j \in 0..(n + 1) |-> IF j = n + 1 THEN to + 1 ELSE b[j]]
           ms == Append(ls, rest)
<1>1. /\ n \in Nat /\ to \in Nat /\ from \in Nat /\ rest \in Seq(Tokens)
      /\ ls \in Seq(Seq(Tokens)) /\ b \in [0..n -> Nat] /\ b[0] = from /\ b[n] <= to
  BY DEF Cut, Piece
<1>2. ms \in Seq(Seq(Tokens)) /\ Len(ms) = n + 1 /\ ms[n + 1] = rest /\ \A j \in 1..n : ms[j] = ls[j]
  BY <1>1
<1>3. c \in [0..(n + 1) -> Nat] /\ c[n + 1] = to + 1 /\ \A j \in 0..n : c[j] = b[j]
  BY <1>1
<1>4. \A j \in 1..n : /\ b[j - 1] < b[j] /\ b[j] <= to
                      /\ Piece(ls[j], b[j - 1], b[j] - 1)
                      /\ NoBreak(b[j - 1], b[j] - 1)
                      /\ X[b[j]] = NL
  BY DEF Cut
<1> HIDE DEF n, c, ms
<1>5. ASSUME NEW j \in 1..(n + 1)
      PROVE  /\ c[j - 1] < c[j] /\ c[j] <= to + 1
             /\ Piece(ms[j], c[j - 1], c[j] - 1)
             /\ NoBreak(c[j - 1], c[j] - 1)
             /\ X[c[j]] = NL
  <2>1. CASE j = n + 1
    <3>1. c[j] = to + 1 /\ c[j] - 1 = to /\ c[j - 1] = b[n] /\ ms[j] = rest /\ b[n] \in Nat
      BY <1>1, <1>2, <1>3, <2>1
    <3> QED
      BY <1>1, <3>1 DEF n
  <2>2. CASE j # n + 1
    <3>1. j \in 1..n /\ j \in 0..n /\ j - 1 \in 0..n
      BY <1>1, <2>2
    <3>2. c[j] = b[j] /\ c[j - 1] = b[j - 1] /\ ms[j] = ls[j] /\ b[j] \in Nat
      BY <1>1, <1>2, <1>3, <3>1
    <3>3. b[j] <= to /\ b[j - 1] < b[j]
      BY <1>4, <3>1
    <3> QED
      BY <1>1, <1>4, <3>1, <3>2, <3>3
  <2> QED
    BY <2>1, <2>2
<1>6. c[0] = from /\ to + 1 \in Nat
  BY <1>1, <1>3
<1>7. Cut(ms, c, from, to + 1)
  BY <1>1, <1>2, <1>3, <1>5, <1>6 DEF Cut
<1>8. Piece(<<>>, to + 1, to + 1) /\ NoBreak(to + 1, to + 1)
  <2>1. <<>> \in Seq(Tokens) /\ Len(<<>>) = 0
    OBVIOUS
  <2> QED
    BY <1>6, <2>1 DEF Piece, NoBreak
<1> QED
  BY <1>2, <1>3, <1>7, <1>8 DEF SplitOf, ms

\* A longer rest.
LEMMA RestLonger ==
  ASSUME NEW ls, NEW from, NEW to, NEW rest, SplitOf(ls, rest, from, to),
         to \in Nat, X[to + 1] # NL, X[to + 1] \in Tokens
  PROVE  SplitOf(ls, Append(rest, X[to + 1]), from, to + 1)
<1>1. PICK b : /\ Cut(ls, b, from, to)
               /\ Piece(rest, b[Len(ls)], to)
               /\ NoBreak(b[Len(ls)], to)
  BY DEF SplitOf
<1> DEFINE p == b[Len(ls)]
           r == Append(rest, X[to + 1])
<1>2. p \in Nat /\ to \in Nat /\ rest \in Seq(Tokens) /\ to = p + Len(rest) /\ p <= to
      /\ \A i \in 1..Len(rest) : X[p + i] = rest[i]
  BY <1>1 DEF Piece
<1>3. Cut(ls, b, from, to + 1)
  <2>1. to + 1 \in Nat /\ \A j \in Nat : j <= to => j <= to + 1
    BY <1>2
  <2>2. ls \in Seq(Seq(Tokens)) /\ b \in [0..Len(ls) -> Nat] /\ from \in Nat /\ b[0] = from
        /\ b[Len(ls)] <= to
        /\ \A j \in 1..Len(ls) :
              /\ b[j - 1] < b[j] /\ b[j] <= to
              /\ Piece(ls[j], b[j - 1], b[j] - 1)
              /\ NoBreak(b[j - 1], b[j] - 1)
              /\ X[b[j]] = NL
    BY <1>1 DEF Cut
  <2>3. \A j \in 0..Len(ls) : b[j] \in Nat
    BY <2>2
  <2>4. Len(ls) \in Nat /\ Len(ls) \in 0..Len(ls) /\ \A j \in 1..Len(ls) : j \in 0..Len(ls)
    BY <2>2
  <2>5. b[Len(ls)] <= to + 1 /\ \A j \in 1..Len(ls) : b[j] <= to + 1
    BY <2>1, <2>2, <2>3, <2>4
  <2> QED
    BY <2>1, <2>2, <2>5 DEF Cut
<1> HIDE DEF p
<1>4. r \in Seq(Tokens) /\ Len(r) = Len(rest) + 1 /\ r[Len(rest) + 1] = X[to + 1]
      /\ \A i \in 1..Len(rest) : r[i] = rest[i]
  BY <1>2
<1> HIDE DEF r
<1>5. \A i \in 1..Len(r) : X[p + i] = r[i]
  <2>1. ASSUME NEW i \in 1..Len(r) PROVE X[p + i] = r[i]
    <3>1. CASE i = Len(rest) + 1
      BY <1>2, <1>4, <3>1
    <3>2. CASE i # Len(rest) + 1
      <4>1. i \in 1..Len(rest)
        BY <1>2, <1>4, <3>2
      <4> QED
        BY <1>2, <1>4, <4>1
    <3> QED
      BY <3>1, <3>2
  <2> QED
    BY <2>1
<1>6. Piece(r, p, to + 1)
  BY <1>2, <1>4, <1>5 DEF Piece
<1>7. NoBreak(p, to + 1)
  <2>1. \A i \in (p + 1)..(to + 1) : i = to + 1 \/ i \in (p + 1)..to
    BY <1>2
  <2>2. NoBreak(p, to)
    BY <1>1 DEF p
  <2> QED
    BY <2>1, <2>2 DEF NoBreak
<1> QED
  BY <1>3, <1>6, <1>7 DEF SplitOf, p, r

\* However long a text, split('\n') and pop() give its lines and what follows
\* them, by induction on its tokens.
LEMMA Splits ==
  ASSUME NEW text, NEW from, NEW to, Piece(text, from, to)
  PROVE  SplitOf(stream!WholeLines(text)[Len(text)], stream!OpenLine(text)[Len(text)], from, to)
<1> DEFINE W == stream!WholeLines(text)
           O == stream!OpenLine(text)
           N == Len(text)
           Good == {i \in 0..N : SplitOf(W[i], O[i], from, from + i)}
<1>1. text \in Seq(Tokens) /\ N \in Nat /\ from \in Nat /\ to = from + N
      /\ \A i \in 1..N : X[from + i] = text[i] /\ text[i] \in Tokens
  BY DEF Piece
<1>2. /\ W \in [0..N -> Seq(Seq(Tokens))] /\ W[0] = <<>>
      /\ \A i \in 1..N : W[i] = IF text[i] = NL THEN Append(W[i - 1], O[i - 1]) ELSE W[i - 1]
  BY <1>1, WholeLinesEquation
<1>3. /\ O \in [0..N -> Seq(Tokens)] /\ O[0] = <<>>
      /\ \A i \in 1..N : O[i] = IF text[i] = NL THEN <<>> ELSE Append(O[i - 1], text[i])
  BY <1>1, OpenLineEquation
<1> HIDE DEF W, O, N
<1>4. 0 \in Good
  <2> DEFINE b == [j \in 0..0 |-> from]
  <2>1. b \in [0..0 -> Nat] /\ b[0] = from
    BY <1>1
  <2>2. <<>> \in Seq(Tokens) /\ <<>> \in Seq(Seq(Tokens)) /\ Len(<<>>) = 0
    OBVIOUS
  <2> HIDE DEF b
  <2>3. Cut(<<>>, b, from, from)
    BY <1>1, <2>1, <2>2 DEF Cut
  <2>4. Piece(<<>>, b[Len(<<>>)], from) /\ NoBreak(b[Len(<<>>)], from)
    BY <1>1, <2>1, <2>2 DEF Piece, NoBreak
  <2>5. 0 \in 0..N /\ from + 0 = from
    BY <1>1
  <2> QED
    BY <1>2, <1>3, <2>3, <2>4, <2>5 DEF SplitOf
<1>5. ASSUME NEW i \in 1..N, i - 1 \in Good PROVE i \in Good
  <2> DEFINE p == from + (i - 1)
  <2>1. p \in Nat /\ p + 1 = from + i /\ X[p + 1] = text[i] /\ i \in 0..N /\ text[i] \in Tokens
    BY <1>1
  <2>2. SplitOf(W[i - 1], O[i - 1], from, p)
    BY <1>5
  <2> HIDE DEF p
  <2>3. SplitOf(W[i], O[i], from, p + 1)
    <3>1. CASE text[i] = NL
      <4>1. PICK b : /\ Cut(W[i - 1], b, from, p)
                     /\ Piece(O[i - 1], b[Len(W[i - 1])], p)
                     /\ NoBreak(b[Len(W[i - 1])], p)
        BY <2>2 DEF SplitOf
      <4>2. SplitOf(Append(W[i - 1], O[i - 1]), <<>>, from, p + 1)
        BY <2>1, <3>1, <4>1, CutLonger
      <4> QED
        BY <1>2, <1>3, <3>1, <4>2
    <3>2. CASE text[i] # NL
      <4>1. SplitOf(W[i - 1], Append(O[i - 1], X[p + 1]), from, p + 1)
        BY <2>1, <2>2, <3>2, RestLonger
      <4> QED
        BY <1>2, <1>3, <2>1, <3>2, <4>1
    <3> QED
      BY <3>1, <3>2
  <2> QED
    BY <2>1, <2>3
<1> HIDE DEF Good
<1>6. N \in Good
  <2>1. N \in Nat /\ N \in 0..N
    BY <1>1
  <2>2. 0..N \subseteq Good
    BY <1>4, <1>5, <2>1, CountInduction
  <2> QED
    BY <2>1, <2>2
<1> QED
  BY <1>1, <1>6 DEF Good, W, O, N

\* What readStream has made of the first k events and the first s lines of
\* the next.
Parsed(k, s) ==
  /\ eventType = IF s = 0 THEN <<>> ELSE Sent[k + 1].type
  /\ eventId = IF s \in {0, 1} THEN <<>> ELSE Sent[k + 1].id
  /\ eventData = IF s \in {0, 1, 2} THEN <<>> ELSE stream!Joined(Sent[k + 1])[s - 2]

\* The lines and the rest are those of the stream behind it.
Ahead(k, s, b) ==
  /\ Cut(lines, b, At(k, s), received - Len(chunk))
  /\ Piece(buffer, b[Len(lines)], received - Len(chunk))
  /\ Piece(chunk, received - Len(chunk), received)
  /\ phase # "read" => NoBreak(b[Len(lines)], received) /\ chunk = <<>>
  /\ phase \notin {"lines", "handling"} => lines = <<>>

\* The handler is running for the event that ends with the first line.
Delivering(k, s, b) ==
  /\ k < Len(Sent) /\ s = Len(Sent[k + 1].data) + 2
  /\ eventData # <<>>
  /\ lines # <<>> /\ b[1] = Upto(k + 1)
  /\ stream!Heard = stream!Told[k + 1]

\* What has been parsed are some events and some lines of the next one; what
\* was received behind them is in lines, buffer and chunk; and the handler has
\* been told of just those events, and of the next one while it runs for it.
ParserInv ==
  phase # "closed" =>
    \E k \in 0..Len(Sent) : \E s \in Stages(k) : \E b :
      /\ Parsed(k, s) /\ Ahead(k, s, b)
      /\ IF phase = "handling" THEN Delivering(k, s, b) ELSE stream!Heard = stream!Told[k]

\* The handler has been told of some of the events that were received.
HeardInv ==
  /\ \E C : calls \in Seq(C)
  /\ received \in 0..Len(X)
  /\ \E k \in 0..Len(Sent) : stream!Heard = stream!Told[k] /\ Upto(k) <= received

\* The data of an event are not empty when it has data lines.
LEMMA JoinedNotEmpty ==
  ASSUME NEW e \in SentEvents, NEW m \in 1..Len(e.data)
  PROVE  stream!Joined(e)[m] # <<>> /\ stream!Joined(e)[m] \in Seq(Tokens)
<1>1. m \in 0..Len(e.data) /\ m - 1 \in 0..Len(e.data) /\ Len(e.data) \in Nat
  BY DEF SentEvents
<1>2. stream!Joined(e)[m] \in Seq(Tokens) /\ stream!Joined(e)[m - 1] \in Seq(Tokens)
  BY <1>1, JoinedEquation
<1>3. stream!Joined(e)[m] = IF m = 1 THEN <<e.data[1]>> ELSE stream!Joined(e)[m - 1] \o <<NL, e.data[m]>>
  BY JoinedEquation
<1>4. e.data[m] \in Tokens /\ NL \in Tokens
  BY DEF SentEvents, Tokens
<1>5. <<NL, e.data[m]>> \in Seq(Tokens) /\ Len(<<NL, e.data[m]>>) = 2
  BY <1>4
<1>6. CASE m = 1
  BY <1>2, <1>3, <1>6
<1>7. CASE m # 1
  <2>1. Len(stream!Joined(e)[m - 1] \o <<NL, e.data[m]>>) = Len(stream!Joined(e)[m - 1]) + 2
    BY <1>2, <1>5
  <2>2. Len(stream!Joined(e)[m - 1]) \in Nat
    BY <1>2
  <2> QED
    BY <1>2, <1>3, <1>7, <2>1, <2>2
<1> QED
  BY <1>6, <1>7

\* The first of the lines is the next one the event has, or the empty one that
\* ends it.
LEMMA NextLine ==
  ASSUME NEW k \in 0..Len(Sent), NEW s \in Stages(k), NEW b, NEW to,
         Parsed(k, s), Cut(lines, b, At(k, s), to), to <= Len(X), lines # <<>>
  PROVE  /\ k < Len(Sent)
         /\ \E r \in Stages(k) :
              /\ At(k, r) = At(k, s) /\ Parsed(k, r)
              /\ \/ /\ r = Len(Sent[k + 1].data) + 2
                    /\ lines[1] = <<>> /\ b[1] = Upto(k + 1)
                 \/ /\ r < Len(Sent[k + 1].data) + 2
                    /\ lines[1] = Line(Sent[k + 1], r + 1) /\ lines[1] # <<>>
                    /\ b[1] = At(k, r + 1)
<1> DEFINE e == Sent[k + 1]
           n == Len(Sent[k + 1].data) + 2
           w == lines[1]
<1>1. Len(lines) \in Nat /\ 1 \in 1..Len(lines) /\ 1 \in 0..Len(lines) /\ 1 - 1 = 0
  BY DEF Cut
<1>2. /\ b[1] \in Nat /\ b[0] = At(k, s) /\ b[0] < b[1] /\ b[1] <= to /\ to \in Nat
      /\ Piece(w, b[0], b[1] - 1) /\ NoBreak(b[0], b[1] - 1) /\ X[b[1]] = NL
  BY <1>1 DEF Cut
<1>3. At(k, s) \in Nat /\ Len(X) \in Nat
  BY StreamLines DEF X
<1>4. k < Len(Sent) /\ Len(Sent) \in Nat /\ k \in Nat
  <2>1. k = Len(Sent) => At(k, s) = Len(X)
    BY StreamLines DEF X
  <2>2. k # Len(Sent)
    BY <1>2, <1>3, <2>1
  <2> QED
    BY <2>2, SentTyped
<1>5. e \in SentEvents /\ n \in Nat /\ s \in 0..n /\ Stages(k) = 0..n
  <2>1. e \in SentEvents /\ n \in Nat
    BY <1>4, StreamLines
  <2> QED
    BY <1>4, <2>1 DEF Stages
<1> HIDE DEF e, n, w
<1>6. PICK r \in 0..n : At(k, r) = At(k, s) /\ Parsed(k, r) /\ (r = n \/ (r < n /\ Line(e, r + 1) # <<>>))
  <2>1. ASSUME NEW q \in 0..n, q < n, Line(e, q + 1) = <<>>, Parsed(k, q)
        PROVE  q \in {0, 1} /\ At(k, q + 1) = At(k, q) /\ Parsed(k, q + 1)
    <3>1. q + 1 \in 1..n
      BY <1>5, <2>1
    <3>2. (q + 1 = 1 /\ e.type = <<>>) \/ (q + 1 = 2 /\ e.id = <<>>)
      BY <1>5, <2>1, <3>1, LineTokens DEF n, e
    <3>3. At(k, q + 1) = At(k, q)
      BY <1>4, <1>5, <2>1, StreamLines DEF n, e
    <3>4. CASE q = 0 /\ e.type = <<>>
      BY <2>1, <3>3, <3>4 DEF Parsed, e
    <3>5. CASE q = 1 /\ e.id = <<>>
      BY <2>1, <3>3, <3>5 DEF Parsed, e
    <3> QED
      BY <1>5, <3>2, <3>4, <3>5
  <2>2. n >= 2
    BY <1>5 DEF n, SentEvents, e
  <2>3. ASSUME NEW q \in 0..n, Parsed(k, q), At(k, q) = At(k, s), q >= 2
        PROVE  \E r \in 0..n : At(k, r) = At(k, s) /\ Parsed(k, r) /\ (r = n \/ (r < n /\ Line(e, r + 1) # <<>>))
    BY <1>5, <2>1, <2>3
  <2>4. ASSUME NEW q \in 0..n, Parsed(k, q), At(k, q) = At(k, s), q >= 1
        PROVE  \E r \in 0..n : At(k, r) = At(k, s) /\ Parsed(k, r) /\ (r = n \/ (r < n /\ Line(e, r + 1) # <<>>))
    <3>1. CASE q = 1 /\ Line(e, q + 1) = <<>>
      <4>1. q < n /\ q + 1 \in 0..n /\ q + 1 >= 2
        BY <1>5, <2>2, <3>1
      <4> QED
        BY <2>1, <2>3, <2>4, <3>1, <4>1
    <3>2. CASE q # 1
      BY <1>5, <2>3, <2>4, <3>2
    <3>3. CASE q = 1 /\ Line(e, q + 1) # <<>>
      BY <1>5, <2>2, <2>4, <3>3
    <3> QED
      BY <3>1, <3>2, <3>3
  <2>5. CASE s = 0 /\ Line(e, s + 1) = <<>>
    <3>1. s < n /\ s + 1 \in 0..n /\ s + 1 >= 1
      BY <1>5, <2>2, <2>5
    <3> QED
      BY <1>5, <2>1, <2>4, <2>5, <3>1
  <2>6. CASE s # 0
    BY <1>5, <2>4, <2>6
  <2>7. CASE s = 0 /\ Line(e, s + 1) # <<>>
    BY <1>5, <2>2, <2>7
  <2> QED
    BY <2>5, <2>6, <2>7
<1>7. r \in Stages(k)
  BY <1>5
<1>8. /\ w \in Seq(Tokens) /\ Len(w) \in Nat /\ b[1] = b[0] + Len(w) + 1
      /\ \A i \in 1..Len(w) : X[b[0] + i] = w[i]
  BY <1>2 DEF Piece
<1>9. \A i \in Nat : b[0] < i /\ i < b[1] => X[i] # NL
  BY <1>2, <1>3 DEF NoBreak
<1>10. b[0] = At(k, r) /\ b[0] \in Nat
  BY <1>2, <1>3, <1>6
<1>11. CASE r = n
  <2>1. At(k, r) + 1 = Upto(k + 1) /\ X[At(k, r) + 1] = NL
    BY <1>4, <1>7, <1>11, StreamLines DEF n, X
  <2>2. ~(b[0] + 1 < b[1])
    BY <1>9, <1>10, <2>1
  <2>3. b[1] = b[0] + 1 /\ Len(w) = 0
    BY <1>2, <1>8, <1>10, <2>2
  <2> QED
    BY <1>4, <1>6, <1>7, <1>8, <1>10, <1>11, <2>1, <2>3 DEF n, w
<1>12. CASE r < n /\ Line(e, r + 1) # <<>>
  <2> DEFINE v == Line(e, r + 1)
             q == At(k, r + 1)
  <2>1. /\ q = At(k, r) + Len(v) + 1
        /\ \A i \in 1..Len(v) : X[At(k, r) + i] = v[i]
        /\ X[q] = NL
    BY <1>4, <1>7, <1>12, StreamLines DEF n, X, e
  <2>2. v \in Seq(Tokens) /\ Len(v) \in Nat /\ \A i \in 1..Len(v) : v[i] # NL
    <3>1. r + 1 \in 1..n
      BY <1>5, <1>12
    <3> QED
      BY <1>5, <3>1, LineTokens, SMTT(30) DEF n, e
  <2> HIDE DEF v, q
  <2>3. q \in Nat /\ q = b[0] + Len(v) + 1
    BY <1>10, <2>1, <2>2
  <2>4. ~(q < b[1])
    BY <1>9, <1>10, <2>1, <2>2, <2>3
  <2>5. ~(b[1] < q)
    <3>1. SUFFICES ASSUME b[1] < q PROVE FALSE
      OBVIOUS
    <3>2. Len(w) + 1 \in 1..Len(v) /\ b[1] = At(k, r) + (Len(w) + 1)
      BY <1>8, <1>10, <2>2, <2>3, <3>1
    <3> QED
      BY <1>2, <2>1, <2>2, <3>2
  <2>6. b[1] = q /\ Len(w) = Len(v)
    BY <1>2, <1>8, <1>10, <2>2, <2>3, <2>4, <2>5
  <2>7. \A i \in 1..Len(v) : w[i] = v[i]
    BY <1>8, <1>10, <2>1, <2>6
  <2>8. w = v
    BY <1>8, <2>2, <2>6, <2>7
  <2> QED
    BY <1>4, <1>6, <1>7, <1>12, <2>6, <2>8 DEF n, w, v, q, e
<1> QED
  BY <1>6, <1>11, <1>12

\* Nothing but the phase changes.
LEMMA QuietStep ==
  ASSUME ParserInv, HeardInv,
         UNCHANGED <<received, chunk, buffer, lines, eventType, eventId, eventData, calls>>,
         phase' # "closed" => /\ phase # "closed"
                              /\ phase' = "handling" <=> phase = "handling"
                              /\ phase = "read" <=> phase' = "read"
                              /\ phase' \notin {"lines", "handling"} => phase \notin {"lines", "handling"} \/ lines = <<>>
  PROVE  ParserInv' /\ HeardInv'
<1>1. stream!Heard' = stream!Heard
  BY DEF stream!Heard
<1>2. HeardInv'
  BY <1>1 DEF HeardInv
<1>3. ASSUME phase' # "closed"
      PROVE  \E k \in 0..Len(Sent) : \E s \in Stages(k) : \E b :
                /\ Parsed(k, s)' /\ Ahead(k, s, b)'
                /\ IF phase' = "handling" THEN Delivering(k, s, b)' ELSE stream!Heard' = stream!Told[k]
  <2>1. PICK k \in 0..Len(Sent) : \E s \in Stages(k) : \E b :
                /\ Parsed(k, s) /\ Ahead(k, s, b)
                /\ IF phase = "handling" THEN Delivering(k, s, b) ELSE stream!Heard = stream!Told[k]
    BY <1>3 DEF ParserInv
  <2>s. PICK s \in Stages(k) : \E b :
                /\ Parsed(k, s) /\ Ahead(k, s, b)
                /\ IF phase = "handling" THEN Delivering(k, s, b) ELSE stream!Heard = stream!Told[k]
    BY <2>1
  <2>2. PICK b :
                /\ s \in Stages(k)
                /\ Parsed(k, s) /\ Ahead(k, s, b)
                /\ IF phase = "handling" THEN Delivering(k, s, b) ELSE stream!Heard = stream!Told[k]
    BY <2>s
  <2>3. Parsed(k, s)' /\ (Delivering(k, s, b) => Delivering(k, s, b)')
    BY <1>1, <2>2 DEF Parsed, Delivering
  <2>4. Ahead(k, s, b)'
    BY <1>3, <2>2 DEF Ahead
  <2> QED
    BY <1>1, <1>3, <2>2, <2>3, <2>4
<1> QED
  BY <1>2, <1>3 DEF ParserInv

\* A chunk continues what is in the buffer.
LEMMA ChunkStep ==
  ASSUME ParserInv, HeardInv, NEW n \in 1..Len(X), stream!ChunkArrives(n)
  PROVE  ParserInv' /\ HeardInv'
<1>1. /\ phase = "reading" /\ phase' = "read"
      /\ received' = received + n /\ received' <= Len(X)
      /\ chunk' = SubSeq(X, received + 1, received + n)
      /\ UNCHANGED <<buffer, lines, eventType, eventId, eventData, calls>>
  BY DEF stream!ChunkArrives, stream!parser, X
<1>2. stream!Heard' = stream!Heard
  BY <1>1 DEF stream!Heard
<1>3. received \in Nat /\ received + n \in Nat /\ received + n <= Len(X) /\ X \in Seq(Tokens) /\ Len(X) \in Nat
      /\ n \in Nat
  <2>1. Len(Sent) \in 0..Len(Sent)
    BY SentTyped
  <2>2. X \in Seq(Tokens)
    BY <2>1, StreamGrows DEF X, stream!Stream
  <2> QED
    BY <1>1, <2>2 DEF HeardInv
<1>4. HeardInv'
  <2>1. \A k \in 0..Len(Sent) : Upto(k) \in Nat
    BY StreamGrows, SentTyped
  <2>2. PICK k \in 0..Len(Sent) : stream!Heard = stream!Told[k] /\ Upto(k) <= received
    BY DEF HeardInv
  <2>3. Upto(k) <= received'
    BY <1>1, <1>3, <2>1, <2>2
  <2>4. received' \in 0..Len(X)
    BY <1>1, <1>3
  <2> QED
    BY <1>1, <1>2, <2>2, <2>3, <2>4 DEF HeardInv
<1>5. PICK k \in 0..Len(Sent) : \E s \in Stages(k) : \E b :
         Parsed(k, s) /\ Ahead(k, s, b) /\ stream!Heard = stream!Told[k]
  BY <1>1 DEF ParserInv
<1>s. PICK s \in Stages(k) : \E b :
         Parsed(k, s) /\ Ahead(k, s, b) /\ stream!Heard = stream!Told[k]
  BY <1>5
<1>6. PICK b : s \in Stages(k) /\ Parsed(k, s) /\ Ahead(k, s, b) /\ stream!Heard = stream!Told[k]
  BY <1>s
<1>7. Parsed(k, s)'
  BY <1>1, <1>6 DEF Parsed
<1>8. chunk = <<>> /\ Len(chunk) = 0 /\ lines = <<>>
  BY <1>1, <1>6 DEF Ahead
<1>9. chunk' \in Seq(Tokens) /\ Len(chunk') = n /\ \A i \in 1..n : chunk'[i] = X[received + i]
  <2>1. Len(SubSeq(X, received + 1, received + n)) = n
    BY <1>3
  <2>2. SubSeq(X, received + 1, received + n) \in Seq(Tokens)
    BY <1>3
  <2>3. ASSUME NEW i \in 1..n PROVE SubSeq(X, received + 1, received + n)[i] = X[received + i]
    BY <1>3
  <2> QED
    BY <1>1, <2>1, <2>2, <2>3
<1>10. received - Len(chunk) = received /\ received' - Len(chunk') = received
  BY <1>1, <1>3, <1>8, <1>9
<1>11. Piece(chunk', received, received')
  BY <1>1, <1>3, <1>9 DEF Piece
<1>12. Ahead(k, s, b)'
  <2>1. Cut(lines, b, At(k, s), received) /\ Piece(buffer, b[Len(lines)], received)
    BY <1>6, <1>10 DEF Ahead
  <2>2. Cut(lines', b, At(k, s), received' - Len(chunk')) /\ Piece(buffer', b[Len(lines')], received' - Len(chunk'))
    BY <1>1, <1>10, <2>1
  <2>3. Piece(chunk', received' - Len(chunk'), received')
    BY <1>10, <1>11
  <2> QED
    BY <1>1, <1>8, <2>2, <2>3 DEF Ahead
<1>13. ParserInv'
  BY <1>1, <1>2, <1>6, <1>7, <1>12 DEF ParserInv
<1> QED
  BY <1>4, <1>13

\* It is split into lines.
LEMMA SplitStep ==
  ASSUME ParserInv, HeardInv, stream!SplitLines
  PROVE  ParserInv' /\ HeardInv'
<1> DEFINE text == buffer \o chunk
<1>1. /\ phase = "read" /\ phase' = "lines"
      /\ lines' = stream!WholeLines(text)[Len(text)]
      /\ buffer' = stream!OpenLine(text)[Len(text)]
      /\ chunk' = <<>>
      /\ UNCHANGED <<received, eventType, eventId, eventData, calls>>
  BY DEF stream!SplitLines
<1>2. stream!Heard' = stream!Heard
  BY <1>1 DEF stream!Heard
<1>3. HeardInv'
  BY <1>1, <1>2 DEF HeardInv
<1>4. PICK k \in 0..Len(Sent) : \E s \in Stages(k) : \E b :
         Parsed(k, s) /\ Ahead(k, s, b) /\ stream!Heard = stream!Told[k]
  BY <1>1 DEF ParserInv
<1>s. PICK s \in Stages(k) : \E b :
         Parsed(k, s) /\ Ahead(k, s, b) /\ stream!Heard = stream!Told[k]
  BY <1>4
<1>5. PICK b : s \in Stages(k) /\ Parsed(k, s) /\ Ahead(k, s, b) /\ stream!Heard = stream!Told[k]
  BY <1>s
<1>6. Parsed(k, s)'
  BY <1>1, <1>5 DEF Parsed
<1>7. /\ lines = <<>> /\ Len(lines) = 0
      /\ Piece(buffer, At(k, s), received - Len(chunk))
      /\ Piece(chunk, received - Len(chunk), received)
  <2>1. lines = <<>> /\ Len(lines) = 0
    BY <1>1, <1>5 DEF Ahead
  <2>2. b[0] = At(k, s) /\ Piece(buffer, b[Len(lines)], received - Len(chunk))
        /\ Piece(chunk, received - Len(chunk), received)
    BY <1>5 DEF Ahead, Cut
  <2> QED
    BY <2>1, <2>2
<1>8. Piece(text, At(k, s), received)
  <2> DEFINE p == At(k, s)  q == received - Len(chunk)
  <2>1. /\ buffer \in Seq(Tokens) /\ chunk \in Seq(Tokens) /\ p \in Nat /\ q \in Nat /\ received \in Nat
        /\ q = p + Len(buffer) /\ received = q + Len(chunk)
        /\ \A i \in 1..Len(buffer) : X[p + i] = buffer[i]
        /\ \A i \in 1..Len(chunk) : X[q + i] = chunk[i]
    BY <1>7 DEF Piece
  <2> HIDE DEF p, q
  <2>2. text \in Seq(Tokens) /\ Len(text) = Len(buffer) + Len(chunk) /\ \A i \in 1..Len(buffer) : text[i] = buffer[i]
    BY <2>1, Concat
  <2>3. ASSUME NEW i \in 1..Len(chunk) PROVE text[Len(buffer) + i] = chunk[i]
    BY <2>1, Concat
  <2>4. Len(buffer) \in Nat /\ Len(chunk) \in Nat
    BY <2>1
  <2> HIDE DEF text
  <2>5. ASSUME NEW i \in 1..Len(text) PROVE X[p + i] = text[i]
    <3>1. CASE i <= Len(buffer)
      BY <2>1, <2>2, <2>4, <3>1
    <3>2. CASE ~(i <= Len(buffer))
      <4> DEFINE j == i - Len(buffer)
      <4>1. j \in 1..Len(chunk) /\ i = Len(buffer) + j /\ p + i = q + j
        BY <2>1, <2>2, <2>4, <3>2
      <4> QED
        BY <2>1, <2>3, <4>1
    <3> QED
      BY <3>1, <3>2
  <2>6. received = p + Len(text)
    BY <2>1, <2>2, <2>4
  <2> QED
    BY <2>1, <2>2, <2>5, <2>6 DEF Piece, p
<1> HIDE DEF text
<1>9. SplitOf(lines', buffer', At(k, s), received)
  BY <1>1, <1>8, Splits
<1>10. PICK c : Cut(lines', c, At(k, s), received) /\ Piece(buffer', c[Len(lines')], received)
                /\ NoBreak(c[Len(lines')], received)
  BY <1>9 DEF SplitOf
<1>11. received' = received /\ Len(chunk') = 0 /\ received' - Len(chunk') = received
  BY <1>1 DEF HeardInv
<1>12. Piece(chunk', received, received')
  <2>1. <<>> \in Seq(Tokens) /\ received \in Nat
    BY DEF HeardInv
  <2> QED
    BY <1>1, <1>11, <2>1 DEF Piece
<1>13. Ahead(k, s, c)'
  BY <1>1, <1>10, <1>11, <1>12 DEF Ahead
<1> QED
  BY <1>1, <1>2, <1>3, <1>5, <1>6, <1>13 DEF ParserInv

\* One element more.
LEMMA AppendOne ==
  ASSUME NEW S, NEW s \in Seq(S), NEW x
  PROVE  /\ Append(s, x) \in Seq(S \cup {x})
         /\ s \in Seq(S \cup {x})
         /\ Len(Append(s, x)) = Len(s) + 1
         /\ \A i \in 1..Len(s) : Append(s, x)[i] = s[i]
         /\ Append(s, x)[Len(s) + 1] = x
         /\ Len(s) \in Nat
<1> DEFINE T == S \cup {x}
<1>1. s \in Seq(T) /\ x \in T /\ Len(s) \in Nat
  OBVIOUS
<1> QED
  BY <1>1

\* One more call of the handler.
LEMMA CallsLonger ==
  ASSUME NEW C, NEW cs \in Seq(C), NEW x
  PROVE  LET ds == Append(cs, x)
         IN  /\ ds \in Seq(C \cup {x})
             /\ stream!FirstCalls(ds)[Len(ds)] =
                  IF x.again THEN stream!FirstCalls(cs)[Len(cs)]
                  ELSE Append(stream!FirstCalls(cs)[Len(cs)], x)
<1> DEFINE ds == Append(cs, x)
           D == C \cup {x}
           N == Len(cs)
           f == stream!FirstCalls(cs)
           g == stream!FirstCalls(ds)
           Good == {i \in 0..N : g[i] = f[i]}
<1>1. cs \in Seq(D) /\ ds \in Seq(D) /\ N \in Nat /\ Len(ds) = N + 1 /\ ds[N + 1] = x
      /\ \A i \in 1..N : ds[i] = cs[i]
  BY AppendOne
<1>2. f[0] = <<>> /\ \A i \in 1..N : f[i] = IF cs[i].again THEN f[i - 1] ELSE Append(f[i - 1], cs[i])
  BY <1>1, FirstCallsEquation
<1>3. g[0] = <<>> /\ \A i \in 1..(N + 1) : g[i] = IF ds[i].again THEN g[i - 1] ELSE Append(g[i - 1], ds[i])
  <2>1. /\ g[0] = <<>>
        /\ \A i \in 1..Len(ds) : g[i] = IF ds[i].again THEN g[i - 1] ELSE Append(g[i - 1], ds[i])
    BY <1>1, FirstCallsEquation
  <2> QED
    BY <1>1, <2>1
<1> HIDE DEF ds, D, N, f, g
<1>4. 0 \in Good
  BY <1>1, <1>2, <1>3
<1>5. ASSUME NEW i \in 1..N, i - 1 \in Good PROVE i \in Good
  <2>1. g[i - 1] = f[i - 1] /\ i \in 1..(N + 1) /\ i \in 0..N
    BY <1>1, <1>5
  <2> QED
    BY <1>1, <1>2, <1>3, <2>1
<1> HIDE DEF Good
<1>6. g[N] = f[N]
  <2>1. N \in Nat /\ N \in 0..N
    BY <1>1
  <2>2. 0..N \subseteq Good
    BY <1>4, <1>5, <2>1, CountInduction
  <2> QED
    BY <2>1, <2>2 DEF Good
<1>7. g[N + 1] = IF x.again THEN f[N] ELSE Append(f[N], x)
  <2>1. N + 1 \in 1..(N + 1) /\ (N + 1) - 1 = N
    BY <1>1
  <2> QED
    BY <1>1, <1>3, <1>6, <2>1
<1> QED
  BY <1>1, <1>7 DEF ds, D, N, f, g

\* The lines without the first.
LEMMA TailCut ==
  ASSUME NEW ls, NEW b, NEW from, NEW to, Cut(ls, b, from, to), ls # <<>>
  PROVE  \E c : Cut(Tail(ls), c, b[1], to) /\ c[Len(Tail(ls))] = b[Len(ls)]
<1> DEFINE n == Len(ls)
           ms == Tail(ls)
           c == [j \in 0..(n - 1) |-> b[j + 1]]
<1>1. /\ to \in Nat /\ ls \in Seq(Seq(Tokens)) /\ b \in [0..n -> Nat] /\ b[n] <= to
      /\ \A j \in 1..n :
           /\ b[j - 1] < b[j] /\ b[j] <= to
           /\ Piece(ls[j], b[j - 1], b[j] - 1)
           /\ NoBreak(b[j - 1], b[j] - 1)
           /\ X[b[j]] = NL
  BY DEF Cut
<1>2. n \in Nat /\ n - 1 \in Nat
  BY <1>1
<1>3. ms \in Seq(Seq(Tokens)) /\ Len(ms) = n - 1 /\ \A j \in 1..(n - 1) : ms[j] = ls[j + 1]
  BY <1>1
<1>4. c \in [0..(n - 1) -> Nat] /\ \A j \in 0..(n - 1) : c[j] = b[j + 1]
  BY <1>1, <1>2
<1> HIDE DEF n, ms, c
<1>5. ASSUME NEW j \in 1..(n - 1)
      PROVE  /\ c[j - 1] < c[j] /\ c[j] <= to
             /\ Piece(ms[j], c[j - 1], c[j] - 1)
             /\ NoBreak(c[j - 1], c[j] - 1)
             /\ X[c[j]] = NL
  <2>1. j \in 0..(n - 1) /\ j - 1 \in 0..(n - 1) /\ j + 1 \in 1..n /\ (j - 1) + 1 = j /\ (j + 1) - 1 = j
    BY <1>2
  <2>2. c[j] = b[j + 1] /\ c[j - 1] = b[j] /\ ms[j] = ls[j + 1]
    BY <1>3, <1>4, <2>1
  <2>3. /\ b[(j + 1) - 1] < b[j + 1] /\ b[j + 1] <= to
        /\ Piece(ls[j + 1], b[(j + 1) - 1], b[j + 1] - 1)
        /\ NoBreak(b[(j + 1) - 1], b[j + 1] - 1)
        /\ X[b[j + 1]] = NL
    BY <1>1, <2>1, Zenon
  <2> QED
    BY <2>1, <2>2, <2>3
<1>6. c[0] = b[1] /\ b[1] \in Nat /\ c[n - 1] = b[n]
  <2>1. 0 \in 0..(n - 1) /\ n - 1 \in 0..(n - 1) /\ (n - 1) + 1 = n /\ 0 + 1 = 1 /\ 1 \in 0..n
    BY <1>2
  <2> QED
    BY <1>1, <1>4, <2>1
<1>7. Cut(ms, c, b[1], to)
  BY <1>1, <1>3, <1>4, <1>5, <1>6 DEF Cut
<1> QED
  BY <1>3, <1>6, <1>7 DEF ms, n

\* What is behind the first line.
LEMMA TailAhead ==
  ASSUME NEW k \in 0..Len(Sent), NEW s \in Stages(k), NEW b, Ahead(k, s, b), phase \in {"lines", "handling"},
         lines # <<>>, NEW l \in 0..Len(Sent), NEW r, b[1] = At(l, r),
         lines' = Tail(lines), phase' = "lines", UNCHANGED <<buffer, chunk, received>>
  PROVE  \E c : Ahead(l, r, c)'
<1>1. PICK c : Cut(Tail(lines), c, b[1], received - Len(chunk)) /\ c[Len(Tail(lines))] = b[Len(lines)]
  BY TailCut DEF Ahead
<1>2. Ahead(l, r, c)'
  BY <1>1 DEF Ahead
<1> QED
  BY <1>2

\* A field is read.
LEMMA FieldStep ==
  ASSUME ParserInv, HeardInv, stream!FieldLine
  PROVE  ParserInv' /\ HeardInv'
<1> DEFINE name == lines[1][1]  value == Tail(lines[1])
<1>1. /\ phase = "lines" /\ phase' = "lines"
      /\ lines # <<>> /\ lines[1] # <<>> /\ lines' = Tail(lines)
      /\ eventType' = IF name = "event:" THEN value ELSE eventType
      /\ eventId' = IF name = "id:" THEN value ELSE eventId
      /\ eventData' = IF name # "data:" THEN eventData
                      ELSE IF eventData = <<>> THEN value
                      ELSE eventData \o <<NL>> \o value
      /\ UNCHANGED <<received, chunk, buffer, calls>>
  BY DEF stream!FieldLine, NL
<1>2. stream!Heard' = stream!Heard
  BY <1>1 DEF stream!Heard
<1>3. HeardInv'
  BY <1>1, <1>2 DEF HeardInv
<1>4. PICK k \in 0..Len(Sent) : \E s \in Stages(k) : \E b :
         Parsed(k, s) /\ Ahead(k, s, b) /\ stream!Heard = stream!Told[k]
  BY <1>1 DEF ParserInv
<1>s. PICK s \in Stages(k) : \E b :
         Parsed(k, s) /\ Ahead(k, s, b) /\ stream!Heard = stream!Told[k]
  BY <1>4
<1>5. PICK b : s \in Stages(k) /\ Parsed(k, s) /\ Ahead(k, s, b) /\ stream!Heard = stream!Told[k]
  BY <1>s
<1>6. /\ Cut(lines, b, At(k, s), received) /\ received <= Len(X)
  <2>1. chunk = <<>> /\ Len(chunk) = 0
    BY <1>1, <1>5 DEF Ahead
  <2>2. received \in Nat /\ received <= Len(X)
    BY DEF HeardInv
  <2> QED
    BY <1>5, <2>1, <2>2 DEF Ahead
<1> DEFINE e == Sent[k + 1]
           n == Len(Sent[k + 1].data) + 2
<1>7. k < Len(Sent)
  BY <1>1, <1>5, <1>6, NextLine
<1>8. PICK r \in Stages(k) :
        /\ At(k, r) = At(k, s) /\ Parsed(k, r)
        /\ r < n /\ lines[1] = Line(e, r + 1) /\ b[1] = At(k, r + 1)
  BY <1>1, <1>5, <1>6, NextLine
<1>9. e \in SentEvents /\ n \in Nat /\ r \in Nat /\ r + 1 \in 1..n /\ r + 1 \in Stages(k)
  <2>1. e \in SentEvents /\ n \in Nat
    BY <1>7, StreamLines
  <2>2. Stages(k) = 0..n
    BY <1>7, SentTyped DEF Stages
  <2> QED
    BY <1>8, <2>1, <2>2
<1>10. /\ Line(e, r + 1) \in Seq(Tokens) /\ Line(e, r + 1) # <<>>
       /\ \/ r = 0 /\ Head(Line(e, r + 1)) = "event:" /\ Tail(Line(e, r + 1)) = e.type
          \/ r = 1 /\ Head(Line(e, r + 1)) = "id:" /\ Tail(Line(e, r + 1)) = e.id
          \/ r > 1 /\ Head(Line(e, r + 1)) = "data:" /\ Tail(Line(e, r + 1)) = <<e.data[(r + 1) - 2]>>
  <2> DEFINE q == r + 1
  <2>1. q \in 1..n /\ Line(e, q) # <<>> /\ (q = 1 => r = 0) /\ (q = 2 => r = 1) /\ (q > 2 => r > 1)
    BY <1>1, <1>8, <1>9
  <2> HIDE DEF q
  <2>2. /\ Line(e, q) \in Seq(Tokens)
        /\ \/ q = 1 /\ Head(Line(e, q)) = "event:" /\ Tail(Line(e, q)) = e.type
           \/ q = 2 /\ Head(Line(e, q)) = "id:" /\ Tail(Line(e, q)) = e.id
           \/ q > 2 /\ Head(Line(e, q)) = "data:" /\ Tail(Line(e, q)) = <<e.data[q - 2]>>
    BY <1>9, <2>1, LineTokens
  <2> QED
    BY <2>1, <2>2 DEF q
<1>11. /\ \/ r = 0 /\ name = "event:" /\ value = e.type
          \/ r = 1 /\ name = "id:" /\ value = e.id
          \/ r > 1 /\ name = "data:" /\ value = <<e.data[r - 1]>>
  <2>1. name = Head(Line(e, r + 1))
    BY <1>8, <1>10
  <2>2. (r + 1) - 2 = r - 1
    BY <1>9
  <2> QED
    BY <1>8, <1>10, <2>1, <2>2
<1> HIDE DEF name, value, e, n
<1>12. /\ eventType = IF r = 0 THEN <<>> ELSE e.type
       /\ eventId = IF r \in {0, 1} THEN <<>> ELSE e.id
       /\ eventData = IF r \in {0, 1, 2} THEN <<>> ELSE stream!Joined(e)[r - 2]
  BY <1>8 DEF Parsed, e
<1>13. /\ eventType' = e.type
       /\ eventId' = IF r = 0 THEN <<>> ELSE e.id
       /\ eventData' = IF r \in {0, 1} THEN <<>> ELSE stream!Joined(e)[r - 1]
  <2>1. CASE r = 0 \/ r = 1
    BY <1>1, <1>9, <1>11, <1>12, <2>1
  <2>2. CASE r > 1
    <3> DEFINE m == r - 1
    <3>1. m \in 1..Len(e.data) /\ m \in Nat /\ r = m + 1 /\ r - 2 = m - 1
      BY <1>8, <1>9, <2>2 DEF n, e
    <3>2. stream!Joined(e)[m] = IF m = 1 THEN <<e.data[1]>> ELSE stream!Joined(e)[m - 1] \o <<NL, e.data[m]>>
      BY <1>9, <3>1, JoinedEquation
    <3>3. value = <<e.data[m]>> /\ name = "data:"
      BY <1>9, <1>11, <2>2
    <3> HIDE DEF m
    <3>4. CASE m = 1
      <4>1. eventData = <<>> /\ r = 2
        BY <1>12, <3>1, <3>4
      <4>2. eventData' = <<e.data[1]>>
        BY <1>1, <3>3, <3>4, <4>1
      <4> QED
        BY <1>1, <1>12, <3>2, <3>3, <3>4, <4>1, <4>2 DEF m
    <3>5. CASE m # 1
      <4>1. m - 1 \in 1..Len(e.data) /\ r \notin {0, 1, 2}
        BY <1>9, <3>1, <3>5 DEF SentEvents
      <4>2. eventData = stream!Joined(e)[m - 1]
        BY <1>12, <3>1, <4>1
      <4>3. eventData # <<>> /\ eventData \in Seq(Tokens)
        BY <1>9, <4>1, <4>2, JoinedNotEmpty
      <4>4. eventData' = eventData \o <<NL>> \o <<e.data[m]>>
        BY <1>1, <3>3, <4>3
      <4>5. e.data[m] \in Tokens /\ NL \in Tokens
        BY <1>9, <3>1 DEF SentEvents, Tokens
      <4>6. ASSUME NEW d \in Seq(Tokens), NEW v \in Tokens
            PROVE  d \o <<NL>> \o <<v>> = d \o <<NL, v>>
        BY <4>5, <4>6, SMTT(30)
      <4>7. eventData' = eventData \o <<NL, e.data[m]>>
        BY <4>3, <4>4, <4>5, <4>6
      <4>8. eventData' = stream!Joined(e)[m]
        BY <3>2, <3>5, <4>2, <4>7
      <4> QED
        BY <1>1, <1>12, <3>1, <3>3, <4>1, <4>8 DEF m
    <3> QED
      BY <3>4, <3>5
  <2> QED
    BY <1>9, <2>1, <2>2
<1>14. Parsed(k, r + 1)'
  <2>1. /\ (r + 1) # 0 /\ (r + 1 \in {0, 1} <=> r = 0) /\ (r + 1 \in {0, 1, 2} <=> r \in {0, 1})
        /\ (r + 1) - 2 = r - 1
    BY <1>9
  <2> QED
    BY <1>13, <2>1 DEF Parsed, e
<1>15. PICK c : Ahead(k, r + 1, c)'
  BY <1>1, <1>5, <1>8, TailAhead
<1> QED
  BY <1>1, <1>2, <1>3, <1>5, <1>9, <1>14, <1>15 DEF ParserInv

\* At an empty line an event is complete.
LEMMA EventEnds ==
  ASSUME NEW k \in 0..Len(Sent), NEW s \in Stages(k), NEW b, Parsed(k, s), Ahead(k, s, b), HeardInv,
         phase = "lines", lines # <<>>, lines[1] = <<>>
  PROVE  LET e == Sent[k + 1]  n == Len(e.data) + 2
         IN  /\ k < Len(Sent) /\ e \in SentEvents /\ n \in Stages(k)
             /\ k + 1 \in 1..Len(Sent) /\ (k + 1) - 1 = k /\ k + 1 \in 0..Len(Sent)
             /\ Parsed(k, n) /\ At(k, n) = At(k, s) /\ b[1] = Upto(k + 1)
             /\ Upto(k + 1) <= received /\ received \in Nat
             /\ eventType = e.type /\ eventId = e.id
             /\ eventData = stream!Joined(e)[Len(e.data)]
             /\ eventData = <<>> <=> e.data = <<>>
<1> DEFINE e == Sent[k + 1]
           n == Len(Sent[k + 1].data) + 2
<1>1. Cut(lines, b, At(k, s), received) /\ received <= Len(X) /\ received \in Nat
  <2>1. chunk = <<>> /\ Len(chunk) = 0
    BY DEF Ahead
  <2>2. received \in Nat /\ received <= Len(X)
    BY DEF HeardInv
  <2> QED
    BY <2>1, <2>2 DEF Ahead
<1>2. k < Len(Sent)
  BY <1>1, NextLine
<1>3. PICK r \in Stages(k) : At(k, r) = At(k, s) /\ Parsed(k, r) /\ r = n /\ b[1] = Upto(k + 1)
  BY <1>1, NextLine
<1>4. e \in SentEvents /\ n \in Nat /\ k + 1 \in 1..Len(Sent) /\ (k + 1) - 1 = k /\ k + 1 \in 0..Len(Sent)
  <2>1. e \in SentEvents /\ n \in Nat
    BY <1>2, StreamLines
  <2> QED
    BY <1>2, <2>1, SentTyped
<1>5. Upto(k + 1) <= received
  <2>1. 1 \in 1..Len(lines)
    BY <1>1 DEF Cut
  <2>2. b[1] <= received
    BY <1>1, <2>1 DEF Cut
  <2> QED
    BY <1>3, <2>2
<1>6. Len(e.data) \in Nat /\ e.data \in Seq(Values)
  BY <1>4 DEF SentEvents
<1> HIDE DEF e
<1>7. n \notin {0, 1} /\ n - 2 = Len(e.data) /\ (n = 2 <=> Len(e.data) = 0)
  BY <1>6 DEF e
<1> HIDE DEF n
<1>8. /\ eventType = e.type /\ eventId = e.id
      /\ eventData = IF n = 2 THEN <<>> ELSE stream!Joined(e)[n - 2]
  BY <1>3, <1>7 DEF Parsed, e
<1>9. /\ eventData = stream!Joined(e)[Len(e.data)]
      /\ eventData = <<>> <=> e.data = <<>>
  <2>1. stream!Joined(e)[0] = <<>>
    BY <1>4, JoinedEquation
  <2>2. CASE Len(e.data) = 0
    BY <1>6, <1>7, <1>8, <2>1, <2>2
  <2>3. CASE Len(e.data) # 0
    <3>1. Len(e.data) \in 1..Len(e.data) /\ e.data # <<>>
      BY <1>6, <2>3
    <3>2. stream!Joined(e)[Len(e.data)] # <<>>
      BY <1>4, <3>1, JoinedNotEmpty
    <3> QED
      BY <1>7, <1>8, <2>3, <3>1, <3>2
  <2> QED
    BY <2>2, <2>3
<1> QED
  BY <1>1, <1>2, <1>3, <1>4, <1>5, <1>8, <1>9 DEF n, e

\* The handler is called for an event that is complete.
LEMMA CallStep ==
  ASSUME ParserInv, HeardInv, stream!CallHandler
  PROVE  ParserInv' /\ HeardInv'
<1> DEFINE v == stream!Event(eventData, ~stream!Parses(eventData), FALSE)
<1>1. /\ phase = "lines" /\ phase' = "handling"
      /\ lines # <<>> /\ lines[1] = <<>> /\ eventData # <<>>
      /\ calls' = Append(calls, v)
      /\ UNCHANGED <<received, chunk, buffer, lines, eventType, eventId, eventData>>
  BY DEF stream!CallHandler, stream!parser
<1>2. PICK k \in 0..Len(Sent) : \E s \in Stages(k) : \E b :
         Parsed(k, s) /\ Ahead(k, s, b) /\ stream!Heard = stream!Told[k]
  BY <1>1 DEF ParserInv
<1>s. PICK s \in Stages(k) : \E b :
         Parsed(k, s) /\ Ahead(k, s, b) /\ stream!Heard = stream!Told[k]
  BY <1>2
<1>3. PICK b : s \in Stages(k) /\ Parsed(k, s) /\ Ahead(k, s, b) /\ stream!Heard = stream!Told[k]
  BY <1>s
<1> DEFINE e == Sent[k + 1]
           n == Len(e.data) + 2
<1>4. /\ k < Len(Sent) /\ e \in SentEvents /\ n \in Stages(k)
      /\ k + 1 \in 1..Len(Sent) /\ (k + 1) - 1 = k /\ k + 1 \in 0..Len(Sent)
      /\ Parsed(k, n) /\ At(k, n) = At(k, s) /\ b[1] = Upto(k + 1)
      /\ Upto(k + 1) <= received /\ received \in Nat
      /\ eventType = e.type /\ eventId = e.id
      /\ eventData = stream!Joined(e)[Len(e.data)]
      /\ eventData = <<>> <=> e.data = <<>>
  BY <1>1, <1>3, EventEnds
<1>5. v = stream!SSEEvent(e) /\ ~v.again
  BY <1>4 DEF stream!Event, stream!SSEEvent
<1>6. stream!Told[k + 1] = Append(stream!Told[k], v)
  <2>1. stream!Told[k + 1] =
          IF Sent[k + 1].data = <<>> THEN stream!Told[(k + 1) - 1]
          ELSE Append(stream!Told[(k + 1) - 1], stream!SSEEvent(Sent[k + 1]))
    BY <1>4, ToldEquation
  <2>2. Sent[k + 1].data # <<>>
    BY <1>1, <1>4
  <2> QED
    BY <1>4, <1>5, <2>1, <2>2
<1> HIDE DEF v, n, e
<1>7. PICK C : calls \in Seq(C)
  BY DEF HeardInv
<1>8. calls' \in Seq(C \cup {v}) /\ stream!Heard' = Append(stream!Heard, v)
  <2>1. stream!FirstCalls(Append(calls, v))[Len(Append(calls, v))] = Append(stream!FirstCalls(calls)[Len(calls)], v)
    BY <1>5, <1>7, CallsLonger
  <2>2. Append(calls, v) \in Seq(C \cup {v})
    BY <1>7, CallsLonger
  <2>3. stream!Heard = stream!FirstCalls(calls)[Len(calls)]
    BY DEF stream!Heard
  <2>4. stream!Heard' = stream!FirstCalls(Append(calls, v))[Len(Append(calls, v))]
    BY <1>1 DEF stream!Heard
  <2> QED
    BY <1>1, <2>1, <2>2, <2>3, <2>4
<1>9. stream!Heard' = stream!Told[k + 1]
  BY <1>3, <1>6, <1>8
<1>10. HeardInv'
  <2>1. received' \in 0..Len(X) /\ Upto(k + 1) <= received'
    BY <1>1, <1>4 DEF HeardInv
  <2> QED
    BY <1>4, <1>8, <1>9, <2>1 DEF HeardInv
<1>11. Parsed(k, n)' /\ Delivering(k, n, b)'
  BY <1>1, <1>4, <1>9 DEF Parsed, Delivering, n, e
<1>12. Ahead(k, n, b)'
  BY <1>1, <1>3, <1>4 DEF Ahead
<1> QED
  BY <1>1, <1>4, <1>10, <1>11, <1>12 DEF ParserInv

\* The next event begins.
LEMMA NextEvent ==
  ASSUME NEW k \in 0..Len(Sent), NEW s \in Stages(k), NEW b, Ahead(k, s, b), phase \in {"lines", "handling"},
         lines # <<>>, k < Len(Sent), b[1] = Upto(k + 1), stream!Heard = stream!Told[k + 1],
         stream!ResetEvent, phase' = "lines", UNCHANGED <<received, chunk, buffer, calls>>
  PROVE  ParserInv'
<1>1. stream!Heard' = stream!Told[k + 1]
  BY DEF stream!Heard
<1>2. k + 1 \in 0..Len(Sent)
  BY SentTyped
<1>3. 0 \in Stages(k + 1)
  <2>1. CASE k + 1 = Len(Sent)
    BY <2>1 DEF Stages
  <2>2. CASE k + 1 # Len(Sent)
    <3>1. (k + 1) + 1 \in 1..Len(Sent)
      BY <1>2, <2>2, SentTyped
    <3>2. Sent[(k + 1) + 1] \in SentEvents
      BY <3>1, SentTyped
    <3>3. Len(Sent[(k + 1) + 1].data) \in Nat
      BY <3>2 DEF SentEvents
    <3> QED
      BY <2>2, <3>3 DEF Stages
  <2> QED
    BY <2>1, <2>2
<1>4. At(k + 1, 0) = Upto(k + 1)
  BY <1>2, <1>3, StreamLines
<1>5. lines' = Tail(lines) /\ Parsed(k + 1, 0)'
  BY DEF stream!ResetEvent, Parsed
<1>6. PICK c : Ahead(k + 1, 0, c)'
  BY <1>2, <1>4, <1>5, TailAhead
<1> QED
  BY <1>1, <1>2, <1>3, <1>5, <1>6 DEF ParserInv

\* An event without data is passed over.
LEMMA EmptyStep ==
  ASSUME ParserInv, HeardInv, stream!EmptyEvent
  PROVE  ParserInv' /\ HeardInv'
<1>1. /\ phase = "lines" /\ phase' = "lines"
      /\ lines # <<>> /\ lines[1] = <<>> /\ eventData = <<>>
      /\ stream!ResetEvent
      /\ UNCHANGED <<received, chunk, buffer, calls>>
  BY DEF stream!EmptyEvent
<1>2. PICK k \in 0..Len(Sent) : \E s \in Stages(k) : \E b :
         Parsed(k, s) /\ Ahead(k, s, b) /\ stream!Heard = stream!Told[k]
  BY <1>1 DEF ParserInv
<1>s. PICK s \in Stages(k) : \E b :
         Parsed(k, s) /\ Ahead(k, s, b) /\ stream!Heard = stream!Told[k]
  BY <1>2
<1>3. PICK b : s \in Stages(k) /\ Parsed(k, s) /\ Ahead(k, s, b) /\ stream!Heard = stream!Told[k]
  BY <1>s
<1>4. /\ k < Len(Sent) /\ k + 1 \in 1..Len(Sent) /\ (k + 1) - 1 = k
      /\ b[1] = Upto(k + 1) /\ Sent[k + 1].data = <<>>
  BY <1>1, <1>3, EventEnds
<1>5. stream!Told[k + 1] = stream!Told[k]
  <2>1. stream!Told[k + 1] =
          IF Sent[k + 1].data = <<>> THEN stream!Told[(k + 1) - 1]
          ELSE Append(stream!Told[(k + 1) - 1], stream!SSEEvent(Sent[k + 1]))
    BY <1>4, ToldEquation
  <2> QED
    BY <1>4, <2>1
<1>6. ParserInv'
  BY <1>1, <1>3, <1>4, <1>5, NextEvent
<1>7. HeardInv'
  <2>1. stream!Heard' = stream!Heard
    BY <1>1 DEF stream!Heard
  <2> QED
    BY <1>1, <2>1 DEF HeardInv
<1> QED
  BY <1>6, <1>7

\* The handler returns.
LEMMA ReturnStep ==
  ASSUME ParserInv, HeardInv, stream!HandlerReturns
  PROVE  ParserInv' /\ HeardInv'
<1>1. /\ phase = "handling" /\ phase' = "lines"
      /\ stream!ResetEvent
      /\ UNCHANGED <<received, chunk, buffer, calls>>
  BY DEF stream!HandlerReturns
<1>2. PICK k \in 0..Len(Sent) : \E s \in Stages(k) : \E b :
         Parsed(k, s) /\ Ahead(k, s, b) /\ Delivering(k, s, b)
  BY <1>1 DEF ParserInv
<1>s. PICK s \in Stages(k) : \E b :
         Parsed(k, s) /\ Ahead(k, s, b) /\ Delivering(k, s, b)
  BY <1>2
<1>3. PICK b : s \in Stages(k) /\ Parsed(k, s) /\ Ahead(k, s, b) /\ Delivering(k, s, b)
  BY <1>s
<1>4. ParserInv'
  BY <1>1, <1>3, NextEvent DEF Delivering
<1>5. HeardInv'
  <2>1. stream!Heard' = stream!Heard
    BY <1>1 DEF stream!Heard
  <2> QED
    BY <1>1, <2>1 DEF HeardInv
<1> QED
  BY <1>4, <1>5

\* The handler throws, and is called again for the same event or not any more.
LEMMA ThrowStep ==
  ASSUME ParserInv, HeardInv, stream!HandlerThrows
  PROVE  ParserInv' /\ HeardInv'
<1> DEFINE v == stream!Event(eventData, TRUE, TRUE)
<1>1. /\ phase = "handling"
      /\ UNCHANGED <<received, chunk, buffer, lines, eventType, eventId, eventData>>
      /\ \/ phase' = "closed" /\ UNCHANGED calls
         \/ calls' = Append(calls, v) /\ UNCHANGED phase
  BY DEF stream!HandlerThrows, stream!parser
<1>2. CASE phase' = "closed" /\ UNCHANGED calls
  BY <1>1, <1>2, QuietStep
<1>3. CASE calls' = Append(calls, v) /\ UNCHANGED phase
  <2>1. PICK C : calls \in Seq(C)
    BY DEF HeardInv
  <2>2. v.again
    BY DEF stream!Event
  <2> HIDE DEF v
  <2>3. Append(calls, v) \in Seq(C \cup {v})
        /\ stream!FirstCalls(Append(calls, v))[Len(Append(calls, v))] = stream!FirstCalls(calls)[Len(calls)]
    BY <2>1, <2>2, CallsLonger
  <2>4. stream!Heard' = stream!Heard /\ calls' \in Seq(C \cup {v})
    BY <1>3, <2>3 DEF stream!Heard
  <2>5. HeardInv'
    BY <1>1, <2>4 DEF HeardInv
  <2>6. PICK k \in 0..Len(Sent) : \E s \in Stages(k) : \E b :
           Parsed(k, s) /\ Ahead(k, s, b) /\ Delivering(k, s, b)
    BY <1>1 DEF ParserInv
  <2>s. PICK s \in Stages(k) : \E b :
           Parsed(k, s) /\ Ahead(k, s, b) /\ Delivering(k, s, b)
    BY <2>6
  <2>7. PICK b : s \in Stages(k) /\ Parsed(k, s) /\ Ahead(k, s, b) /\ Delivering(k, s, b)
    BY <2>s
  <2>8. Parsed(k, s)' /\ Ahead(k, s, b)' /\ Delivering(k, s, b)'
    BY <1>1, <1>3, <2>4, <2>7 DEF Parsed, Ahead, Delivering
  <2> QED
    BY <1>1, <1>3, <2>5, <2>8 DEF ParserInv
<1> QED
  BY <1>1, <1>2, <1>3

\* At the beginning nothing has been parsed.
LEMMA ParserInit == stream!Init => ParserInv /\ HeardInv
<1> SUFFICES ASSUME stream!Init PROVE ParserInv /\ HeardInv
  OBVIOUS
<1>1. /\ phase = "connecting" /\ received = 0 /\ chunk = <<>> /\ buffer = <<>> /\ lines = <<>>
      /\ eventType = <<>> /\ eventId = <<>> /\ eventData = <<>> /\ calls = <<>>
  BY DEF stream!Init
<1>2. 0 \in 0..Len(Sent) /\ Upto(0) = 0
  <2>1. stream!StreamOf[0] = <<>>
    BY StreamEquation
  <2> QED
    BY <2>1, SentTyped DEF Upto
<1>3. 0 \in Stages(0)
  <2>1. CASE Len(Sent) = 0
    BY <2>1 DEF Stages
  <2>2. CASE Len(Sent) # 0
    <3>1. 1 \in 1..Len(Sent) /\ 0 + 1 = 1
      BY <2>2, SentTyped
    <3>2. Len(Sent[0 + 1].data) \in Nat
      BY <3>1, SentTyped DEF SentEvents
    <3> QED
      BY <2>2, <3>2 DEF Stages
  <2> QED
    BY <2>1, <2>2
<1>4. At(0, 0) = 0 /\ Len(X) \in Nat
  BY <1>2, <1>3, StreamLines DEF X
<1>5. stream!Heard = stream!Told[0]
  <2>1. <<>> \in Seq({}) /\ Len(<<>>) = 0
    OBVIOUS
  <2>2. stream!FirstCalls(<<>>)[0] = <<>>
    BY <2>1, FirstCallsEquation
  <2>3. stream!Told[0] = <<>>
    BY ToldEquation
  <2> QED
    BY <1>1, <2>1, <2>2, <2>3 DEF stream!Heard
<1>6. HeardInv
  <2>1. calls \in Seq({})
    BY <1>1
  <2> QED
    BY <1>1, <1>2, <1>4, <1>5, <2>1 DEF HeardInv
<1> DEFINE b == [j \in 0..0 |-> 0]
<1>7. b \in [0..0 -> Nat] /\ b[0] = 0 /\ <<>> \in Seq(Tokens) /\ <<>> \in Seq(Seq(Tokens)) /\ Len(<<>>) = 0
  OBVIOUS
<1> HIDE DEF b
<1>8. Cut(<<>>, b, 0, 0) /\ Piece(<<>>, 0, 0) /\ NoBreak(0, 0)
  BY <1>7 DEF Cut, Piece, NoBreak
<1>9. Ahead(0, 0, b)
  BY <1>1, <1>4, <1>7, <1>8 DEF Ahead
<1>10. Parsed(0, 0)
  BY <1>1 DEF Parsed
<1> QED
  BY <1>1, <1>2, <1>3, <1>5, <1>6, <1>9, <1>10 DEF ParserInv

\* The last of the events that are within a number of tokens.
LEMMA WithinIs ==
  ASSUME NEW n \in Nat
  PROVE  /\ stream!Within(n) \in 0..Len(Sent)
         /\ \A k \in 0..Len(Sent) : Upto(k) <= n => k <= stream!Within(n)
         /\ Upto(stream!Within(n)) <= n
<1> DEFINE N == Len(Sent)
           S == {k \in 0..N : Len(stream!StreamOf[k]) <= n}
           Has(j) == \E m \in S : \A k \in S : k <= j => k <= m
           Good == {j \in 0..N : Has(j)}
<1>1. N \in Nat /\ 0 \in 0..N
  BY SentTyped
<1>2. 0 \in S
  <2>1. stream!StreamOf[0] = <<>>
    BY StreamEquation
  <2> QED
    BY <1>1, <2>1
<1>3. S \subseteq 0..N
  OBVIOUS
<1> HIDE DEF N, S
<1>4. 0 \in Good
  BY <1>1, <1>2
<1>5. ASSUME NEW j \in 1..N, j - 1 \in Good PROVE j \in Good
  <2>1. j \in 0..N /\ j \in Nat
    BY <1>1
  <2>2. CASE j \in S
    BY <2>1, <2>2
  <2>3. CASE j \notin S
    <3>1. PICK m \in S : \A k \in S : k <= j - 1 => k <= m
      BY <1>5
    <3>2. \A k \in S : k <= j => k <= j - 1
      BY <1>1, <1>3, <2>1, <2>3
    <3> QED
      BY <2>1, <3>1, <3>2
  <2> QED
    BY <2>2, <2>3
<1> HIDE DEF Good
<1>6. Has(N)
  <2>1. 0..N \subseteq Good /\ N \in 0..N
    BY <1>1, <1>4, <1>5, CountInduction
  <2> QED
    BY <2>1 DEF Good
<1>7. PICK m \in S : \A k \in S : k <= m
  BY <1>1, <1>3, <1>6
<1>8. m \in Nat /\ \A k \in S : k \in Nat
  BY <1>1, <1>3
<1>9. \A k \in S : m >= k
  BY <1>7, <1>8
<1> DEFINE w == CHOOSE x \in S : \A y \in S : x >= y
<1>10. w \in S /\ \A y \in S : w >= y
  BY <1>9
<1>11. stream!Within(n) = w
  BY DEF stream!Within, stream!Max, S, N
<1> HIDE DEF w
<1>12. \A k \in S : k <= w
  BY <1>8, <1>10
<1> QED
  BY <1>10, <1>11, <1>12 DEF S, N, Upto

\* What is told of fewer events is told first.
LEMMA ToldGrows ==
  ASSUME NEW j \in 0..Len(Sent), NEW k \in 0..j
  PROVE  stream!IsPrefix(stream!Told[k], stream!Told[j])
<1> DEFINE T == stream!Told
           Begins(s, t) == Len(s) <= Len(t) /\ \A i \in 1..Len(s) : t[i] = s[i]
           Good == {n \in 0..Len(Sent) : \A q \in 0..n : Begins(T[q], T[n])}
<1>1. Len(Sent) \in Nat
  BY SentTyped
<1>2. /\ T \in [0..Len(Sent) -> Seq(ToldOf)]
      /\ \A n \in 1..Len(Sent) :
           T[n] = IF Sent[n].data = <<>> THEN T[n - 1] ELSE Append(T[n - 1], stream!SSEEvent(Sent[n]))
  BY ToldEquation
<1> HIDE DEF T
<1>3. \A n \in 0..Len(Sent) : T[n] \in Seq(ToldOf) /\ Len(T[n]) \in Nat
  BY <1>2
<1>4. 0 \in Good
  <2>1. 0 \in 0..Len(Sent) /\ \A q \in 0..0 : q = 0
    BY <1>1
  <2> QED
    BY <1>3, <2>1
<1>5. ASSUME NEW n \in 1..Len(Sent), n - 1 \in Good PROVE n \in Good
  <2>1. n - 1 \in 0..Len(Sent) /\ n \in 0..Len(Sent) /\ n \in Nat
    BY <1>1
  <2>2. \A q \in 0..(n - 1) : Begins(T[q], T[n - 1])
    BY <1>5
  <2>3. Begins(T[n - 1], T[n])
    <3> DEFINE p == T[n - 1]  v == stream!SSEEvent(Sent[n])
    <3>1. p \in Seq(ToldOf) /\ Len(p) \in Nat
      BY <1>3, <2>1
    <3>2. T[n] = p \/ T[n] = Append(p, v)
      BY <1>2
    <3> HIDE DEF p, v
    <3>3. Len(Append(p, v)) = Len(p) + 1 /\ \A i \in 1..Len(p) : Append(p, v)[i] = p[i]
      BY <3>1, AppendOne
    <3>4. Begins(p, T[n])
      BY <3>1, <3>2, <3>3, SMTT(30)
    <3> QED
      BY <3>4 DEF p
  <2>4. ASSUME NEW q \in 0..n PROVE Begins(T[q], T[n])
    <3>1. CASE q = n
      BY <1>3, <2>1, <3>1
    <3>2. CASE q # n
      <4>1. q \in 0..(n - 1) /\ q \in 0..Len(Sent)
        BY <2>1, <3>2
      <4>2. Begins(T[q], T[n - 1])
        BY <2>2, <4>1
      <4>3. Len(T[q]) \in Nat /\ Len(T[n - 1]) \in Nat /\ Len(T[n]) \in Nat
        BY <1>3, <2>1, <4>1
      <4> QED
        BY <2>3, <4>2, <4>3
    <3> QED
      BY <3>1, <3>2
  <2> QED
    BY <2>1, <2>4
<1> HIDE DEF Good
<1>6. j \in Good
  BY <1>1, <1>4, <1>5, CountInduction
<1>7. Begins(T[k], T[j]) /\ T[k] \in Seq(ToldOf) /\ T[j] \in Seq(ToldOf)
  <2>1. k \in 0..Len(Sent)
    BY <1>1
  <2> QED
    BY <1>3, <1>6, <2>1 DEF Good
<1>8. SubSeq(T[k], 1, Len(T[k])) = SubSeq(T[j], 1, Len(T[k]))
  BY <1>7
<1> QED
  BY <1>7, <1>8 DEF stream!IsPrefix, T

\* All events that were received have been told when the next chunk is waited
\* for: the next one ends behind what was received.
LEMMA ToldAsSent == ParserInv /\ HeardInv => DeliveredAsSent
<1> SUFFICES ASSUME ParserInv, HeardInv
             PROVE  /\ stream!IsPrefix(stream!Heard, stream!Told[stream!Within(received)])
                    /\ phase = "reading" => stream!Heard = stream!Told[stream!Within(received)]
  BY DEF DeliveredAsSent, stream!DeliveredAsSent
<1> DEFINE m == stream!Within(received)
<1>1. received \in Nat /\ received <= Len(X)
  BY DEF HeardInv
<1>2. /\ m \in 0..Len(Sent) /\ Upto(m) <= received
      /\ \A k \in 0..Len(Sent) : Upto(k) <= received => k <= m
  BY <1>1, WithinIs
<1> HIDE DEF m
<1>3. stream!IsPrefix(stream!Heard, stream!Told[m])
  <2>1. PICK k \in 0..Len(Sent) : stream!Heard = stream!Told[k] /\ Upto(k) <= received
    BY DEF HeardInv
  <2>2. k \in 0..m
    BY <1>2, <2>1
  <2> QED
    BY <1>2, <2>1, <2>2, ToldGrows
<1>4. ASSUME phase = "reading" PROVE stream!Heard = stream!Told[m]
  <2>1. PICK k \in 0..Len(Sent) : \E s \in Stages(k) : \E b :
           Parsed(k, s) /\ Ahead(k, s, b) /\ stream!Heard = stream!Told[k]
    BY <1>4 DEF ParserInv
  <2>s. PICK s \in Stages(k) : \E b :
           Parsed(k, s) /\ Ahead(k, s, b) /\ stream!Heard = stream!Told[k]
    BY <2>1
  <2>2. PICK b : s \in Stages(k) /\ Parsed(k, s) /\ Ahead(k, s, b) /\ stream!Heard = stream!Told[k]
    BY <2>s
  <2>3. At(k, s) <= received /\ NoBreak(At(k, s), received)
    <3>1. lines = <<>> /\ Len(lines) = 0 /\ chunk = <<>> /\ Len(chunk) = 0 /\ NoBreak(b[Len(lines)], received)
      BY <1>4, <2>2 DEF Ahead
    <3>2. b[0] = At(k, s) /\ b[Len(lines)] <= received - Len(chunk)
      BY <2>2 DEF Ahead, Cut
    <3> QED
      BY <1>1, <3>1, <3>2
  <2>4. Upto(k) <= At(k, s) /\ At(k, s) \in Nat /\ Upto(k) \in Nat
    <3>1. Upto(k) \in Nat
      BY StreamGrows
    <3> QED
      BY <3>1, StreamLines
  <2>5. k <= m
    BY <1>1, <1>2, <2>3, <2>4
  <2>6. ~(k < m)
    <3>1. SUFFICES ASSUME k < m PROVE FALSE
      OBVIOUS
    <3> DEFINE n == Len(Sent[k + 1].data) + 2
    <3>2. k < Len(Sent) /\ k + 1 \in 0..m
      BY <1>2, <3>1, SentTyped
    <3>3. n \in Nat /\ At(k, s) < Upto(k + 1)
      BY <3>2, StreamLines
    <3>4. n \in Stages(k)
      BY <3>2, <3>3, SentTyped DEF Stages
    <3>5. At(k, n) + 1 = Upto(k + 1) /\ X[At(k, n) + 1] = NL /\ At(k, n) \in Nat
      BY <3>2, <3>4, StreamLines DEF X
    <3>6. Upto(k + 1) <= Upto(m) /\ Upto(k + 1) \in Nat /\ Upto(m) \in Nat
      BY <1>2, <3>2, StreamGrows
    <3> HIDE DEF n
    <3>7. X[Upto(k + 1)] = NL
      BY <3>5
    <3>8. Upto(k + 1) \in (At(k, s) + 1)..received
      BY <1>1, <1>2, <2>4, <3>3, <3>6
    <3> QED
      BY <2>3, <3>7, <3>8 DEF NoBreak
  <2>7. k = m
    BY <1>2, <2>5, <2>6
  <2> QED
    BY <2>2, <2>7
<1> QED
  BY <1>3, <1>4 DEF m

\* A step of the composition is one of the subscription or leaves it alone.
LEMMA ParserStep == ParserInv /\ HeardInv /\ [Next]_vars => ParserInv' /\ HeardInv'
<1> SUFFICES ASSUME ParserInv, HeardInv, [Next]_vars PROVE ParserInv' /\ HeardInv'
  OBVIOUS
<1>1. CASE UNCHANGED streamVars
  BY <1>1, QuietStep DEF streamVars
<1>2. ASSUME stream!HandlerReturns \/ stream!HandlerThrows PROVE ParserInv' /\ HeardInv'
  BY <1>2, ReturnStep, ThrowStep
<1>3. ASSUME stream!Connect \/ stream!ConnectionEnds \/ stream!ReadMore \/ stream!unsubscribe
      PROVE  ParserInv' /\ HeardInv'
  BY <1>3, QuietStep DEF stream!Connect, stream!ConnectionEnds, stream!ReadMore, stream!unsubscribe, stream!parser
<1>4. ASSUME stream!readStream PROVE ParserInv' /\ HeardInv'
  BY <1>3, <1>4, SplitStep, FieldStep, CallStep, EmptyStep DEF stream!readStream
<1>5. ASSUME NEW n \in 1..Len(stream!Stream), stream!ChunkArrives(n) PROVE ParserInv' /\ HeardInv'
  BY <1>5, ChunkStep DEF X
<1>6. CASE Next
  <2>1. CASE HandlerEnds
    BY <1>2, <2>1 DEF HandlerEnds
  <2>2. CASE StreamStep
    BY <1>3, <1>4, <1>5, <2>2 DEF StreamStep
  <2>3. CASE Unsubscribe
    BY <1>3, <2>3 DEF Unsubscribe
  <2>4. CASE Relay \/ ProgramStep \/ EmitterStep \/ Settles
    BY <1>1, <2>4 DEF Relay, ProgramStep, EmitterStep, Settles
  <2> QED
    BY <1>6, <2>1, <2>2, <2>3, <2>4 DEF Next
<1> QED
  BY <1>1, <1>6 DEF vars

\* However the stream is cut into chunks, the handler is told of its events as
\* they were sent, in order and one by one, and of all that have arrived when
\* the next chunk is waited for, whether it throws, relays or unsubscribes
\* (subscribe.ts:139-168).
THEOREM EventsAsSent == Spec => []DeliveredAsSent
<1>1. Init => ParserInv /\ HeardInv
  BY ParserInit DEF Init
<1> QED
  BY <1>1, ParserStep, ToldAsSent, PTL DEF Spec
=============================================================================
