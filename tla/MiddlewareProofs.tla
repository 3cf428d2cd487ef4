--------------------------- MODULE MiddlewareProofs ---------------------------
(***************************************************************************)
(* Proofs about the execution middleware, for any executions, any kinds of *)
(* middleware in use, chains of any length and any number of edits.        *)
(***************************************************************************)
EXTENDS Middleware, TLAPS

Waiting == {"before", "delay"}

\* The frames of execution e: none lies above index, and the handler's, once it
\* is called, lies at index.  Only the frame at index can call next() for good,
\* and the handler's never does.
Stack(e) ==
  /\ captured[e] = 0 => index[e] = -1
  /\ \A p \in Positions : p > index[e] => frames[e][p] = NoFrame
  /\ \A p \in Positions : frames[e][p].st \in Waiting => frames[e][p].mw \in {"user", "retry"}
  /\ handled[e] \in 0..1
  /\ handled[e] = 1 => index[e] \in Positions /\ frames[e][index[e]].mw = "handler"

\* The handler of execution e has resolved.
Done(e) == \E p \in Positions : frames[e][p].mw = "handler" /\ frames[e][p].st = "resolved"

\* A frame resolves only after the handler has.
Outcomes(e) == \A i \in Positions : frames[e][i].st = "resolved" => Done(e)

\* The frames of e up to index are the entries of the array it goes through.
Order(e) ==
  captured[e] # 0 /\ ~touched[e] =>
    \A i \in Positions : i <= index[e] => frames[e][i].mw = EntryAt(arrays[captured[e]], i)

\* Frame f has reported R: nothing before it settles.
Told(f, R) ==
  /\ f.st \notin Settled => R = {}
  /\ f.mw \in Observers =>
       /\ f.st = "resolved" => R = {"completed"}
       /\ "failed" \in R => f.st = "rejected"
       /\ "completed" \in R => f.st = "resolved" \/ (f.mw = "tracer" /\ f.err = "recorder")
       /\ f.st = "rejected" /\ f.err # "recorder" => R = {"failed"}

Reports(e) == \A i \in Positions : Told(frames[e][i], reported[e][i])

IInv ==
  /\ TypeOK
  /\ \A e \in Executions : Stack(e) /\ Outcomes(e) /\ Order(e) /\ Reports(e)

-----------------------------------------------------------------------------
(* Chains *)

\* A chain is a sequence of middleware in use, of bounded length.
LEMMA Chains ==
  ASSUME MiddlewareAssumption
  PROVE  \A c : c \in SeqOf(Kinds, MaxLength) <=> c \in Seq(Kinds) /\ Len(c) <= MaxLength
<1> SUFFICES ASSUME NEW c PROVE c \in SeqOf(Kinds, MaxLength) <=> c \in Seq(Kinds) /\ Len(c) <= MaxLength
  OBVIOUS
<1>1. ASSUME c \in SeqOf(Kinds, MaxLength) PROVE c \in Seq(Kinds) /\ Len(c) <= MaxLength
  <2>1. PICK m \in 0..MaxLength : c \in [1..m -> Kinds]
    BY <1>1 DEF SeqOf
  <2>2. m \in Nat
    BY MiddlewareAssumption
  <2>3. c \in Seq(Kinds)
    BY <2>1, <2>2
  <2>4. Len(c) = m
    BY <2>1, <2>2, <2>3
  <2> QED
    BY <2>1, <2>2, <2>3, <2>4, MiddlewareAssumption
<1>2. ASSUME c \in Seq(Kinds), Len(c) <= MaxLength PROVE c \in SeqOf(Kinds, MaxLength)
  <2>1. c \in [1..Len(c) -> Kinds] /\ Len(c) \in 0..MaxLength
    BY <1>2, MiddlewareAssumption
  <2> QED
    BY <2>1 DEF SeqOf
<1> QED
  BY <1>1, <1>2

\* What the edits make of a chain is a chain.
LEMMA EditedChain ==
  ASSUME MiddlewareAssumption, NEW c \in SeqOf(Kinds, MaxLength), NEW m \in Kinds
  PROVE  /\ Len(c) < MaxLength => Append(c, m) \in SeqOf(Kinds, MaxLength)
         /\ Len(c) < MaxLength => <<m>> \o c \in SeqOf(Kinds, MaxLength)
         /\ \A i \in DOMAIN c : Len(c) < MaxLength => InsertAt(c, i, m) \in SeqOf(Kinds, MaxLength)
         /\ \A i \in DOMAIN c : Len(c) < MaxLength => InsertAt(c, i + 1, m) \in SeqOf(Kinds, MaxLength)
         /\ \A i \in DOMAIN c : RemoveAt(c, i) \in SeqOf(Kinds, MaxLength)
<1>1. c \in Seq(Kinds) /\ Len(c) \in Nat /\ Len(c) <= MaxLength /\ MaxLength \in Nat
  BY MiddlewareAssumption, Chains
<1>2. ASSUME Len(c) < MaxLength PROVE Append(c, m) \in Seq(Kinds) /\ Len(Append(c, m)) <= MaxLength
  BY <1>1, <1>2
<1>3. ASSUME Len(c) < MaxLength PROVE <<m>> \o c \in Seq(Kinds) /\ Len(<<m>> \o c) <= MaxLength
  <2>1. <<m>> \in Seq(Kinds) /\ Len(<<m>>) = 1
    OBVIOUS
  <2> QED
    BY <1>1, <1>3, <2>1
<1>4. ASSUME NEW i \in 1..(Len(c) + 1), Len(c) < MaxLength
      PROVE  InsertAt(c, i, m) \in Seq(Kinds) /\ Len(InsertAt(c, i, m)) <= MaxLength
  <2> DEFINE before == SubSeq(c, 1, i - 1)
             after  == SubSeq(c, i, Len(c))
  <2>1. before \in Seq(Kinds) /\ Len(before) = i - 1
    BY <1>1
  <2>2. after \in Seq(Kinds) /\ Len(after) = Len(c) - i + 1
    BY <1>1
  <2>3. <<m>> \in Seq(Kinds) /\ Len(<<m>>) = 1
    OBVIOUS
  <2>4. before \o <<m>> \in Seq(Kinds) /\ Len(before \o <<m>>) = i
    BY <1>1, <2>1, <2>3
  <2>5. InsertAt(c, i, m) = (before \o <<m>>) \o after
    BY DEF InsertAt
  <2> HIDE DEF before, after
  <2> QED
    BY <1>1, <1>4, <2>2, <2>4, <2>5
<1>5. ASSUME NEW i \in DOMAIN c
      PROVE  RemoveAt(c, i) \in Seq(Kinds) /\ Len(RemoveAt(c, i)) <= MaxLength
  <2> DEFINE before == SubSeq(c, 1, i - 1)
             after  == SubSeq(c, i + 1, Len(c))
  <2>1. before \in Seq(Kinds) /\ Len(before) = i - 1
    BY <1>1
  <2>2. after \in Seq(Kinds) /\ Len(after) = Len(c) - i
    BY <1>1
  <2>3. RemoveAt(c, i) = before \o after
    BY DEF RemoveAt
  <2> HIDE DEF before, after
  <2> QED
    BY <1>1, <2>1, <2>2, <2>3
<1>6. \A i \in DOMAIN c : i \in 1..(Len(c) + 1) /\ i + 1 \in 1..(Len(c) + 1)
  BY <1>1
<1> QED
  BY <1>2, <1>3, <1>4, <1>5, <1>6, MiddlewareAssumption, Chains

\* An entry is a middleware or the handler.
LEMMA Entry ==
  ASSUME MiddlewareAssumption, NEW c \in SeqOf(Kinds, MaxLength), NEW i \in Positions
  PROVE  /\ EntryAt(c, i) \in Kinds \cup {"handler"}
         /\ EntryAt(c, i) = "handler" => i >= Len(c)
         /\ "none" \notin Kinds /\ "handler" \notin Kinds
<1>1. c \in Seq(Kinds) /\ Len(c) \in Nat /\ i \in Nat
  BY MiddlewareAssumption, Chains DEF Positions
<1>2. i < Len(c) => c[i + 1] \in Kinds
  BY <1>1
<1>3. "none" \notin Kinds /\ "handler" \notin Kinds
  BY MiddlewareAssumption
<1> QED
  BY <1>1, <1>2, <1>3 DEF EntryAt

-----------------------------------------------------------------------------
(* Steps *)

\* The initial states satisfy the invariant.
LEMMA InitInv == Init => IInv
<1> SUFFICES ASSUME Init PROVE IInv
  OBVIOUS
<1>1. <<>> \in SeqOf(Kinds, MaxLength)
  <2>1. <<>> \in Seq(Kinds) /\ Len(<<>>) <= MaxLength
    BY MiddlewareAssumption
  <2> QED
    BY <2>1, MiddlewareAssumption, Chains
<1>2. NoFrame \in Frames
  BY MiddlewareAssumption DEF NoFrame, Frames, FrameStates, Errors
<1>3. TypeOK
  BY <1>1, <1>2, MiddlewareAssumption DEF Init, TypeOK
<1>4. ASSUME NEW e \in Executions PROVE Stack(e) /\ Outcomes(e) /\ Order(e) /\ Reports(e)
  <2>1. \A p \in Positions : frames[e][p] = NoFrame /\ reported[e][p] = {}
    BY DEF Init
  <2>2. Stack(e)
    BY <2>1, MiddlewareAssumption DEF Init, Stack, NoFrame, Waiting
  <2>3. Outcomes(e) /\ Order(e)
    BY <2>1 DEF Init, Outcomes, Order, NoFrame
  <2>4. Reports(e)
    BY <2>1 DEF Reports, Told, NoFrame
  <2> QED
    BY <2>2, <2>3, <2>4
<1> QED
  BY <1>3, <1>4 DEF IInv

\* An edit reaches only executions whose array it marks as touched.
LEMMA EditInv ==
  ASSUME MiddlewareAssumption, IInv, NEW c \in SeqOf(Kinds, MaxLength), Edit(c)
  PROVE  IInv'
<1>1. TypeOK'
  BY DEF Edit, editVars, IInv, TypeOK
<1>2. ASSUME NEW e \in Executions PROVE Stack(e)' /\ Outcomes(e)' /\ Reports(e)'
  BY DEF Edit, editVars, IInv, Stack, Outcomes, Done, Reports, Told
<1>3. ASSUME NEW e \in Executions PROVE Order(e)'
  <2> SUFFICES ASSUME captured'[e] # 0, ~touched'[e], NEW i \in Positions, i <= index'[e]
               PROVE  frames'[e][i].mw = EntryAt(arrays'[captured'[e]], i)
    BY DEF Order
  <2>1. captured[e] # current /\ ~touched[e] /\ captured'[e] = captured[e]
    BY DEF Edit, editVars
  <2>2. arrays'[captured[e]] = arrays[captured[e]]
    BY <2>1 DEF Edit, IInv, TypeOK
  <2> QED
    BY <2>1, <2>2 DEF Edit, editVars, IInv, Order
<1> QED
  BY <1>1, <1>2, <1>3 DEF IInv

\* The operations of the chain.
LEMMA ChainInv ==
  ASSUME MiddlewareAssumption, IInv, EditChain
  PROVE  IInv'
<1>1. chain \in SeqOf(Kinds, MaxLength)
  BY DEF chain, IInv, TypeOK
<1>2. \A x : indexOf(x) \subseteq DOMAIN chain
  BY DEF indexOf
<1>3. HasRoom => Len(chain) < MaxLength
  <2>1. Len(chain) \in Nat /\ MaxAfterClear \in Int /\ MaxLength \in Nat /\ MaxAfterClear <= MaxLength
    BY <1>1, MiddlewareAssumption, Chains
  <2> QED
    BY <2>1 DEF HasRoom
<1>4. CASE \E m \in Kinds : add(m) \/ prepend(m)
  BY <1>1, <1>4, <1>3, EditedChain, EditInv DEF add, prepend
<1>5. CASE \E x, m \in Kinds : insertBefore(x, m) \/ insertAfter(x, m)
  <2>1. PICK m \in Kinds, i \in DOMAIN chain :
          HasRoom /\ (Edit(InsertAt(chain, i, m)) \/ Edit(InsertAt(chain, i + 1, m)))
    BY <1>2, <1>5 DEF insertBefore, insertAfter
  <2> QED
    BY <1>1, <1>3, <2>1, EditedChain, EditInv
<1>6. CASE \E x \in Kinds : remove(x)
  <2>1. PICK x \in Kinds, i \in DOMAIN chain : Edit(RemoveAt(chain, i))
    BY <1>2, <1>6 DEF remove
  <2> QED
    BY <1>1, <2>1, EditedChain, EditInv
<1>7. CASE clear
  <2>1. current + 1 \in 1..MaxArrays
    BY <1>7, MiddlewareAssumption DEF clear, IInv, TypeOK
  <2>2. TypeOK'
    BY <1>7, <2>1 DEF clear, editVars, IInv, TypeOK
  <2>3. \A e \in Executions : Stack(e)' /\ Outcomes(e)' /\ Order(e)' /\ Reports(e)'
    BY <1>7 DEF clear, editVars, IInv, Stack, Outcomes, Done, Order, Reports, Told
  <2> QED
    BY <2>2, <2>3 DEF IInv
<1> QED
  BY <1>4, <1>5, <1>6, <1>7 DEF EditChain

\* Frame i of execution e becomes g and has reported R; nothing else changes.
ChangesFrame(e, i, g, R) ==
  /\ frames' = [frames EXCEPT ![e] = [frames[e] EXCEPT ![i] = g]]
  /\ reported' = [reported EXCEPT ![e] = [reported[e] EXCEPT ![i] = R]]
  /\ UNCHANGED <<arrays, current, captured, touched, index, handled>>

\* A frame that has not settled changes: it stays the middleware it is, and
\* resolves only if the handler has.
LEMMA FrameInv ==
  ASSUME IInv, NEW e \in Executions, NEW i \in Positions, NEW g \in Frames,
         NEW R \in SUBSET {"completed", "failed"}, ChangesFrame(e, i, g, R),
         frames[e][i].st \in {"running", "before", "delay"},
         g.mw = frames[e][i].mw,
         g.st \in Waiting => g.mw \in {"user", "retry"},
         g.st = "resolved" => g.mw = "handler" \/ Done(e),
         Told(g, R)
  PROVE  IInv'
<1>1. /\ frames' \in [Executions -> [Positions -> Frames]]
      /\ reported' \in [Executions -> [Positions -> SUBSET {"completed", "failed"}]]
  BY DEF IInv, TypeOK, ChangesFrame
<1>2. /\ frames'[e][i] = g /\ reported'[e][i] = R
      /\ \A d \in Executions, p \in Positions : d # e \/ p # i =>
           frames'[d][p] = frames[d][p] /\ reported'[d][p] = reported[d][p]
  BY DEF IInv, TypeOK, ChangesFrame
<1>3. UNCHANGED <<arrays, current, captured, touched, index, handled>>
  BY DEF ChangesFrame
<1>4. TypeOK'
  BY <1>1, <1>3 DEF IInv, TypeOK
<1>5. \A d \in Executions, p \in Positions : frames'[d][p].mw = frames[d][p].mw
  BY <1>2
<1>6. i <= index[e] /\ frames[e][i].st # "resolved"
  <2>1. index[e] \in -1..MaxLength /\ MaxLength \in Nat
    BY MiddlewareAssumption DEF IInv, TypeOK
  <2>2. i > index[e] => frames[e][i] = NoFrame
    BY DEF IInv, Stack
  <2> QED
    BY <2>1, <2>2 DEF NoFrame, Positions
<1>7. ASSUME NEW d \in Executions PROVE Stack(d)'
  <2>1. Stack(d) /\ index[d] \in -1..MaxLength
    BY DEF IInv, TypeOK
  <2>2. \A p \in Positions : p > index[d] => frames'[d][p] = frames[d][p]
    BY <1>2, <1>6, <2>1, MiddlewareAssumption DEF Positions
  <2>3. \A p \in Positions : frames'[d][p].st \in Waiting => frames'[d][p].mw \in {"user", "retry"}
    BY <1>2, <2>1 DEF Stack
  <2> QED
    BY <1>3, <1>5, <2>1, <2>2, <2>3 DEF Stack
<1>8. ASSUME NEW d \in Executions PROVE Outcomes(d)'
  <2>1. Outcomes(d)
    BY DEF IInv
  <2>2. Done(d) => Done(d)'
    BY <1>2, <1>5, <1>6 DEF Done
  <2>3. g.st = "resolved" /\ g.mw = "handler" => Done(e)'
    BY <1>2 DEF Done
  <2>4. \A p \in Positions : frames'[d][p].st = "resolved" => Done(d)'
    BY <1>2, <2>1, <2>2, <2>3 DEF Outcomes
  <2> QED
    BY <2>4 DEF Outcomes
<1>9. ASSUME NEW d \in Executions PROVE Order(d)'
  BY <1>3, <1>5 DEF IInv, Order
<1>10. ASSUME NEW d \in Executions PROVE Reports(d)'
  <2>1. \A p \in Positions : Told(frames[d][p], reported[d][p])
    BY DEF IInv, Reports
  <2>2. \A p \in Positions : Told(frames'[d][p], reported'[d][p])
    BY <1>2, <2>1
  <2> QED
    BY <2>2 DEF Reports
<1> QED
  BY <1>4, <1>7, <1>8, <1>9, <1>10 DEF IInv

\* What a new frame is: the entry of its place, not settled but for an observer
\* whose report of the start has thrown.
LEMMA NewFrame ==
  ASSUME MiddlewareAssumption, NEW c \in SeqOf(Kinds, MaxLength), NEW p \in Positions, NEW k
  PROVE  LET f == Frame(c, p, k) IN
         /\ f \in Frames /\ f.mw = EntryAt(c, p) /\ f.st # "resolved"
         /\ f.st \in Waiting => f.mw \in {"user", "retry"}
         /\ Told(f, {})
<1>1. EntryAt(c, p) \in Kinds \cup {"handler"}
  BY Entry
<1>2. /\ {"running", "before", "rejected"} \subseteq FrameStates /\ {"none", "recorder"} \subseteq Errors
      /\ 0 \in 0..MaxRetries
  BY MiddlewareAssumption DEF FrameStates, Errors, Settled
<1>3. \E st \in {"running", "before", "rejected"}, err \in {"none", "recorder"} :
        /\ Frame(c, p, k) = [mw |-> EntryAt(c, p), st |-> st, tries |-> 0, repeated |-> FALSE, err |-> err]
        /\ st = "before" => EntryAt(c, p) = "user"
        /\ st = "rejected" => err = "recorder"
  <2> DEFINE mw == EntryAt(c, p)
             Made(st, err) == [mw |-> mw, st |-> st, tries |-> 0, repeated |-> FALSE, err |-> err]
  <2>1. p = k /\ mw = "user" => Frame(c, p, k) = Made("before", "none")
    BY DEF Frame, NoFrame, Observers
  <2>2. p = k /\ mw \in Observers => Frame(c, p, k) = Made("rejected", "recorder")
    BY DEF Frame, NoFrame, Observers
  <2>3. ~(p = k /\ (mw = "user" \/ mw \in Observers)) => Frame(c, p, k) = Made("running", "none")
    BY DEF Frame, NoFrame, Observers
  <2> QED
    BY <2>1, <2>2, <2>3
<1> QED
  BY <1>1, <1>2, <1>3 DEF Frames, Told, Waiting, Settled

\* dispatch(i) enters the frames above index, from frames F that differ from
\* those of e at most in that a waiting one goes on.
LEMMA EnterInv ==
  ASSUME MiddlewareAssumption, IInv, NEW e \in Executions, NEW F \in [Positions -> Frames],
         NEW a \in 1..MaxArrays,
         Enter(e, index[e] + 1, F, arrays[a]),
         captured' = [captured EXCEPT ![e] = a],
         UNCHANGED <<arrays, current, touched, reported>>,
         handled[e] = 0,
         ~touched[e] => \A p \in Positions : p <= index[e] => frames[e][p].mw = EntryAt(arrays[a], p),
         \A p \in Positions :
           /\ F[p].mw = frames[e][p].mw
           /\ F[p].st = "resolved" => frames[e][p].st = "resolved"
           /\ frames[e][p].st = "resolved" => F[p].st = "resolved"
           /\ F[p].st \in Waiting => F[p].mw \in {"user", "retry"}
           /\ p > index[e] => F[p] = NoFrame
           /\ Told(F[p], reported[e][p])
  PROVE  IInv'
<1> DEFINE c == arrays[a]
           n == index[e] + 1
<1>1. /\ c \in SeqOf(Kinds, MaxLength) /\ MaxLength \in Nat
      /\ index[e] \in -1..MaxLength /\ n \in 0..(MaxLength + 1)
  BY MiddlewareAssumption DEF IInv, TypeOK
<1>2. PICK k \in Ends(c, n) :
        /\ index' = [index EXCEPT ![e] = k]
        /\ frames' = [frames EXCEPT ![e] = [p \in Positions |-> IF p \in n..k THEN Frame(c, p, k) ELSE F[p]]]
        /\ handled' = [handled EXCEPT ![e] = IF EntryAt(c, k) = "handler" THEN @ + 1 ELSE @]
  BY DEF Enter
<1>3. k \in n..MaxLength /\ k \in Positions
  BY <1>1 DEF Ends, Positions
<1>4. \A p \in Positions :
        /\ p \in n..k => frames'[e][p] = Frame(c, p, k)
        /\ p \notin n..k => frames'[e][p] = F[p]
  BY <1>2 DEF IInv, TypeOK
<1>5. /\ index'[e] = k /\ captured'[e] = a
      /\ handled'[e] = IF EntryAt(c, k) = "handler" THEN 1 ELSE 0
  BY <1>2 DEF IInv, TypeOK
<1>6. ASSUME NEW d \in Executions, d # e
      PROVE  /\ index'[d] = index[d] /\ captured'[d] = captured[d] /\ handled'[d] = handled[d]
             /\ frames'[d] = frames[d] /\ touched'[d] = touched[d] /\ reported'[d] = reported[d]
  BY <1>2, <1>6 DEF IInv, TypeOK
<1>7. \A p \in Positions :
        LET f == Frame(c, p, k) IN
        /\ f \in Frames /\ f.mw = EntryAt(c, p) /\ f.st # "resolved"
        /\ f.st \in Waiting => f.mw \in {"user", "retry"}
        /\ Told(f, {})
  BY <1>1, NewFrame
<1>8. TypeOK'
  <2>1. frames' \in [Executions -> [Positions -> Frames]]
    BY <1>2, <1>7 DEF IInv, TypeOK
  <2>2. index' \in [Executions -> -1..MaxLength]
    BY <1>1, <1>2, <1>3 DEF IInv, TypeOK
  <2>3. handled' \in [Executions -> Nat]
    BY <1>2 DEF IInv, TypeOK
  <2>4. captured' \in [Executions -> 0..MaxArrays]
    BY MiddlewareAssumption DEF IInv, TypeOK
  <2> QED
    BY <2>1, <2>2, <2>3, <2>4 DEF IInv, TypeOK
<1>9. Stack(e)'
  <2>1. \A p \in Positions : p > k => frames'[e][p] = NoFrame
    BY <1>1, <1>3, <1>4 DEF Positions
  <2>2. \A p \in Positions : frames'[e][p].st \in Waiting => frames'[e][p].mw \in {"user", "retry"}
    BY <1>4, <1>7
  <2>3. EntryAt(c, k) = "handler" => frames'[e][k].mw = "handler"
    BY <1>1, <1>3, <1>4, <1>7 DEF Positions
  <2> QED
    BY <1>3, <1>5, <2>1, <2>2, <2>3 DEF Stack
<1>10. Outcomes(e)'
  <2> SUFFICES ASSUME NEW i \in Positions, frames'[e][i].st = "resolved" PROVE Done(e)'
    BY DEF Outcomes
  <2>1. frames[e][i].st = "resolved"
    BY <1>4, <1>7
  <2>2. PICK p \in Positions : frames[e][p].mw = "handler" /\ frames[e][p].st = "resolved"
    BY <2>1 DEF IInv, Outcomes, Done
  <2>3. p \notin n..k
    BY <1>1, <1>3, <2>2 DEF IInv, Stack, NoFrame, Positions
  <2> QED
    BY <1>4, <2>2, <2>3 DEF Done
<1>11. Order(e)'
  <2> SUFFICES ASSUME ~touched[e], NEW i \in Positions, i <= k
               PROVE  frames'[e][i].mw = EntryAt(c, i)
    BY <1>5 DEF Order
  <2>1. CASE i \in n..k
    BY <1>4, <1>7, <2>1
  <2>2. CASE i \notin n..k
    <3>1. i <= index[e]
      BY <1>1, <1>3, <2>2 DEF Positions, IInv, TypeOK
    <3> QED
      BY <1>4, <2>2, <3>1
  <2> QED
    BY <2>1, <2>2
<1>12. Reports(e)'
  <2> SUFFICES ASSUME NEW i \in Positions PROVE Told(frames'[e][i], reported[e][i])
    BY DEF Reports
  <2>1. CASE i \in n..k
    <3>1. F[i] = NoFrame
      BY <1>1, <1>3, <2>1
    <3>2. reported[e][i] = {}
      BY <3>1 DEF Told, NoFrame, Settled
    <3> QED
      BY <1>4, <1>7, <2>1, <3>2
  <2>2. CASE i \notin n..k
    BY <1>4, <2>2
  <2> QED
    BY <2>1, <2>2
<1>13. ASSUME NEW d \in Executions, d # e
       PROVE  Stack(d)' /\ Outcomes(d)' /\ Order(d)' /\ Reports(d)'
  BY <1>6, <1>13 DEF IInv, Stack, Outcomes, Done, Order, Reports
<1> QED
  BY <1>8, <1>9, <1>10, <1>11, <1>12, <1>13 DEF IInv

\* The call of an execution dispatches index 0.
LEMMA ExecuteInv ==
  ASSUME MiddlewareAssumption, IInv, NEW e \in Executions, Execute(e)
  PROVE  IInv'
<1>1. captured[e] = 0 /\ index[e] = -1 /\ handled[e] = 0
  <2>1. captured[e] = 0 /\ index[e] = -1 /\ handled[e] \in 0..1
    BY DEF Execute, IInv, Stack
  <2>2. handled[e] = 1 => index[e] \in Positions
    BY DEF IInv, Stack
  <2> QED
    BY <2>1, <2>2, MiddlewareAssumption DEF Positions
<1>2. Enter(e, index[e] + 1, frames[e], arrays[current])
  BY <1>1 DEF Execute, dispatch, chain
<1>3. current \in 1..MaxArrays /\ frames[e] \in [Positions -> Frames]
  BY DEF IInv, TypeOK
<1>4. \A p \in Positions : ~(p <= index[e])
  BY <1>1, MiddlewareAssumption DEF Positions
<1>5. \A p \in Positions :
        /\ frames[e][p].st \in Waiting => frames[e][p].mw \in {"user", "retry"}
        /\ p > index[e] => frames[e][p] = NoFrame
        /\ Told(frames[e][p], reported[e][p])
  BY DEF IInv, Stack, Reports
<1>6. /\ captured' = [captured EXCEPT ![e] = current]
      /\ UNCHANGED <<arrays, current, touched, reported>>
  BY DEF Execute
<1> QED
  BY <1>1, <1>2, <1>3, <1>4, <1>5, <1>6, EnterInv

\* A frame that has not settled does, having reported R.
LEMMA SettleInv ==
  ASSUME IInv, NEW e \in Executions, NEW i \in Positions,
         frames[e][i].st \in {"running", "before"},
         NEW st \in Settled, NEW err \in Errors, Settle(e, i, st, err),
         NEW R \in SUBSET {"completed", "failed"},
         reported' = [reported EXCEPT ![e] = [reported[e] EXCEPT ![i] = R]],
         UNCHANGED <<arrays, current, captured, touched>>,
         st = "resolved" => frames[e][i].mw = "handler" \/ Done(e),
         Told([frames[e][i] EXCEPT !.st = st, !.err = err], R)
  PROVE  IInv'
<1> DEFINE f == frames[e][i]
           g == [f EXCEPT !.st = st, !.err = err]
<1>1. f \in Frames
  BY DEF IInv, TypeOK
<1>2. g \in Frames /\ g.mw = f.mw /\ g.st = st
  BY <1>1 DEF Frames, FrameStates
<1>3. frames' = [frames EXCEPT ![e] = [frames[e] EXCEPT ![i] = g]]
  BY <1>1 DEF Settle, IInv, TypeOK
<1>4. ChangesFrame(e, i, g, R)
  BY <1>3 DEF ChangesFrame, Settle
<1>5. Told(g, R)
  OBVIOUS
<1>6. g.st \notin Waiting
  BY <1>2 DEF Waiting, Settled
<1> HIDE DEF g
<1> QED
  BY <1>2, <1>4, <1>5, <1>6, FrameInv

\* The same of a frame that reports nothing: it is no observer, or it fails.
LEMMA QuietInv ==
  ASSUME IInv, NEW e \in Executions, NEW i \in Positions,
         frames[e][i].st \in {"running", "before"},
         NEW st \in Settled, NEW err \in Errors, Settle(e, i, st, err),
         UNCHANGED <<runVars, reported>>,
         st = "resolved" => frames[e][i].mw = "handler" \/ Done(e),
         frames[e][i].mw \notin Observers
  PROVE  IInv'
<1>1. reported' = [reported EXCEPT ![e] = [reported[e] EXCEPT ![i] = reported[e][i]]]
      /\ reported[e][i] \in SUBSET {"completed", "failed"}
  BY DEF IInv, TypeOK
<1>2. UNCHANGED <<arrays, current, captured, touched>>
  BY DEF runVars
<1>3. Told([frames[e][i] EXCEPT !.st = st, !.err = err], reported[e][i])
  <2>1. frames[e][i] \in Frames
    BY DEF IInv, TypeOK
  <2> QED
    BY <2>1 DEF Told, Frames
<1> QED
  BY <1>1, <1>2, <1>3, SettleInv

\* The promise a frame awaits resolves only when the handler has.
LEMMA InnerOutcome ==
  ASSUME MiddlewareAssumption, IInv, NEW e \in Executions, NEW i \in Positions, i < MaxLength,
         Inner(e, i).st \in Settled
  PROVE  /\ Inner(e, i).err \in Errors
         /\ Inner(e, i).st = "resolved" => Done(e)
<1>1. i + 1 \in Positions
  BY MiddlewareAssumption DEF Positions
<1>2. frames[e][i + 1] \in Frames
  BY <1>1 DEF IInv, TypeOK
<1> QED
  BY <1>1, <1>2 DEF Inner, IInv, Outcomes, Frames, Errors

\* A frame is called to go on: its delay or what it awaited is over.
LEMMA CallNextInv ==
  ASSUME MiddlewareAssumption, IInv, NEW e \in Executions, NEW i \in Positions,
         frames[e][i].st \in Waiting, CallNext(e, i), UNCHANGED <<runVars, reported>>
  PROVE  IInv'
<1> DEFINE g == [frames[e][i] EXCEPT !.st = "running", !.repeated = FALSE]
           F == [frames[e] EXCEPT ![i] = g]
           c == arrays[captured[e]]
<1>1. /\ MaxLength \in Nat /\ i \in 0..MaxLength /\ index[e] \in -1..MaxLength
      /\ frames[e] \in [Positions -> Frames]
  BY MiddlewareAssumption DEF IInv, TypeOK, Positions
<1>2. /\ g \in Frames /\ g.mw = frames[e][i].mw /\ g.st = "running"
  BY <1>1 DEF Frames, FrameStates
<1>3. F = [frames[e] EXCEPT ![i].st = "running", ![i].repeated = FALSE]
  BY <1>1
<1>4. dispatch(e, i + 1, F, c)
  BY <1>3 DEF CallNext
<1>5. Stack(e) /\ Reports(e)
  BY DEF IInv
<1>6. i <= index[e] /\ captured[e] # 0
  <2>1. ~(i > index[e])
    BY <1>5 DEF Stack, NoFrame, Waiting
  <2> QED
    BY <1>1, <1>5, <2>1 DEF Stack
<1>7. frames[e][i].mw # "handler" /\ reported[e][i] = {}
  BY <1>5 DEF Stack, Reports, Told, Waiting, Settled
<1>8. CASE i + 1 <= index[e]
  <2> DEFINE h == [g EXCEPT !.repeated = TRUE]
  <2>1. Repeat(e, i + 1, F)
    BY <1>4, <1>8 DEF dispatch
  <2>2. frames' = [frames EXCEPT ![e] = [F EXCEPT ![(i + 1) - 1].repeated = TRUE]] /\ UNCHANGED <<index, handled>>
    BY <2>1 DEF Repeat
  <2>3. (i + 1) - 1 = i
    BY <1>1
  <2>4. [F EXCEPT ![i].repeated = TRUE] = [frames[e] EXCEPT ![i] = h]
    BY <1>1, <1>2
  <2>5. frames' = [frames EXCEPT ![e] = [frames[e] EXCEPT ![i] = h]]
    BY <2>2, <2>3, <2>4
  <2>6. h \in Frames /\ h.mw = frames[e][i].mw /\ h.st = "running"
    BY <1>2 DEF Frames
  <2>7. reported' = [reported EXCEPT ![e] = [reported[e] EXCEPT ![i] = {}]]
    BY <1>7 DEF IInv, TypeOK
  <2>8. Told(h, {}) /\ h.st \notin Waiting
    BY <2>6 DEF Told, Waiting
  <2> HIDE DEF h
  <2>9. ChangesFrame(e, i, h, {})
    BY <2>2, <2>5, <2>7 DEF ChangesFrame, runVars
  <2> QED
    BY <2>6, <2>8, <2>9, FrameInv DEF Waiting
<1>9. CASE i + 1 > index[e]
  <2>1. i = index[e] /\ Enter(e, index[e] + 1, F, c)
    BY <1>1, <1>4, <1>6, <1>9 DEF dispatch
  <2>2. handled[e] = 0
    BY <1>5, <1>7, <2>1 DEF Stack
  <2>3. captured[e] \in 1..MaxArrays /\ captured' = [captured EXCEPT ![e] = captured[e]]
    BY <1>6, MiddlewareAssumption DEF IInv, TypeOK, runVars
  <2>4. ~touched[e] => \A p \in Positions : p <= index[e] => frames[e][p].mw = EntryAt(c, p)
    BY <1>6 DEF IInv, Order
  <2>5. ASSUME NEW p \in Positions
        PROVE  /\ F[p].mw = frames[e][p].mw
               /\ F[p].st = "resolved" => frames[e][p].st = "resolved"
               /\ frames[e][p].st = "resolved" => F[p].st = "resolved"
               /\ F[p].st \in Waiting => F[p].mw \in {"user", "retry"}
               /\ p > index[e] => F[p] = NoFrame
               /\ Told(F[p], reported[e][p])
    <3>1. CASE p = i
      <4>1. F[p] = g /\ ~(p > index[e])
        BY <1>1, <2>1, <3>1
      <4>2. Told(g, {})
        BY <1>2 DEF Told
      <4> HIDE DEF g
      <4> QED
        BY <1>2, <1>7, <3>1, <4>1, <4>2 DEF Waiting
    <3>2. CASE p # i
      <4>1. F[p] = frames[e][p]
        BY <1>1, <3>2
      <4> QED
        BY <1>5, <4>1 DEF Stack, Reports
    <3> QED
      BY <3>1, <3>2
  <2>6. F \in [Positions -> Frames]
    BY <1>1, <1>2
  <2>7. UNCHANGED <<arrays, current, touched, reported>>
    BY DEF runVars
  <2> HIDE DEF F, c
  <2>8. c = arrays[captured[e]]
    BY DEF c
  <2> QED
    BY <2>1, <2>2, <2>3, <2>4, <2>5, <2>6, <2>7, <2>8, EnterInv, ZenonT(30)
<1> QED
  BY <1>1, <1>8, <1>9

\* An observer or a tracer reports and settles.
LEMMA ReportInv ==
  ASSUME MiddlewareAssumption, IInv, NEW e \in Executions, NEW i \in Positions,
         NEW mw \in Observers, Resumes(e, i, mw), UNCHANGED runVars,
         \/ ReportsOutcome(e, i)
         \/ ReportThrows(e, i, {r \in {"failed"} : Inner(e, i).st = "resolved"})
         \/ /\ mw = "tracer"
            /\ ReportThrows(e, i, {"failed"} \cup {r \in {"completed"} : Inner(e, i).st = "resolved"})
  PROVE  IInv'
<1> DEFINE in == Inner(e, i)
           f == frames[e][i]
<1>1. /\ i < MaxLength /\ f.mw = mw /\ f.st = "running" /\ in.st \in Settled
      /\ UNCHANGED <<arrays, current, captured, touched>>
  BY DEF Resumes, runVars
<1>2. in.err \in Errors /\ (in.st = "resolved" => Done(e))
  BY <1>1, InnerOutcome
<1>3. reported[e][i] = {} /\ f \in Frames
  <2>1. Told(f, reported[e][i])
    BY DEF IInv, Reports
  <2>2. reported[e][i] = {}
    BY <1>1, <2>1 DEF Told, Settled
  <2> QED
    BY <2>2 DEF IInv, TypeOK
<1>4. \A R : Report(e, i, R) =>
        reported' = [reported EXCEPT ![e] = [reported[e] EXCEPT ![i] = R]]
  BY <1>3 DEF Report, IInv, TypeOK
<1>5. {"resolved", "rejected"} = Settled /\ "recorder" \in Errors
  BY DEF Settled, Errors
<1>6. CASE ReportsOutcome(e, i)
  <2> DEFINE R == {IF in.st = "resolved" THEN "completed" ELSE "failed"}
             g == [f EXCEPT !.st = in.st, !.err = in.err]
  <2>1. R \in SUBSET {"completed", "failed"}
    OBVIOUS
  <2>2. g.st = in.st /\ g.mw = mw /\ g.err = in.err
    BY <1>1, <1>3 DEF Frames
  <2>3. Told(g, R)
    <3> HIDE DEF g
    <3> QED
      BY <1>1, <1>5, <2>2 DEF Told
  <2>4. Settle(e, i, in.st, in.err) /\ reported' = [reported EXCEPT ![e] = [reported[e] EXCEPT ![i] = R]]
    BY <1>4, <1>6 DEF ReportsOutcome, SettleAsInner
  <2> HIDE DEF R, in
  <2> QED
    BY <1>1, <1>2, <2>1, <2>3, <2>4, SettleInv
<1>7. ASSUME NEW P \in SUBSET {"completed", "failed"}, ReportThrows(e, i, P),
             "completed" \in P => mw = "tracer"
      PROVE  IInv'
  <2> DEFINE g == [f EXCEPT !.st = "rejected", !.err = "recorder"]
  <2>1. PICK R \in SUBSET P : Report(e, i, R)
    BY <1>7 DEF ReportThrows
  <2>2. g.st = "rejected" /\ g.mw = mw /\ g.err = "recorder"
    BY <1>1, <1>3 DEF Frames
  <2>3. Told(g, R)
    <3> HIDE DEF g
    <3> QED
      BY <1>7, <2>2 DEF Told, Settled
  <2>4. Settle(e, i, "rejected", "recorder") /\ reported' = [reported EXCEPT ![e] = [reported[e] EXCEPT ![i] = R]]
    BY <1>4, <1>7, <2>1 DEF ReportThrows
  <2>5. R \in SUBSET {"completed", "failed"}
    OBVIOUS
  <2> QED
    BY <1>1, <1>5, <2>3, <2>4, <2>5, SettleInv
<1> QED
  BY <1>6, <1>7

\* What promise callbacks and timers do.
LEMMA FrameStepInv ==
  ASSUME MiddlewareAssumption, IInv, NEW e \in Executions, NEW i \in Positions, FrameStep(e, i)
  PROVE  IInv'
<1>1. {"recorder"} \subseteq Errors /\ {"resolved", "rejected"} = Settled
  BY DEF Errors, Settled
<1>2. CASE ObserverResumes(e, i)
  BY <1>2, ReportInv DEF ObserverResumes, Observers
<1>8. CASE TracerResumes(e, i)
  BY <1>8, ReportInv DEF TracerResumes, Observers
<1>3. ASSUME NEW mw \in {"timeout", "retry", "user"}, Resumes(e, i, mw), SettleAsInner(e, i),
             UNCHANGED <<runVars, reported>>
      PROVE  IInv'
  <2>1. i < MaxLength /\ frames[e][i].mw = mw /\ frames[e][i].st = "running" /\ Inner(e, i).st \in Settled
    BY <1>3 DEF Resumes
  <2>2. Inner(e, i).err \in Errors /\ (Inner(e, i).st = "resolved" => Done(e))
    BY <2>1, InnerOutcome
  <2> QED
    BY <1>3, <2>1, <2>2, QuietInv DEF SettleAsInner, Observers
<1>4. CASE TimeoutResumes(e, i)
  BY <1>3, <1>4 DEF TimeoutResumes
<1>5. CASE UserResumes(e, i)
  BY <1>3, <1>5 DEF UserResumes
<1>6. CASE RetryResumes(e, i)
  <2>1. CASE SettleAsInner(e, i)
    BY <1>3, <1>6, <2>1 DEF RetryResumes
  <2>2. CASE /\ frames[e][i].tries < MaxRetries
             /\ frames' = [frames EXCEPT ![e][i].st = "delay", ![e][i].tries = @ + 1]
             /\ UNCHANGED <<index, handled>>
    <3> DEFINE f == frames[e][i]
               g == [f EXCEPT !.st = "delay", !.tries = f.tries + 1]
    <3>1. f \in Frames /\ f.mw = "retry" /\ f.st = "running"
      BY <1>6 DEF RetryResumes, Resumes, IInv, TypeOK
    <3>2. g \in Frames /\ g.mw = "retry" /\ g.st = "delay"
      <4>1. f.tries \in 0..MaxRetries /\ f.tries + 1 \in 0..MaxRetries
        BY <2>2, <3>1, MiddlewareAssumption DEF Frames
      <4> QED
        BY <3>1, <4>1 DEF Frames, FrameStates
    <3>3. frames' = [frames EXCEPT ![e] = [frames[e] EXCEPT ![i] = g]]
      BY <2>2, <3>1 DEF IInv, TypeOK
    <3>4. reported[e][i] = {}
      BY <3>1 DEF IInv, Reports, Told, Settled
    <3>5. reported' = [reported EXCEPT ![e] = [reported[e] EXCEPT ![i] = {}]]
      BY <1>6, <3>4 DEF RetryResumes, IInv, TypeOK
    <3>6. ChangesFrame(e, i, g, {})
      BY <1>6, <2>2, <3>3, <3>5 DEF ChangesFrame, RetryResumes, runVars
    <3>7. Told(g, {})
      BY <3>2 DEF Told
    <3> HIDE DEF g
    <3> QED
      BY <3>1, <3>2, <3>6, <3>7, FrameInv
  <2> QED
    BY <1>6, <2>1, <2>2 DEF RetryResumes
<1>7. CASE DelayOver(e, i)
  BY <1>7, CallNextInv DEF DelayOver, Waiting
<1> QED
  BY <1>2, <1>4, <1>5, <1>6, <1>7, <1>8 DEF FrameStep

\* The invariant is inductive.
LEMMA StepInv == IInv /\ [Next]_vars => IInv'
<1> USE MiddlewareAssumption
<1> SUFFICES ASSUME IInv, [Next]_vars PROVE IInv'
  OBVIOUS
<1>1. CASE EditChain
  BY <1>1, ChainInv
<1>2. ASSUME NEW e \in Executions, Execute(e) PROVE IInv'
  BY <1>2, ExecuteInv
<1>3. ASSUME NEW e \in Executions, NEW i \in Positions, FrameStep(e, i) PROVE IInv'
  BY <1>3, FrameStepInv
<1>4. ASSUME NEW e \in Executions, NEW i \in Positions, TimerFires(e, i) PROVE IInv'
  BY <1>4, QuietInv DEF TimerFires, Settled, Errors, Observers
<1>5. ASSUME NEW e \in Executions, NEW i \in Positions, UserCallsNext(e, i) PROVE IInv'
  BY <1>5, CallNextInv DEF UserCallsNext, Waiting
<1>6. ASSUME NEW e \in Executions, NEW i \in Positions, UserFails(e, i) PROVE IInv'
  <2>1. /\ frames[e][i].st = "before" /\ Settle(e, i, "rejected", "user")
        /\ UNCHANGED <<arrays, current, captured, touched>> /\ reported' = reported
    BY <1>6 DEF UserFails, runVars
  <2>2. frames[e][i].mw \notin Observers
    BY <2>1 DEF IInv, Stack, Waiting, Observers
  <2>3. "rejected" \in Settled /\ "user" \in Errors /\ UNCHANGED <<runVars, reported>>
    BY <1>6 DEF UserFails, Settled, Errors
  <2> QED
    BY <2>1, <2>2, <2>3, QuietInv
<1>7. ASSUME NEW e \in Executions, NEW i \in Positions, HandlerEnds(e, i) PROVE IInv'
  BY <1>7, QuietInv DEF HandlerEnds, Settled, Errors, Observers
<1>8. CASE UNCHANGED vars
  <2>1. TypeOK'
    BY <1>8 DEF vars, editVars, IInv, TypeOK
  <2>2. \A e \in Executions : Stack(e)' /\ Outcomes(e)' /\ Order(e)' /\ Reports(e)'
    BY <1>8 DEF vars, editVars, IInv, Stack, Outcomes, Done, Order, Reports, Told
  <2> QED
    BY <2>1, <2>2 DEF IInv
<1> QED
  BY <1>1, <1>2, <1>3, <1>4, <1>5, <1>6, <1>7, <1>8 DEF Next

\* The invariant holds throughout.
LEMMA Invariant == Spec => []IInv
BY InitInv, StepInv, PTL DEF Spec

-----------------------------------------------------------------------------
(* What follows *)

\* Every variable keeps its type, whatever edits and calls of next() there are.
THEOREM TypeCorrect == Spec => []TypeOK
<1>1. IInv => TypeOK
  BY DEF IInv
<1> QED
  BY <1>1, Invariant, PTL

\* One execution calls its handler at most once, however the chain is edited,
\* whatever times out and however often next() is called (middleware.ts:137).
THEOREM CallsHandlerOnce == Spec => []HandlerAtMostOnce
<1>1. IInv => HandlerAtMostOnce
  BY DEF IInv, Stack, HandlerAtMostOnce
<1> QED
  BY <1>1, Invariant, PTL

\* An execution resolves only if its handler did: what the worker acks has been
\* done (worker.ts:439-440).
THEOREM AckedMeansDone == Spec => []ResolvedMeansDone
<1>1. IInv => ResolvedMeansDone
  <2> SUFFICES ASSUME IInv, NEW e \in Executions, frames[e][0].st = "resolved" PROVE Done(e)
    BY DEF ResolvedMeansDone, Done
  <2>1. 0 \in Positions
    BY MiddlewareAssumption DEF Positions
  <2> QED
    BY <2>1 DEF IInv, Outcomes
<1> QED
  BY <1>1, Invariant, PTL

\* When the handler runs, the chain its execution was composed with wraps it
\* whole and in order, unless that array was edited (middleware.ts:125-152).
THEOREM WrapsHandler == Spec => []OnionOrder
<1>1. IInv => OnionOrder
  <2> SUFFICES ASSUME IInv, NEW e \in Executions, handled[e] > 0, ~touched[e],
                      NEW i \in 0..Len(arrays[captured[e]])
               PROVE  frames[e][i].mw = EntryAt(arrays[captured[e]], i)
    BY DEF OnionOrder
  <2> DEFINE c == arrays[captured[e]]
  <2>1. Stack(e) /\ handled[e] = 1 /\ index[e] \in Positions /\ frames[e][index[e]].mw = "handler"
    BY DEF IInv, Stack
  <2>2. captured[e] \in 1..MaxArrays
    <3>1. captured[e] # 0
      BY <2>1, MiddlewareAssumption DEF Stack, Positions
    <3> QED
      BY <3>1, MiddlewareAssumption DEF IInv, TypeOK
  <2>3. c \in SeqOf(Kinds, MaxLength)
    BY <2>2 DEF IInv, TypeOK
  <2>4. \A p \in Positions : p <= index[e] => frames[e][p].mw = EntryAt(c, p)
    BY <2>2 DEF IInv, Order
  <2>5. EntryAt(c, index[e]) = "handler"
    BY <2>1, <2>4, MiddlewareAssumption DEF Positions
  <2>6. index[e] >= Len(c)
    BY <2>1, <2>3, <2>5, MiddlewareAssumption, Entry
  <2>7. i \in Positions /\ i <= index[e]
    BY <2>1, <2>3, <2>6, MiddlewareAssumption, Chains DEF Positions
  <2> QED
    BY <2>4, <2>7
<1> QED
  BY <1>1, Invariant, PTL

\* What an observer reports is what the middleware around it see, also when a
\* report throws, but for a tracer that throws after it has counted
\* (metrics.ts:60-69, otel.ts:78-91, :118-132).
THEOREM ReportsAreTrue == Spec => []ObserversTellOutcome
<1>1. IInv => ObserversTellOutcome
  BY DEF IInv, Reports, Told, ObserversTellOutcome
<1> QED
  BY <1>1, Invariant, PTL
=============================================================================
