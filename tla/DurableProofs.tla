----------------------------- MODULE DurableProofs -----------------------------
(***************************************************************************)
(* Durable execution, for every handler, every number of attempts and      *)
(* every place an attempt may end at: no op gets another's value, but for  *)
(* a call with an empty key among calls made together, and a sequential    *)
(* handler that got hold of its checkpoint sees what it says and carries   *)
(* nothing out that is on it.                                              *)
(*                                                                         *)
(* The argument: a replay log lists the ops of the handler in the order    *)
(* they are called in, up to the first call made together with others that *)
(* finished out of turn.  Replaying stops there, attempt after attempt.    *)
(***************************************************************************)
EXTENDS Durable, TLAPS, FiniteSetTheorems, FunctionTheorems

\* The calls of handler p, by step and number in the step, and the op of each.
Slots(p)   == UNION {{i} \X DOMAIN p[i].ops : i \in DOMAIN p}
OpAt(p, s) == p[s[1]].ops[s[2]]

\* How many calls come before s, which is where the log has the entry of s.
Earlier(s, t) == s[1] < t[1] \/ (s[1] = t[1] /\ s[2] < t[2])
Before(p, t)  == {s \in Slots(p) : Earlier(s, t)}
Place(p, t)   == Cardinality(Before(p, t))

\* Where the handler is.
Here == <<pc, called + 1>>

\* The log has the entry of call s where a replay looks for it.
Is(p, log, s) ==
  LET e == log[Place(p, s) + 1]
  IN  e.type = p[s[1]].kind /\ e.key = OpAt(p, s)

\* It has that of another call there, which finished earlier.
Departs(p, log, s) ==
  LET e == log[Place(p, s) + 1]
  IN  /\ e.type = "call" /\ p[s[1]].kind = "call"
      /\ OpAt(p, s) \notin Keyless /\ e.key # OpAt(p, s)

\* Or that of any call of the step, and call s has no key and takes it.
Mixed(p, log, s) ==
  LET e == log[Place(p, s) + 1]
  IN  /\ e.type = "call" /\ p[s[1]].kind = "call"
      /\ OpAt(p, s) \in Keyless /\ Len(p[s[1]].ops) > 1

DepartedBy(p, log, n) ==
  \E s \in Slots(p) :
    Place(p, s) <= n /\ Place(p, s) < Len(log) /\ Departs(p, log, s)

Faithful(p, log) ==
  /\ \A i \in DOMAIN log : log[i].result[1] = log[i].key
  /\ \A s \in Slots(p) :
       Place(p, s) < Len(log) =>
         Is(p, log, s) \/ Mixed(p, log, s) \/ DepartedBy(p, log, Place(p, s))

\* Nothing departs: there is a call for every entry.
InOrder(p, log) ==
  \A i \in DOMAIN log : \E s \in Slots(p) : Place(p, s) = i - 1 /\ Is(p, log, s)

-----------------------------------------------------------------------------
(* The inductive invariant *)

\* The memory of a context that has not got its checkpoint yet.
Fresh ==
  /\ pc = 1 /\ called = 0 /\ pending = {} /\ entries = <<>> /\ cursor = 0
  /\ ~replaying /\ given = NoValues /\ ~blind

PositionInv ==
  /\ called > 0 => /\ pc <= Len(program) /\ program[pc].kind = "call"
                   /\ called <= Len(program[pc].ops)
  /\ IsFiniteSet(pending)
  /\ \A o \in pending : executed[o] > 0 /\ \E k \in 1..called : o = program[pc].ops[k]
  /\ request \in {"checkpoint", "complete"} => pc <= Len(program) /\ program[pc].kind = request
  /\ request # "none" => status = "running"
  /\ status = "queued" \/ request = "resume" => Fresh

\* A context that replays has found every call so far on the log; one that
\* records has a log that departs, or one that ends with what is not pending.
LogInv ==
  /\ Faithful(program, entries) /\ Faithful(program, saved)
  /\ replaying =>
       /\ cursor = Place(program, Here)
       /\ cursor < Len(entries)
       /\ pending = {}
       /\ \A s \in Slots(program) : Place(program, s) < cursor => ~Departs(program, entries, s)
  /\ ~replaying /\ ~DepartedBy(program, entries, Len(entries)) =>
       /\ Len(entries) + Cardinality(pending) = Place(program, Here)
       /\ Place(program, <<pc, 1>>) <= Len(entries)

\* What the handler was given is on its log, and the log goes on where the
\* checkpoint ends.
SequentialInv ==
  Sequential =>
    /\ InOrder(program, entries) /\ InOrder(program, saved)
    /\ \A o \in Ops : given[o] # None =>
         \E i \in DOMAIN entries : entries[i].key = o /\ entries[i].result = given[o]
    /\ status # "queued" /\ request # "resume" /\ ~blind =>
         /\ Len(saved) <= Len(entries)
         /\ \A i \in DOMAIN saved : entries[i] = saved[i]

IInv == TypeOK /\ PositionInv /\ LogInv /\ OwnValues /\ SequentialInv

-----------------------------------------------------------------------------
(* The places of the calls of a handler *)

\* The ops of a step of a handler.
LEMMA StepOps ==
  ASSUME NEW p \in Programs, NEW i \in DOMAIN p
  PROVE  /\ p[i] \in Steps
         /\ p[i].ops \in Seq(Ops)
         /\ p[i].kind \in {"time", "random"} => Len(p[i].ops) = 1
         /\ p[i].kind \in {"checkpoint", "complete"} => Len(p[i].ops) = 0
<1>1. p \in Seq(Steps)
  BY DurableAssumption
<1>2. p[i] \in Steps
  BY <1>1
<1>3. CASE p[i] \in [kind : {"time", "random"}, ops : {<<o>> : o \in Ops}]
  <2>1. PICK o \in Ops : p[i].ops = <<o>>
    BY <1>3
  <2>2. p[i].kind \in {"time", "random"}
    BY <1>3
  <2> QED
    BY <1>2, <2>1, <2>2
<1>4. CASE p[i] \in [kind : {"call"}, ops : Seq(Ops)]
  BY <1>2, <1>4
<1>5. CASE p[i] \in [kind : {"checkpoint", "complete"}, ops : {<<>>}]
  <2>1. p[i].ops = <<>> /\ p[i].kind \in {"checkpoint", "complete"}
    BY <1>5
  <2>2. p[i].ops \in Seq(Ops) /\ Len(p[i].ops) = 0
    BY <2>1
  <2> QED
    BY <1>2, <2>1, <2>2
<1> QED
  BY <1>2, <1>3, <1>4, <1>5 DEF Steps

LEMMA SlotsOf ==
  ASSUME NEW p \in Programs
  PROVE  /\ p \in Seq(Steps) /\ Len(p) \in Nat /\ DOMAIN p = 1..Len(p)
         /\ \A i, j : <<i, j>> \in Slots(p) <=> i \in 1..Len(p) /\ j \in 1..Len(p[i].ops)
         /\ \A s \in Slots(p) : /\ s = <<s[1], s[2]>>
                                /\ s[1] \in 1..Len(p) /\ s[2] \in 1..Len(p[s[1]].ops)
                                /\ s[1] \in Nat /\ s[2] \in Nat
                                /\ OpAt(p, s) \in Ops
<1>1. p \in Seq(Steps) /\ Len(p) \in Nat /\ DOMAIN p = 1..Len(p)
  BY DurableAssumption
<1>2. \A i \in DOMAIN p : p[i].ops \in Seq(Ops) /\ DOMAIN p[i].ops = 1..Len(p[i].ops)
  BY StepOps
<1>3. \A i, j : <<i, j>> \in Slots(p) <=> i \in 1..Len(p) /\ j \in 1..Len(p[i].ops)
  BY <1>1, <1>2 DEF Slots
<1>4. ASSUME NEW s \in Slots(p)
      PROVE  /\ s = <<s[1], s[2]>>
             /\ s[1] \in 1..Len(p) /\ s[2] \in 1..Len(p[s[1]].ops)
             /\ s[1] \in Nat /\ s[2] \in Nat
             /\ OpAt(p, s) \in Ops
  <2>1. PICK i \in DOMAIN p : s \in {i} \X DOMAIN p[i].ops
    BY DEF Slots
  <2>2. s = <<s[1], s[2]>> /\ s[1] = i /\ s[2] \in DOMAIN p[i].ops
    BY <2>1
  <2>3. s[1] \in 1..Len(p) /\ s[2] \in 1..Len(p[s[1]].ops)
    BY <1>1, <1>2, <2>2
  <2>4. OpAt(p, s) \in Ops
    BY <1>1, <1>2, <2>2, <2>3 DEF OpAt
  <2>5. Len(p[s[1]].ops) \in Nat
    BY <1>1, <1>2, <2>3
  <2> QED
    BY <1>1, <2>2, <2>3, <2>4, <2>5
<1> QED
  BY <1>1, <1>3, <1>4

\* A handler calls finitely many ops.
LEMMA SlotsFinite ==
  ASSUME NEW p \in Programs
  PROVE  IsFiniteSet(Slots(p))
<1> DEFINE f == [i \in DOMAIN p |-> {i} \X DOMAIN p[i].ops]
           T == {{i} \X DOMAIN p[i].ops : i \in DOMAIN p}
<1>1. f \in Surjection(DOMAIN p, T)
  BY DEF Surjection
<1>2. IsFiniteSet(DOMAIN p)
  <2>1. DOMAIN p = 1..Len(p) /\ 1 \in Int /\ Len(p) \in Int
    BY SlotsOf
  <2> QED
    BY <2>1, FS_Interval
<1>3. IsFiniteSet(T)
  BY <1>1, <1>2, FS_Surjection
<1>4. ASSUME NEW i \in DOMAIN p PROVE IsFiniteSet({i} \X DOMAIN p[i].ops)
  <2>1. p[i].ops \in Seq(Ops)
    BY StepOps
  <2>2. Len(p[i].ops) \in Nat /\ DOMAIN p[i].ops = 1..Len(p[i].ops)
    BY <2>1
  <2>3. IsFiniteSet(DOMAIN p[i].ops)
    <3>1. 1 \in Int /\ Len(p[i].ops) \in Int
      BY <2>2
    <3> QED
      BY <2>2, <3>1, FS_Interval
  <2> QED
    BY <2>3, FS_Singleton, FS_Product
<1>5. \A S \in T : IsFiniteSet(S)
  BY <1>4
<1> QED
  BY <1>3, <1>5, FS_UNION DEF Slots

LEMMA PlaceType ==
  ASSUME NEW p \in Programs, NEW t
  PROVE  Place(p, t) \in Nat /\ IsFiniteSet(Before(p, t))
BY SlotsFinite, FS_Subset, FS_CardinalityType DEF Place, Before

\* The places are those of the lexicographic order.
LEMMA PlaceMonotone ==
  ASSUME NEW p \in Programs, NEW s \in Slots(p), NEW t \in Nat \X Nat, Earlier(s, t)
  PROVE  Place(p, s) < Place(p, t)
<1>1. s[1] \in Nat /\ s[2] \in Nat /\ t[1] \in Nat /\ t[2] \in Nat
  BY SlotsOf
<1>2. \A r \in Slots(p) : Earlier(r, s) => Earlier(r, t)
  BY <1>1, SlotsOf DEF Earlier
<1>3. s \notin Before(p, s)
  BY <1>1 DEF Before, Earlier
<1>4. Before(p, s) \cup {s} \subseteq Before(p, t)
  BY <1>2 DEF Before
<1>5. Cardinality(Before(p, s) \cup {s}) = Place(p, s) + 1
  BY <1>3, PlaceType, FS_AddElement DEF Place
<1>6. Cardinality(Before(p, s) \cup {s}) <= Place(p, t)
  BY <1>4, PlaceType, FS_Subset DEF Place
<1> QED
  BY <1>5, <1>6, PlaceType

\* No two calls have one place.
LEMMA PlaceInjective ==
  ASSUME NEW p \in Programs, NEW s \in Slots(p), NEW t \in Slots(p), Place(p, s) = Place(p, t)
  PROVE  s = t
<1>1. /\ s[1] \in Nat /\ s[2] \in Nat /\ t[1] \in Nat /\ t[2] \in Nat
      /\ s = <<s[1], s[2]>> /\ t = <<t[1], t[2]>>
  BY SlotsOf
<1>2. s \in Nat \X Nat /\ t \in Nat \X Nat
  BY <1>1
<1>3. ~Earlier(s, t) /\ ~Earlier(t, s)
  BY <1>2, PlaceMonotone, PlaceType
<1>4. s[1] = t[1] /\ s[2] = t[2]
  BY <1>1, <1>3 DEF Earlier
<1> QED
  BY <1>1, <1>4

\* One call further is one place further; the next step goes on where the last
\* ended.
LEMMA PlaceSteps ==
  ASSUME NEW p \in Programs
  PROVE  /\ Place(p, <<1, 1>>) = 0
         /\ \A i, j : <<i, j>> \in Slots(p) => Place(p, <<i, j + 1>>) = Place(p, <<i, j>>) + 1
         /\ \A i \in DOMAIN p : Place(p, <<i + 1, 1>>) = Place(p, <<i, Len(p[i].ops) + 1>>)
<1>1. Place(p, <<1, 1>>) = 0
  <2>1. Before(p, <<1, 1>>) = {}
    BY SlotsOf DEF Before, Earlier
  <2> QED
    BY <2>1, FS_EmptySet DEF Place
<1>2. ASSUME NEW i, NEW j, <<i, j>> \in Slots(p)
      PROVE  Place(p, <<i, j + 1>>) = Place(p, <<i, j>>) + 1
  <2>1. i \in Nat /\ j \in Nat
    BY <1>2, SlotsOf
  <2>2. \A s \in Slots(p) : Earlier(s, <<i, j + 1>>) <=> Earlier(s, <<i, j>>) \/ s = <<i, j>>
    BY <2>1, SlotsOf DEF Earlier
  <2>3. Before(p, <<i, j + 1>>) = Before(p, <<i, j>>) \cup {<<i, j>>}
    BY <1>2, <2>2 DEF Before
  <2>4. <<i, j>> \notin Before(p, <<i, j>>)
    BY <2>1 DEF Before, Earlier
  <2> QED
    BY <2>3, <2>4, PlaceType, FS_AddElement DEF Place
<1>3. ASSUME NEW i \in DOMAIN p
      PROVE  Place(p, <<i + 1, 1>>) = Place(p, <<i, Len(p[i].ops) + 1>>)
  <2>1. i \in Nat /\ Len(p[i].ops) \in Nat
    BY SlotsOf, StepOps
  <2>2. \A s \in Slots(p) : s[1] = i => s[2] < Len(p[i].ops) + 1
    BY <2>1, SlotsOf
  <2>3. \A s \in Slots(p) :
          Earlier(s, <<i + 1, 1>>) <=> Earlier(s, <<i, Len(p[i].ops) + 1>>)
    BY <2>1, <2>2, SlotsOf DEF Earlier
  <2>4. Before(p, <<i + 1, 1>>) = Before(p, <<i, Len(p[i].ops) + 1>>)
    BY <2>3 DEF Before
  <2> QED
    BY <2>4 DEF Place
<1> QED
  BY <1>1, <1>2, <1>3

-----------------------------------------------------------------------------
(* Logs *)

\* What an entry says of the calls before it stays true when the log grows.
LEMMA LogGrows ==
  ASSUME program \in Programs, NEW log \in Seq(Entries), NEW e \in Entries
  PROVE  /\ Append(log, e) \in Seq(Entries)
         /\ Len(Append(log, e)) = Len(log) + 1
         /\ DOMAIN Append(log, e) = DOMAIN log \cup {Len(log) + 1}
         /\ \A i \in DOMAIN log : Append(log, e)[i] = log[i]
         /\ Append(log, e)[Len(log) + 1] = e
         /\ \A s \in Slots(program) : Place(program, s) < Len(log) =>
              /\ Is(program, log, s) <=> Is(program, Append(log, e), s)
              /\ Mixed(program, log, s) <=> Mixed(program, Append(log, e), s)
              /\ Departs(program, log, s) <=> Departs(program, Append(log, e), s)
         /\ \A n \in Nat : DepartedBy(program, log, n) => DepartedBy(program, Append(log, e), n)
<1>1. /\ Append(log, e) \in Seq(Entries)
      /\ Len(Append(log, e)) = Len(log) + 1
      /\ Len(log) \in Nat /\ DOMAIN log = 1..Len(log)
      /\ \A i \in 1..Len(log) : Append(log, e)[i] = log[i]
      /\ Append(log, e)[Len(log) + 1] = e
  OBVIOUS
<1>2. DOMAIN Append(log, e) = 1..(Len(log) + 1)
  BY <1>1
<1>3. ASSUME NEW s \in Slots(program), Place(program, s) < Len(log)
      PROVE  /\ Append(log, e)[Place(program, s) + 1] = log[Place(program, s) + 1]
             /\ Is(program, log, s) <=> Is(program, Append(log, e), s)
             /\ Mixed(program, log, s) <=> Mixed(program, Append(log, e), s)
             /\ Departs(program, log, s) <=> Departs(program, Append(log, e), s)
  <2>1. Place(program, s) + 1 \in 1..Len(log)
    BY <1>1, <1>3, PlaceType
  <2> QED
    BY <1>1, <2>1 DEF Is, Mixed, Departs
<1>4. \A n \in Nat : DepartedBy(program, log, n) => DepartedBy(program, Append(log, e), n)
  BY <1>1, <1>3, PlaceType DEF DepartedBy
<1> QED
  BY <1>1, <1>2, <1>3, <1>4

\* A log stays faithful that already departs, or that gets the entry of the
\* call whose turn it is, or that of a call of the same step.
LEMMA FaithfulGrows ==
  ASSUME program \in Programs, NEW log \in Seq(Entries), NEW e \in Entries,
         Faithful(program, log),
         e.result[1] = e.key,
         \/ DepartedBy(program, log, Len(log))
         \/ \A s \in Slots(program) :
              Place(program, s) = Len(log) =>
                \/ e.type = program[s[1]].kind /\ e.key = OpAt(program, s)
                \/ /\ e.type = "call" /\ program[s[1]].kind = "call"
                   /\ e.key # OpAt(program, s) /\ Len(program[s[1]].ops) > 1
  PROVE  Faithful(program, Append(log, e))
<1> DEFINE new == Append(log, e)
<1>1. /\ new \in Seq(Entries) /\ Len(new) = Len(log) + 1 /\ Len(log) \in Nat
      /\ DOMAIN new = DOMAIN log \cup {Len(log) + 1}
      /\ \A i \in DOMAIN log : new[i] = log[i]
      /\ new[Len(log) + 1] = e
  BY LogGrows
<1>2. \A i \in DOMAIN new : new[i].result[1] = new[i].key
  BY <1>1 DEF Faithful
<1>3. ASSUME NEW s \in Slots(program), Place(program, s) < Len(new)
      PROVE  \/ Is(program, new, s) \/ Mixed(program, new, s)
             \/ DepartedBy(program, new, Place(program, s))
  <2>1. Place(program, s) \in Nat
    BY PlaceType
  <2>2. CASE Place(program, s) < Len(log)
    BY <2>1, <2>2, LogGrows DEF Faithful
  <2>3. CASE Place(program, s) = Len(log)
    <3>1. CASE DepartedBy(program, log, Len(log))
      BY <1>1, <2>3, <3>1, LogGrows
    <3>2. CASE e.type = program[s[1]].kind /\ e.key = OpAt(program, s)
      BY <1>1, <2>3, <3>2 DEF Is
    <3>3. CASE /\ e.type = "call" /\ program[s[1]].kind = "call"
               /\ e.key # OpAt(program, s) /\ Len(program[s[1]].ops) > 1
      <4>1. Departs(program, new, s) \/ Mixed(program, new, s)
        BY <1>1, <2>3, <3>3 DEF Departs, Mixed
      <4> QED
        BY <1>1, <2>1, <2>3, <4>1 DEF DepartedBy
    <3> QED
      BY <2>3, <3>1, <3>2, <3>3
  <2> QED
    BY <1>1, <1>3, <2>1, <2>2, <2>3
<1> QED
  BY <1>2, <1>3 DEF Faithful

\* A log in order does not depart.
LEMMA InOrderStays ==
  ASSUME program \in Programs, NEW log \in Seq(Entries), InOrder(program, log), NEW n
  PROVE  ~DepartedBy(program, log, n)
<1> SUFFICES ASSUME NEW s \in Slots(program), Place(program, s) < Len(log), Departs(program, log, s)
             PROVE  FALSE
  BY DEF DepartedBy
<1>1. Place(program, s) \in Nat /\ Len(log) \in Nat /\ DOMAIN log = 1..Len(log)
  BY PlaceType
<1> DEFINE i == Place(program, s) + 1
<1>2. i \in DOMAIN log /\ i - 1 = Place(program, s)
  BY <1>1
<1>3. PICK t \in Slots(program) : Place(program, t) = i - 1 /\ Is(program, log, t)
  BY <1>2 DEF InOrder
<1>4. t = s
  BY <1>2, <1>3, PlaceInjective
<1> QED
  BY <1>3, <1>4 DEF Is, Departs

-----------------------------------------------------------------------------
(* The next call *)

\* The initial states satisfy the invariant.
LEMMA InitInv == Init => IInv
<1> SUFFICES ASSUME Init PROVE IInv
  OBVIOUS
<1> USE DEF Init
<1>1. program \in Programs /\ Len(program) \in Nat
  BY SlotsOf
<1>2. TypeOK
  <2>1. 0 \in 0..MaxAttempts
    BY DurableAssumption
  <2>2. saved \in Seq(Entries) /\ entries \in Seq(Entries) /\ cursor \in 0..Len(entries)
    OBVIOUS
  <2>3. given \in [Ops -> (Ops \X (Nat \ {0})) \cup {None}]
    BY DEF NoValues
  <2>4. pc \in 1..(Len(program) + 1)
    BY <1>1
  <2> QED
    BY <1>1, <2>1, <2>2, <2>3, <2>4 DEF TypeOK
<1>3. PositionInv
  BY FS_EmptySet DEF PositionInv, Fresh
<1>4. LogInv
  <2>1. Faithful(program, <<>>)
    BY <1>1, PlaceType DEF Faithful
  <2>2. Here = <<1, 1>>
    BY DEF Here
  <2> QED
    BY <1>1, <2>1, <2>2, PlaceSteps, FS_EmptySet DEF LogInv
<1>5. OwnValues
  BY DEF OwnValues, NoValues
<1>6. SequentialInv
  BY DEF SequentialInv, InOrder, NoValues
<1> QED
  BY <1>2, <1>3, <1>4, <1>5, <1>6 DEF IInv

\* Where the handler is when it makes a call.
LEMMA AtCall ==
  ASSUME IInv, NEW kind, At(kind), called < Len(program[pc].ops)
  PROVE  /\ program \in Programs /\ pc \in DOMAIN program /\ program[pc].kind = kind
         /\ called \in Nat
         /\ Here \in Slots(program) /\ Here[1] = pc
         /\ OpAt(program, Here) = program[pc].ops[called + 1]
         /\ OpAt(program, Here) \in Ops
         /\ Place(program, Here) \in Nat
         /\ Place(program, <<pc, called + 2>>) = Place(program, Here) + 1
<1>1. program \in Programs /\ called \in Nat /\ pc \in 1..(Len(program) + 1)
  BY DEF IInv, TypeOK
<1>2. pc \in 1..Len(program) /\ program[pc].kind = kind /\ DOMAIN program = 1..Len(program)
  BY <1>1, SlotsOf DEF At
<1>3. program[pc].ops \in Seq(Ops) /\ Len(program[pc].ops) \in Nat
  BY <1>1, <1>2, StepOps
<1>4. called + 1 \in 1..Len(program[pc].ops)
  BY <1>1, <1>3
<1>5. Here \in Slots(program)
  BY <1>1, <1>2, <1>4, SlotsOf DEF Here
<1>6. Here[1] = pc /\ OpAt(program, Here) = program[pc].ops[called + 1]
  BY DEF Here, OpAt
<1>7. Place(program, <<pc, called + 2>>) = Place(program, Here) + 1
  <2>1. Place(program, <<pc, (called + 1) + 1>>) = Place(program, Here) + 1
    BY <1>1, <1>5, PlaceSteps DEF Here
  <2>2. (called + 1) + 1 = called + 2
    BY <1>1
  <2> QED
    BY <2>1, <2>2
<1> QED
  BY <1>1, <1>2, <1>5, <1>6, <1>7, SlotsOf, PlaceType

\* In a sequential handler every op has its own entry.
LEMMA SequentialNamed ==
  ASSUME program \in Programs, Sequential, NEW o
  PROVE  ~Unnamed(o)
<1> SUFFICES ASSUME NEW i \in DOMAIN program, Len(program[i].ops) > 1
             PROVE  FALSE
  BY DEF Unnamed
<1>1. Len(program[i].ops) \in Nat /\ Len(program[i].ops) <= 1
  BY StepOps DEF Sequential
<1> QED
  BY <1>1

\* A replay that finds an entry that fits has the entry of the call, or of one
\* made together with it if it has no key.
LEMMA ReplayFinds ==
  ASSUME IInv, NEW kind, At(kind), called < Len(program[pc].ops),
         Matches(OpAt(program, Here), kind)
  PROVE  LET o == OpAt(program, Here)
         IN  /\ cursor \in Nat /\ cursor + 1 \in DOMAIN entries
             /\ cursor = Place(program, Here)
             /\ pending = {}
             /\ ~Unnamed(o) => entries[cursor + 1].key = o
             /\ entries[cursor + 1].result[1] = entries[cursor + 1].key
             /\ entries[cursor + 1].result \in Ops \X (Nat \ {0})
             /\ \A s \in Slots(program) : Place(program, s) < cursor + 1 => ~Departs(program, entries, s)
<1> DEFINE o == OpAt(program, Here)
           e == entries[cursor + 1]
<1>1. /\ program \in Programs /\ program[pc].kind = kind
      /\ Here \in Slots(program) /\ Here[1] = pc
      /\ Place(program, Here) \in Nat
  BY AtCall
<1>2. /\ replaying /\ e.type = kind
      /\ kind = "call" => o \in Keyless \/ e.key = o
  BY DEF Matches
<1>3. /\ cursor = Place(program, Here) /\ cursor < Len(entries) /\ pending = {}
      /\ \A s \in Slots(program) : Place(program, s) < cursor => ~Departs(program, entries, s)
  BY <1>2 DEF IInv, LogInv
<1>4. entries \in Seq(Entries) /\ cursor + 1 \in DOMAIN entries
  BY <1>1, <1>3 DEF IInv, TypeOK
<1>5. e \in Entries
  BY <1>4
<1>6. ~Departs(program, entries, Here)
  BY <1>1, <1>2, <1>3 DEF Departs
<1>7. ~DepartedBy(program, entries, cursor)
  <2> SUFFICES ASSUME NEW s \in Slots(program), Place(program, s) <= cursor,
                      Departs(program, entries, s)
               PROVE  FALSE
    BY DEF DepartedBy
  <2>1. Place(program, s) = cursor
    BY <1>1, <1>3, PlaceType
  <2>2. s = Here
    BY <1>1, <1>3, <2>1, PlaceInjective
  <2> QED
    BY <1>6, <2>2
<1>8. Is(program, entries, Here) \/ Mixed(program, entries, Here)
  BY <1>1, <1>3, <1>7 DEF IInv, LogInv, Faithful
<1>10. ~Unnamed(o) => e.key = o
  <2>1. CASE Is(program, entries, Here)
    BY <1>3, <2>1 DEF Is
  <2>2. CASE Mixed(program, entries, Here)
    <3>1. Here[1] \in DOMAIN program /\ Here[2] \in DOMAIN program[Here[1]].ops
      BY <1>1, SlotsOf, StepOps
    <3>2. Unnamed(o)
      BY <2>2, <3>1 DEF Mixed, Unnamed, OpAt
    <3> QED
      BY <3>2
  <2> QED
    BY <1>8, <2>1, <2>2
<1>11. e.result[1] = e.key
  BY <1>4 DEF IInv, LogInv, Faithful
<1>12. ASSUME NEW s \in Slots(program), Place(program, s) < cursor + 1
      PROVE  ~Departs(program, entries, s)
  <2>1. Place(program, s) <= cursor /\ cursor < Len(entries)
    BY <1>1, <1>3, <1>12, PlaceType
  <2>2. Place(program, s) < Len(entries)
    BY <1>1, <1>3, <1>4, <2>1, PlaceType
  <2> QED
    BY <1>7, <2>1, <2>2 DEF DepartedBy
<1>9. e.result \in Ops \X (Nat \ {0})
  BY <1>5 DEF Entries
<1> QED
  BY <1>1, <1>3, <1>4, <1>9, <1>10, <1>11, <1>12

\* A call that is carried out is the next that the log has no entry of, or the
\* log departs.
LEMMA CarryOutNeeded ==
  ASSUME IInv, NEW kind, At(kind), called < Len(program[pc].ops),
         ~Matches(OpAt(program, Here), kind)
  PROVE  \/ DepartedBy(program, entries, Len(entries))
         \/ /\ Len(entries) + Cardinality(pending) = Place(program, Here)
            /\ Place(program, <<pc, 1>>) <= Len(entries)
<1>1. CASE ~replaying
  BY <1>1 DEF IInv, LogInv
<1>2. CASE replaying
  <2>1. /\ program[pc].kind = kind /\ Here \in Slots(program) /\ Here[1] = pc
        /\ Place(program, Here) \in Nat /\ entries \in Seq(Entries)
    BY AtCall DEF IInv, TypeOK
  <2>2. cursor = Place(program, Here) /\ cursor < Len(entries)
    BY <1>2 DEF IInv, LogInv
  <2>3. ~Is(program, entries, Here) /\ ~Mixed(program, entries, Here)
    BY <1>2, <2>1, <2>2 DEF Is, Mixed, Matches
  <2>4. DepartedBy(program, entries, cursor)
    BY <2>1, <2>2, <2>3 DEF IInv, LogInv, Faithful
  <2>5. DepartedBy(program, entries, Len(entries))
    BY <2>1, <2>2, <2>4, PlaceType DEF DepartedBy, IInv, TypeOK
  <2> QED
    BY <2>5
<1> QED
  BY <1>1, <1>2

-----------------------------------------------------------------------------
(* The steps of the handler *)

\* The handler goes on with the value on the log.
LEMMA ReplayInv ==
  ASSUME IInv, NEW kind, At(kind), called < Len(program[pc].ops),
         Matches(OpAt(program, Here), kind), Replay(OpAt(program, Here)),
         UNCHANGED <<program, status, attempt, saved, pending, request, blind>>,
         pc' \in 1..(Len(program) + 1), called' \in Nat, PositionInv',
         Place(program, Here') = Place(program, Here) + 1,
         Place(program, <<pc', 1>>) <= Place(program, Here) + 1
  PROVE  IInv'
<1> DEFINE o == OpAt(program, Here)
           e == entries[cursor + 1]
<1>1. /\ program \in Programs /\ o \in Ops /\ program' = program
      /\ status = "running" /\ request = "none"
      /\ entries \in Seq(Entries) /\ Len(entries) \in Nat /\ DOMAIN entries = 1..Len(entries)
  BY AtCall DEF IInv, TypeOK, At
<1>2. /\ cursor \in Nat /\ cursor + 1 \in DOMAIN entries
      /\ cursor = Place(program, Here)
      /\ pending = {}
      /\ ~Unnamed(o) => e.key = o
      /\ e.result[1] = e.key
      /\ e.result \in Ops \X (Nat \ {0})
      /\ \A s \in Slots(program) : Place(program, s) < cursor + 1 => ~Departs(program, entries, s)
  BY ReplayFinds
<1>3. /\ given' = [given EXCEPT ![o] = e.result]
      /\ cursor' = cursor + 1
      /\ replaying' = (cursor + 1 < Len(entries))
      /\ UNCHANGED <<entries, executed>>
  BY DEF Replay
<1>4. TypeOK'
  <2>1. cursor' \in 0..Len(entries') /\ replaying' \in BOOLEAN
    BY <1>1, <1>2, <1>3
  <2>2. given' \in [Ops -> (Ops \X (Nat \ {0})) \cup {None}]
    BY <1>1, <1>2, <1>3 DEF IInv, TypeOK
  <2> QED
    BY <1>1, <1>3, <2>1, <2>2 DEF IInv, TypeOK
<1>5. LogInv'
  <2>1. Faithful(program, entries)' /\ Faithful(program, saved)'
    BY <1>3, <1>1 DEF IInv, LogInv
  <2>2. ASSUME replaying'
        PROVE  /\ cursor' = Place(program, Here)'
               /\ cursor' < Len(entries')
               /\ pending' = {}
               /\ \A s \in Slots(program') :
                    Place(program', s) < cursor' => ~Departs(program', entries', s)
    BY <1>1, <1>2, <1>3, <2>2
  <2>3. ASSUME ~replaying'
        PROVE  /\ Len(entries') + Cardinality(pending') = Place(program', Here')
               /\ Place(program', <<pc', 1>>) <= Len(entries')
    <3>1. ~(cursor + 1 < Len(entries))
      BY <1>3, <2>3
    <3>2. cursor + 1 = Len(entries)
      BY <1>1, <1>2, <3>1
    <3>3. Cardinality(pending') = 0
      BY <1>2, FS_EmptySet
    <3> QED
      BY <1>1, <1>2, <1>3, <3>2, <3>3
  <2> QED
    BY <2>1, <2>2, <2>3 DEF LogInv
<1>6. OwnValues'
  <2> SUFFICES ASSUME NEW q \in Ops, given'[q] # None, ~Unnamed(q)
               PROVE  given'[q][1] = q
    BY <1>1 DEF OwnValues, Unnamed
  <2>1. CASE q = o
    <3>1. given'[o] = e.result
      BY <1>1, <1>3 DEF IInv, TypeOK
    <3> QED
      BY <1>2, <2>1, <3>1
  <2>2. CASE q # o
    <3>1. given'[q] = given[q]
      BY <1>3, <2>2 DEF IInv, TypeOK
    <3> QED
      BY <3>1 DEF IInv, OwnValues
  <2> QED
    BY <2>1, <2>2
<1>7. SequentialInv'
  <2> SUFFICES ASSUME Sequential PROVE SequentialInv'
    BY <1>1 DEF SequentialInv, Sequential
  <2>1. InOrder(program, entries)' /\ InOrder(program, saved)'
    BY <1>1, <1>3 DEF IInv, SequentialInv
  <2>3. e.key = o
    <3>1. ~Unnamed(o)
      BY <1>1, SequentialNamed
    <3> QED
      BY <1>2, <3>1
  <2>2. ASSUME NEW q \in Ops, given'[q] # None
        PROVE  \E i \in DOMAIN entries : entries[i].key = q /\ entries[i].result = given'[q]
    <3>1. CASE q = o
      <4>1. given'[o] = e.result
        BY <1>1, <1>3 DEF IInv, TypeOK
      <4> QED
        BY <1>2, <2>3, <3>1, <4>1
    <3>2. CASE q # o
      <4>1. given'[q] = given[q]
        BY <1>3, <3>2 DEF IInv, TypeOK
      <4> QED
        BY <2>2, <4>1 DEF IInv, SequentialInv
    <3> QED
      BY <3>1, <3>2
  <2> QED
    BY <1>1, <1>3, <2>1, <2>2 DEF IInv, SequentialInv
<1> QED
  BY <1>4, <1>5, <1>6, <1>7 DEF IInv

\* An entry is put on the log: that of the call whose turn it is, or of one of
\* the same step.
LEMMA RecordInv ==
  ASSUME IInv, NEW o \in Ops, NEW kind \in {"time", "random", "call"}, NEW n \in Nat \ {0},
         Record(o, kind, n),
         pc \in DOMAIN program, program[pc].kind = kind, status = "running", request = "none",
         UNCHANGED <<program, status, request, saved, blind>>,
         \/ DepartedBy(program, entries, Len(entries))
         \/ \A s \in Slots(program) : Place(program, s) = Len(entries) =>
              s[1] = pc /\ (kind # "call" => OpAt(program, s) = o),
         \E k \in DOMAIN program[pc].ops : o = program[pc].ops[k],
         Sequential => \E s \in Slots(program) : Place(program, s) = Len(entries) /\ s[1] = pc
                                                  /\ OpAt(program, s) = o
  PROVE  /\ Faithful(program, entries)' /\ Faithful(program, saved)'
         /\ entries' \in Seq(Entries) /\ Len(entries') = Len(entries) + 1
         /\ given' \in [Ops -> (Ops \X (Nat \ {0})) \cup {None}]
         /\ DepartedBy(program, entries, Len(entries)) =>
              DepartedBy(program', entries', Len(entries'))
         /\ OwnValues' /\ SequentialInv'
<1> DEFINE e == [type |-> kind, key |-> o, result |-> <<o, n>>]
<1>1. /\ program \in Programs /\ program' = program
      /\ entries \in Seq(Entries) /\ Len(entries) \in Nat /\ DOMAIN entries = 1..Len(entries)
      /\ given \in [Ops -> (Ops \X (Nat \ {0})) \cup {None}]
  BY DEF IInv, TypeOK
<1>2. e \in Entries /\ e.result = <<o, n>> /\ e.key = o /\ e.type = kind /\ e.result[1] = o
  BY DEF Entries
<1>3. entries' = Append(entries, e) /\ given' = [given EXCEPT ![o] = <<o, n>>]
  BY DEF Record
<1>4. /\ entries' \in Seq(Entries) /\ Len(entries') = Len(entries) + 1
      /\ DOMAIN entries' = DOMAIN entries \cup {Len(entries) + 1}
      /\ \A i \in DOMAIN entries : entries'[i] = entries[i]
      /\ entries'[Len(entries) + 1] = e
  BY <1>1, <1>2, <1>3, LogGrows
<1>5. Faithful(program, entries)' /\ Faithful(program, saved)'
  <2>1. Faithful(program, entries) /\ Faithful(program, saved)
    BY DEF IInv, LogInv
  <2>2. \/ DepartedBy(program, entries, Len(entries))
        \/ \A s \in Slots(program) : Place(program, s) = Len(entries) =>
             \/ e.type = program[s[1]].kind /\ e.key = OpAt(program, s)
             \/ /\ e.type = "call" /\ program[s[1]].kind = "call"
                /\ e.key # OpAt(program, s) /\ Len(program[s[1]].ops) > 1
    <3> SUFFICES ASSUME NEW s \in Slots(program), Place(program, s) = Len(entries),
                        s[1] = pc, kind = "call", o # OpAt(program, s)
                 PROVE  Len(program[pc].ops) > 1
      BY <1>2
    <3>1. PICK k \in DOMAIN program[pc].ops : o = program[pc].ops[k]
      OBVIOUS
    <3>2. s[2] \in 1..Len(program[pc].ops) /\ k \in 1..Len(program[pc].ops)
      BY <1>1, SlotsOf, StepOps
    <3>3. k # s[2]
      BY <3>1 DEF OpAt
    <3>4. Len(program[pc].ops) \in Nat
      BY <1>1, StepOps
    <3> QED
      BY <3>2, <3>3, <3>4
  <2>3. Faithful(program, Append(entries, e))
    BY <1>1, <1>2, <2>1, <2>2, FaithfulGrows
  <2> QED
    BY <1>1, <1>3, <2>1, <2>3
<1>6. DepartedBy(program, entries, Len(entries)) => DepartedBy(program', entries', Len(entries'))
  <2>1. DepartedBy(program, entries, Len(entries)) => DepartedBy(program, entries, Len(entries) + 1)
    BY <1>1, PlaceType DEF DepartedBy
  <2>2. DepartedBy(program, entries, Len(entries) + 1) => DepartedBy(program, entries', Len(entries) + 1)
    BY <1>1, <1>2, <1>3, LogGrows
  <2> QED
    BY <1>1, <1>4, <2>1, <2>2
<1>7. given' \in [Ops -> (Ops \X (Nat \ {0})) \cup {None}]
  BY <1>1, <1>3
<1>8. OwnValues'
  BY <1>1, <1>3 DEF IInv, OwnValues, Unnamed
<1>9. SequentialInv'
  <2> SUFFICES ASSUME Sequential PROVE SequentialInv'
    BY <1>1 DEF SequentialInv, Sequential
  <2>1. PICK t \in Slots(program) : /\ Place(program, t) = Len(entries)
                                     /\ t[1] = pc /\ OpAt(program, t) = o
    OBVIOUS
  <2>2. ASSUME NEW i \in DOMAIN entries'
        PROVE  \E s \in Slots(program) : Place(program, s) = i - 1 /\ Is(program, entries', s)
    <3>1. CASE i \in DOMAIN entries
      <4>1. PICK s \in Slots(program) : Place(program, s) = i - 1 /\ Is(program, entries, s)
        BY <3>1 DEF IInv, SequentialInv, InOrder
      <4>2. Place(program, s) < Len(entries)
        BY <1>1, <3>1, <4>1
      <4>3. Is(program, entries', s)
        BY <1>1, <1>2, <1>3, <4>1, <4>2, LogGrows
      <4> QED
        BY <4>1, <4>3
    <3>2. CASE i = Len(entries) + 1
      <4>1. Is(program, entries', t)
        BY <1>2, <1>4, <2>1 DEF Is
      <4>2. Place(program, t) = i - 1
        BY <1>1, <2>1, <3>2
      <4> QED
        BY <4>1, <4>2
    <3> QED
      BY <1>4, <3>1, <3>2
  <2>3. InOrder(program, entries)' /\ InOrder(program, saved)'
    BY <1>1, <2>2 DEF IInv, SequentialInv, InOrder
  <2>4. ASSUME NEW q \in Ops, given'[q] # None
        PROVE  \E i \in DOMAIN entries' : entries'[i].key = q /\ entries'[i].result = given'[q]
    <3>1. CASE q = o
      BY <1>1, <1>2, <1>3, <1>4, <3>1, ZenonT(30)
    <3>2. CASE q # o
      <4>1. given'[q] = given[q]
        BY <1>1, <1>3, <3>2
      <4>2. PICK i \in DOMAIN entries : entries[i].key = q /\ entries[i].result = given[q]
        BY <2>4, <4>1 DEF IInv, SequentialInv
      <4> QED
        BY <1>4, <4>1, <4>2
    <3> QED
      BY <3>1, <3>2
  <2>5. ~blind' => /\ Len(saved') <= Len(entries')
                   /\ \A i \in DOMAIN saved' : entries'[i] = saved'[i]
    <3> SUFFICES ASSUME ~blind
                 PROVE  /\ Len(saved) <= Len(entries')
                        /\ \A i \in DOMAIN saved : entries'[i] = saved[i]
      OBVIOUS
    <3>1. saved \in Seq(Entries) /\ Len(saved) \in Nat /\ DOMAIN saved = 1..Len(saved)
      BY DEF IInv, TypeOK
    <3>2. /\ Len(saved) <= Len(entries)
          /\ \A i \in DOMAIN saved : entries[i] = saved[i]
      BY DEF IInv, SequentialInv
    <3>3. \A i \in DOMAIN saved : i \in DOMAIN entries
      BY <1>1, <3>1, <3>2
    <3> QED
      BY <1>1, <1>4, <3>1, <3>2, <3>3
  <2> QED
    BY <2>3, <2>4, <2>5 DEF SequentialInv
<1> QED
  BY <1>4, <1>5, <1>6, <1>7, <1>8, <1>9

\* now() and random().
LEMMA DrawInv ==
  ASSUME IInv, NEW kind \in {"time", "random"}, Draw(kind)
  PROVE  IInv'
<1> DEFINE o == program[pc].ops[1]
<1>1. /\ program \in Programs /\ pc \in DOMAIN program /\ program[pc].kind = kind
      /\ DOMAIN program = 1..Len(program) /\ Len(program) \in Nat
      /\ status = "running" /\ request = "none"
      /\ called \in Nat /\ pc \in Nat
  BY SlotsOf DEF Draw, At, IInv, TypeOK
<1>2. Len(program[pc].ops) = 1
  BY <1>1, StepOps
<1>3. called = 0 /\ pending = {}
  BY <1>1 DEF IInv, PositionInv
<1>4. /\ Here = <<pc, 1>> /\ Here \in Slots(program) /\ OpAt(program, Here) = o /\ o \in Ops
      /\ Place(program, Here) \in Nat
      /\ Place(program, <<pc, 2>>) = Place(program, Here) + 1
  <2>1. At(kind) /\ called < Len(program[pc].ops)
    BY <1>2, <1>3 DEF Draw
  <2>2. called + 1 = 1 /\ called + 2 = 2
    BY <1>3
  <2> QED
    BY <1>3, <2>1, <2>2, AtCall DEF Here
<1>5. UNCHANGED <<program, status, attempt, saved, called, pending, request, blind>> /\ pc' = pc + 1
  BY DEF Draw
<1>6. /\ Here' = <<pc + 1, 1>>
      /\ Place(program, Here') = Place(program, Here) + 1
      /\ Place(program, <<pc', 1>>) = Place(program, Here) + 1
  <2>1. Here' = <<pc + 1, 1>>
    BY <1>3, <1>5 DEF Here
  <2>2. Place(program, <<pc + 1, 1>>) = Place(program, <<pc, Len(program[pc].ops) + 1>>)
    BY <1>1, PlaceSteps
  <2>3. Len(program[pc].ops) + 1 = 2
    BY <1>2
  <2> QED
    BY <1>4, <1>5, <2>1, <2>2, <2>3
<1>7. pc' \in 1..(Len(program) + 1) /\ called' \in Nat
  BY <1>1, <1>5
<1>8. PositionInv'
  BY <1>1, <1>3, <1>5, FS_EmptySet DEF IInv, PositionInv
<1>9. CASE Matches(o, kind) /\ Replay(o)
  <2>1. At(kind) /\ called < Len(program[pc].ops)
    BY <1>2, <1>3 DEF Draw
  <2> QED
    BY <1>4, <1>5, <1>6, <1>7, <1>8, <1>9, <2>1, ReplayInv
<1>10. CASE ~Matches(o, kind) /\ CarryOut(o) /\ Record(o, kind, executed[o] + 1)
  <2>1. /\ executed' = [executed EXCEPT ![o] = executed[o] + 1]
        /\ replaying' = FALSE /\ UNCHANGED cursor
    BY <1>10 DEF CarryOut
  <2>2. executed[o] + 1 \in Nat \ {0}
    <3>1. executed[o] \in Nat
      BY <1>4 DEF IInv, TypeOK
    <3> QED
      BY <3>1
  <2>3. \/ DepartedBy(program, entries, Len(entries))
        \/ Len(entries) = Place(program, Here)
    <3>1. At(kind) /\ called < Len(program[pc].ops)
      BY <1>2, <1>3 DEF Draw
    <3>2. Cardinality(pending) = 0
      BY <1>3, FS_EmptySet
    <3>3. Len(entries) \in Nat
      BY DEF IInv, TypeOK
    <3> QED
      BY <1>4, <1>10, <3>1, <3>2, <3>3, CarryOutNeeded
  <2>4. ASSUME Len(entries) = Place(program, Here)
        PROVE  \A s \in Slots(program) : Place(program, s) = Len(entries) => s = Here
    BY <1>1, <1>4, <2>4, PlaceInjective
  <2>5. Sequential => \E s \in Slots(program) : /\ Place(program, s) = Len(entries)
                                                 /\ s[1] = pc /\ OpAt(program, s) = o
    <3> SUFFICES ASSUME Sequential PROVE Len(entries) = Place(program, Here)
      BY <1>4
    <3>1. ~DepartedBy(program, entries, Len(entries))
      BY <1>1, InOrderStays DEF IInv, TypeOK, SequentialInv
    <3> QED
      BY <2>3, <3>1
  <2>6. \/ DepartedBy(program, entries, Len(entries))
        \/ \A s \in Slots(program) : Place(program, s) = Len(entries) =>
             s[1] = pc /\ (kind # "call" => OpAt(program, s) = o)
    BY <1>4, <2>3, <2>4
  <2>7. /\ Faithful(program, entries)' /\ Faithful(program, saved)'
        /\ entries' \in Seq(Entries) /\ Len(entries') = Len(entries) + 1
        /\ given' \in [Ops -> (Ops \X (Nat \ {0})) \cup {None}]
        /\ DepartedBy(program, entries, Len(entries)) =>
             DepartedBy(program', entries', Len(entries'))
        /\ OwnValues' /\ SequentialInv'
    <3>1. \E k \in DOMAIN program[pc].ops : o = program[pc].ops[k]
      BY <1>1, <1>2, StepOps
    <3> QED
      BY <1>1, <1>4, <1>5, <1>10, <2>2, <2>5, <2>6, <3>1, RecordInv
  <2>8. TypeOK'
    <3>1. executed' \in [Ops -> Nat]
      BY <1>4, <2>1, SMTT(30) DEF IInv, TypeOK
    <3>2. cursor' \in 0..Len(entries')
      <4>1. cursor \in 0..Len(entries) /\ Len(entries) \in Nat
        BY DEF IInv, TypeOK
      <4> QED
        BY <2>1, <2>7, <4>1
    <3> QED
      BY <1>5, <1>7, <2>1, <2>7, <3>1, <3>2 DEF IInv, TypeOK
  <2>9. LogInv'
    <3>1. ASSUME ~DepartedBy(program', entries', Len(entries'))
          PROVE  /\ Len(entries') + Cardinality(pending') = Place(program', Here')
                 /\ Place(program', <<pc', 1>>) <= Len(entries')
      <4>1. Len(entries') = Place(program, Here) + 1
        BY <2>3, <2>7, <3>1
      <4>2. Cardinality(pending') = 0
        BY <1>3, <1>5, FS_EmptySet
      <4> QED
        BY <1>4, <1>5, <1>6, <4>1, <4>2
    <3> QED
      BY <2>1, <2>7, <3>1 DEF LogInv
  <2> QED
    BY <1>8, <2>7, <2>8, <2>9 DEF IInv
<1> QED
  BY <1>9, <1>10 DEF Draw

\* A call of sideEffect().
LEMMA SideEffectInv ==
  ASSUME IInv, sideEffect
  PROVE  IInv'
<1> DEFINE o == program[pc].ops[called + 1]
<1>1. At("call") /\ called < Len(program[pc].ops)
  BY DEF sideEffect
<1>2. /\ program \in Programs /\ pc \in DOMAIN program /\ program[pc].kind = "call"
      /\ DOMAIN program = 1..Len(program) /\ Len(program) \in Nat
      /\ called \in Nat /\ Here \in Slots(program) /\ OpAt(program, Here) = o /\ o \in Ops
      /\ Place(program, Here) \in Nat
      /\ Place(program, <<pc, called + 2>>) = Place(program, Here) + 1
  BY <1>1, AtCall, SlotsOf
<1>3. called' = called + 1 /\ UNCHANGED <<program, status, attempt, saved, pc, request, blind>>
  BY DEF sideEffect
<1>4. status = "running" /\ request = "none"
  BY <1>1 DEF At
<1>5. called + 1 \in 1..Len(program[pc].ops) /\ Len(program[pc].ops) \in Nat
  BY <1>1, <1>2, StepOps
<1>6. /\ Here' = <<pc, called + 2>>
      /\ Place(program, Here') = Place(program, Here) + 1
  <2>1. (called + 1) + 1 = called + 2
    BY <1>2
  <2> QED
    BY <1>2, <1>3, <2>1 DEF Here
<1>7. Place(program, <<pc, 1>>) <= Place(program, Here)
  <2>1. CASE called = 0
    BY <1>2, <2>1 DEF Here
  <2>2. CASE called # 0
    <3>1. <<pc, 1>> \in Slots(program)
      BY <1>2, <1>5, SlotsOf, SMTT(30)
    <3>2. Here \in Nat \X Nat /\ Earlier(<<pc, 1>>, Here)
      BY <1>2, <2>2 DEF Here, Earlier
    <3> QED
      BY <1>2, <3>1, <3>2, PlaceMonotone, PlaceType
  <2> QED
    BY <2>1, <2>2
<1>8. pc' \in 1..(Len(program) + 1) /\ called' \in Nat
  BY <1>2, <1>3
<1>9. CASE Matches(o, "call") /\ Replay(o) /\ UNCHANGED pending
  <2>1. pending = {}
    BY <1>1, <1>2, <1>9, ReplayFinds
  <2>2. PositionInv'
    BY <1>2, <1>3, <1>4, <1>5, <1>9, <2>1 DEF IInv, PositionInv
  <2>3. Place(program, <<pc', 1>>) <= Place(program, Here) + 1
    BY <1>2, <1>3, <1>7, PlaceType
  <2> QED
    BY <1>1, <1>2, <1>3, <1>6, <1>8, <1>9, <2>2, <2>3, ReplayInv
<1>10. CASE /\ ~Matches(o, "call")
            /\ CarryOut(o)
            /\ pending' = pending \cup {o}
            /\ UNCHANGED <<entries, given>>
  <2>1. /\ executed' = [executed EXCEPT ![o] = executed[o] + 1]
        /\ replaying' = FALSE /\ UNCHANGED cursor
    BY <1>10 DEF CarryOut
  <2>2. executed \in [Ops -> Nat] /\ pending \subseteq Ops /\ IsFiniteSet(pending)
    BY DEF IInv, TypeOK, PositionInv
  <2>3. executed' \in [Ops -> Nat] /\ \A q \in Ops : executed'[q] >= executed[q] /\ executed'[o] > 0
    BY <1>2, <2>1, <2>2, SMTT(30)
  <2>4. o \notin pending
    <3> SUFFICES ASSUME o \in pending PROVE FALSE
      OBVIOUS
    <3>1. PICK k \in 1..called : o = program[pc].ops[k]
      BY DEF IInv, PositionInv
    <3>2. k \in DOMAIN program[pc].ops /\ called + 1 \in DOMAIN program[pc].ops
      BY <1>1, <1>2, <1>5, StepOps
    <3>3. k = called + 1
      BY <1>2, <3>1, <3>2, DurableAssumption
    <3> QED
      BY <1>2, <3>1, <3>3
  <2>5. /\ IsFiniteSet(pending') /\ Cardinality(pending') = Cardinality(pending) + 1
        /\ Cardinality(pending) \in Nat
    BY <1>10, <2>2, <2>4, FS_AddElement, FS_CardinalityType
  <2>6. TypeOK'
    BY <1>2, <1>3, <1>8, <1>10, <2>1, <2>2, <2>3 DEF IInv, TypeOK
  <2>7. PositionInv'
    <3>1. \A q \in pending' : executed'[q] > 0 /\ \E k \in 1..called' : q = program'[pc'].ops[k]
      <4>1. ASSUME NEW q \in pending
            PROVE  executed'[q] > 0 /\ \E k \in 1..called' : q = program'[pc'].ops[k]
        <5>1. executed[q] > 0 /\ executed[q] \in Nat /\ executed'[q] \in Nat
          BY <2>2, <2>3 DEF IInv, PositionInv
        <5>2. PICK k \in 1..called : q = program[pc].ops[k]
          BY DEF IInv, PositionInv
        <5>3. k \in 1..called'
          BY <1>2, <1>3
        <5> QED
          BY <1>3, <2>2, <2>3, <5>1, <5>2, <5>3
      <4>2. executed'[o] > 0 /\ \E k \in 1..called' : o = program'[pc'].ops[k]
        <5>1. called + 1 \in 1..called'
          BY <1>2, <1>3
        <5>2. o = program'[pc'].ops[called + 1]
          BY <1>3
        <5> QED
          BY <1>2, <2>3, <5>1, <5>2
      <4> HIDE DEF o
      <4> QED
        BY <1>10, <4>1, <4>2
    <3> QED
      BY <1>2, <1>3, <1>4, <1>5, <2>5, <3>1 DEF PositionInv
  <2>8. LogInv'
    <3>1. Faithful(program, entries)' /\ Faithful(program, saved)'
      BY <1>3, <1>10 DEF IInv, LogInv
    <3>2. ASSUME ~DepartedBy(program, entries, Len(entries))
          PROVE  /\ Len(entries) + Cardinality(pending') = Place(program, Here')
                 /\ Place(program, <<pc, 1>>) <= Len(entries)
      <4>1. /\ Len(entries) + Cardinality(pending) = Place(program, Here)
            /\ Place(program, <<pc, 1>>) <= Len(entries)
        BY <1>1, <1>2, <1>10, <3>2, CarryOutNeeded
      <4>2. Len(entries) \in Nat
        BY DEF IInv, TypeOK
      <4> QED
        BY <1>2, <1>6, <2>5, <4>1, <4>2
    <3> QED
      BY <1>3, <1>10, <2>1, <3>1, <3>2 DEF LogInv
  <2>9. OwnValues'
    BY <1>3, <1>10 DEF IInv, OwnValues, Unnamed
  <2>10. SequentialInv'
    BY <1>3, <1>10 DEF IInv, SequentialInv, Sequential, InOrder
  <2> QED
    BY <2>6, <2>7, <2>8, <2>9, <2>10 DEF IInv
<1> QED
  BY <1>9, <1>10 DEF sideEffect

\* The function of a call returns.
LEMMA EffectReturnsInv ==
  ASSUME IInv, NEW o \in Ops, EffectReturns(o)
  PROVE  IInv'
<1>1. /\ program \in Programs /\ pc \in DOMAIN program /\ program[pc].kind = "call"
      /\ DOMAIN program = 1..Len(program) /\ Len(program) \in Nat
      /\ called \in Nat /\ pc \in Nat
      /\ status = "running" /\ request = "none"
      /\ called = Len(program[pc].ops)
      /\ o \in pending /\ pending' = pending \ {o}
      /\ Record(o, "call", executed[o])
      /\ UNCHANGED <<program, status, attempt, saved, executed, pc, called, request,
                     cursor, replaying, blind>>
  BY SlotsOf DEF EffectReturns, At, IInv, TypeOK
<1>2. executed[o] \in Nat \ {0}
  BY <1>1 DEF IInv, TypeOK, PositionInv
<1>3. PICK k \in 1..called : o = program[pc].ops[k]
  BY <1>1 DEF IInv, PositionInv
<1>4. ~replaying
  BY <1>1 DEF IInv, LogInv
<1>5. /\ IsFiniteSet(pending) /\ IsFiniteSet(pending')
      /\ Cardinality(pending) \in Nat \ {0}
      /\ Cardinality(pending') = Cardinality(pending) - 1
  <2>1. IsFiniteSet(pending)
    BY DEF IInv, PositionInv
  <2>2. Cardinality(pending) \in Nat /\ Cardinality(pending) # 0
    BY <1>1, <2>1, FS_CardinalityType, FS_EmptySet
  <2> QED
    BY <1>1, <2>1, <2>2, FS_RemoveElement
<1>6. entries \in Seq(Entries) /\ Len(entries) \in Nat
  BY DEF IInv, TypeOK
<1>7. ASSUME ~DepartedBy(program, entries, Len(entries))
      PROVE  /\ Len(entries) + Cardinality(pending) = Place(program, Here)
             /\ Place(program, <<pc, 1>>) <= Len(entries)
             /\ Len(entries) < Place(program, Here)
  <2>1. /\ Len(entries) + Cardinality(pending) = Place(program, Here)
        /\ Place(program, <<pc, 1>>) <= Len(entries)
    BY <1>4, <1>7 DEF IInv, LogInv
  <2> QED
    BY <1>5, <1>6, <2>1
<1>8. ASSUME ~DepartedBy(program, entries, Len(entries)),
             NEW s \in Slots(program), Place(program, s) = Len(entries)
      PROVE  s[1] = pc
  <2>1. s[1] \in Nat /\ s[2] \in Nat /\ s[1] \in DOMAIN program
    BY <1>1, SlotsOf
  <2>2. ASSUME s[1] < pc PROVE FALSE
    <3>1. Earlier(s, <<pc, 1>>) /\ <<pc, 1>> \in Nat \X Nat
      BY <1>1, <2>2 DEF Earlier
    <3>2. Place(program, s) < Place(program, <<pc, 1>>)
      BY <1>1, <3>1, PlaceMonotone
    <3> QED
      BY <1>1, <1>6, <1>7, <1>8, <3>2, PlaceType
  <2>3. ASSUME s[1] > pc PROVE FALSE
    <3>1. Before(program, Here) \subseteq Before(program, s)
      BY <1>1, <2>1, <2>3, SlotsOf DEF Before, Earlier, Here
    <3>2. Place(program, Here) <= Place(program, s)
      BY <1>1, <3>1, PlaceType, FS_Subset DEF Place
    <3> QED
      BY <1>1, <1>6, <1>7, <1>8, <3>2, PlaceType
  <2> QED
    BY <1>1, <2>1, <2>2, <2>3
<1>9. Sequential => \E s \in Slots(program) : /\ Place(program, s) = Len(entries)
                                               /\ s[1] = pc /\ OpAt(program, s) = o
  <2> SUFFICES ASSUME Sequential
               PROVE  \E s \in Slots(program) : /\ Place(program, s) = Len(entries)
                                                /\ s[1] = pc /\ OpAt(program, s) = o
    OBVIOUS
  <2>1. ~DepartedBy(program, entries, Len(entries))
    BY <1>1, <1>6, InOrderStays DEF IInv, SequentialInv
  <2>2. called = 1 /\ k = 1
    <3>1. Len(program[pc].ops) <= 1
      BY <1>1 DEF Sequential
    <3>2. called <= 1 /\ called \in Nat /\ k \in 1..called
      BY <1>1, <1>3, <3>1
    <3>3. k \in Nat /\ 1 <= k /\ k <= called
      BY <3>2
    <3> QED
      BY <3>2, <3>3
  <2>3. <<pc, 1>> \in Slots(program)
    BY <1>1, <2>2, SlotsOf
  <2>4. Place(program, <<pc, 2>>) = Place(program, <<pc, 1>>) + 1
    <3>1. Place(program, <<pc, 1 + 1>>) = Place(program, <<pc, 1>>) + 1
      BY <1>1, <2>3, PlaceSteps
    <3> QED
      BY <3>1
  <2>5. Here = <<pc, 2>>
    BY <2>2 DEF Here
  <2>6. Place(program, <<pc, 1>>) = Len(entries)
    BY <1>1, <1>6, <1>7, <2>1, <2>4, <2>5, PlaceType
  <2>7. OpAt(program, <<pc, 1>>) = o
    BY <1>3, <2>2 DEF OpAt
  <2> QED
    BY <2>3, <2>6, <2>7
<1>10. /\ Faithful(program, entries)' /\ Faithful(program, saved)'
       /\ entries' \in Seq(Entries) /\ Len(entries') = Len(entries) + 1
       /\ given' \in [Ops -> (Ops \X (Nat \ {0})) \cup {None}]
       /\ DepartedBy(program, entries, Len(entries)) =>
            DepartedBy(program', entries', Len(entries'))
       /\ OwnValues' /\ SequentialInv'
  <2>1. \/ DepartedBy(program, entries, Len(entries))
        \/ \A s \in Slots(program) : Place(program, s) = Len(entries) =>
             s[1] = pc /\ ("call" # "call" => OpAt(program, s) = o)
    BY <1>8
  <2>2. k \in DOMAIN program[pc].ops
    BY <1>1, <1>3, StepOps
  <2> QED
    BY <1>1, <1>2, <1>3, <1>9, <2>1, <2>2, RecordInv
<1>11. TypeOK'
  <2>1. cursor' \in 0..Len(entries')
    BY <1>1, <1>6, <1>10 DEF IInv, TypeOK
  <2> QED
    BY <1>1, <1>10, <2>1 DEF IInv, TypeOK
<1>12. PositionInv'
  BY <1>1, <1>5 DEF IInv, PositionInv
<1>13. LogInv'
  <2>1. ASSUME ~DepartedBy(program', entries', Len(entries'))
        PROVE  /\ Len(entries') + Cardinality(pending') = Place(program', Here')
               /\ Place(program', <<pc', 1>>) <= Len(entries')
    <3>1. ~DepartedBy(program, entries, Len(entries))
      BY <1>10, <2>1
    <3>2. Here' = Here
      BY <1>1 DEF Here
    <3>3. Len(entries') + Cardinality(pending') = Len(entries) + Cardinality(pending)
      BY <1>5, <1>6, <1>10
    <3>4. Place(program, <<pc, 1>>) <= Len(entries')
      BY <1>1, <1>6, <1>7, <1>10, <3>1, PlaceType
    <3> QED
      BY <1>1, <1>7, <3>1, <3>2, <3>3, <3>4
  <2> QED
    BY <1>1, <1>4, <1>10, <2>1 DEF LogInv
<1> QED
  BY <1>10, <1>11, <1>12, <1>13 DEF IInv

\* The other steps of the handler, and what ends its attempt.
LEMMA GoesOnInv ==
  ASSUME IInv, StepDone \/ Answered
  PROVE  IInv'
<1>1. /\ program \in Programs /\ program' = program
      /\ DOMAIN program = 1..Len(program) /\ Len(program) \in Nat
      /\ called \in Nat /\ pc \in Nat /\ entries \in Seq(Entries) /\ Len(entries) \in Nat
  BY SlotsOf DEF StepDone, Answered, IInv, TypeOK
<1>2. /\ pc \in DOMAIN program /\ called = Len(program[pc].ops) /\ pending = {}
      /\ status = "running" /\ request # "resume"
  <2>1. CASE StepDone
    BY <1>1, <2>1 DEF StepDone, At, IInv, TypeOK
  <2>2. CASE Answered
    <3>1. /\ pc \in DOMAIN program /\ program[pc].kind \in {"checkpoint", "complete"}
          /\ status = "running" /\ request # "resume"
      BY <1>1, <2>2 DEF Answered, IInv, TypeOK, PositionInv
    <3>2. called = 0 /\ Len(program[pc].ops) = 0
      BY <1>1, <3>1, StepOps DEF IInv, PositionInv
    <3>3. pending = {}
      BY <3>2 DEF IInv, PositionInv
    <3> QED
      BY <3>1, <3>2, <3>3
  <2> QED
    BY <2>1, <2>2
<1>3. /\ called' = 0 /\ pc' = pc + 1 /\ request' = "none"
      /\ saved' \in {saved, entries, <<>>}
      /\ UNCHANGED <<status, attempt, executed, pending, entries, cursor, replaying, given, blind>>
  <2>1. CASE StepDone
    BY <2>1 DEF StepDone, At
  <2>2. CASE Answered
    <3>1. program[pc].kind \in {"checkpoint", "complete"}
      BY <2>2 DEF Answered, IInv, PositionInv
    <3>2. called = 0
      BY <1>1, <3>1 DEF IInv, PositionInv
    <3> QED
      BY <2>2, <3>2 DEF Answered, Effect
  <2> QED
    BY <2>1, <2>2
<1>4. /\ Here' = <<pc + 1, 1>>
      /\ Place(program, Here') = Place(program, Here)
  BY <1>1, <1>2, <1>3, PlaceSteps DEF Here
<1>5. /\ saved' \in Seq(Entries) /\ Faithful(program, saved')
      /\ Sequential => InOrder(program, saved')
      /\ Sequential /\ ~blind => /\ Len(saved') <= Len(entries)
                                 /\ \A i \in DOMAIN saved' : entries[i] = saved'[i]
  <2>1. CASE saved' = saved
    BY <1>2, <2>1 DEF IInv, TypeOK, LogInv, SequentialInv
  <2>2. CASE saved' = entries
    BY <1>1, <2>2 DEF IInv, LogInv, SequentialInv
  <2>3. CASE saved' = <<>>
    BY <1>1, <2>3, PlaceType DEF Faithful, InOrder
  <2> QED
    BY <1>3, <2>1, <2>2, <2>3
<1>6. TypeOK'
  BY <1>1, <1>2, <1>3, <1>5 DEF IInv, TypeOK
<1>7. PositionInv'
  BY <1>2, <1>3, FS_EmptySet DEF PositionInv
<1>8. LogInv'
  <2>1. ASSUME ~replaying, ~DepartedBy(program, entries, Len(entries))
        PROVE  /\ Len(entries) + Cardinality(pending) = Place(program, Here')
               /\ Place(program, <<pc + 1, 1>>) <= Len(entries)
    <3>1. Len(entries) + Cardinality(pending) = Place(program, Here)
      BY <2>1 DEF IInv, LogInv
    <3>2. Cardinality(pending) = 0
      BY <1>2, FS_EmptySet
    <3> QED
      BY <1>1, <1>4, <3>1, <3>2
  <2> QED
    BY <1>1, <1>3, <1>4, <1>5, <2>1 DEF IInv, LogInv
<1>9. OwnValues'
  BY <1>1, <1>3 DEF IInv, OwnValues, Unnamed
<1>10. SequentialInv'
  BY <1>1, <1>3, <1>5 DEF IInv, SequentialInv, Sequential
<1> QED
  BY <1>6, <1>7, <1>8, <1>9, <1>10 DEF IInv

\* A job is handed out, and its context gets its checkpoint or does not.
LEMMA CreateInv ==
  ASSUME IInv, create \/ Resumed \/ ResumeFails
  PROVE  IInv'
<1>1. /\ program \in Programs /\ program' = program /\ Fresh
      /\ UNCHANGED <<saved, executed, pc, called, pending, cursor, given>>
  BY DEF create, Resumed, ResumeFails, IInv, TypeOK, PositionInv
<1>2. /\ pc = 1 /\ called = 0 /\ pending = {} /\ entries = <<>> /\ cursor = 0
      /\ ~replaying /\ given = NoValues /\ ~blind
  BY <1>1 DEF Fresh
<1>3. Here = <<1, 1>> /\ Here' = <<1, 1>> /\ Place(program, <<1, 1>>) = 0
  BY <1>1, <1>2, PlaceSteps DEF Here
<1>4. OwnValues'
  BY <1>1 DEF IInv, OwnValues, Unnamed
<1>5. saved \in Seq(Entries) /\ Len(saved) \in Nat
  BY DEF IInv, TypeOK
<1>6. CASE create \/ ResumeFails
  <2>1. UNCHANGED <<entries, replaying>> /\ status' # "queued" /\ (request' # "resume" => blind')
    BY <1>6 DEF create, ResumeFails, IInv, PositionInv
  <2>2. TypeOK'
    <3>1. CASE create
      <4>1. attempt \in Nat /\ attempt < MaxAttempts /\ attempt' = attempt + 1
        BY <3>1 DEF create, IInv, TypeOK
      <4>2. attempt' \in 0..MaxAttempts
        BY <4>1, DurableAssumption
      <4>3. status' = "running" /\ request' = "resume" /\ UNCHANGED blind
        BY <3>1 DEF create
      <4> QED
        BY <1>1, <2>1, <4>2, <4>3 DEF IInv, TypeOK
    <3>2. CASE ResumeFails
      <4>1. request' = "none" /\ blind' = TRUE /\ UNCHANGED <<status, attempt>>
        BY <3>2 DEF ResumeFails
      <4> QED
        BY <1>1, <2>1, <4>1 DEF IInv, TypeOK
    <3> QED
      BY <1>6, <3>1, <3>2
  <2>3. PositionInv'
    BY <1>6 DEF create, ResumeFails, IInv, PositionInv, Fresh
  <2>4. LogInv'
    BY <1>1, <1>3, <2>1 DEF IInv, LogInv
  <2>5. SequentialInv'
    BY <1>1, <2>1 DEF IInv, SequentialInv, Sequential
  <2> QED
    BY <1>4, <2>2, <2>3, <2>4, <2>5 DEF IInv
<1>7. CASE Resumed
  <2>1. /\ entries' = saved /\ replaying' = (saved # <<>>) /\ request' = "none"
        /\ status = "running" /\ UNCHANGED <<status, blind>>
    BY <1>7 DEF Resumed, IInv, PositionInv
  <2>2. TypeOK'
    BY <1>1, <1>2, <1>5, <1>7 DEF Resumed, IInv, TypeOK
  <2>3. PositionInv'
    BY <1>1, <2>1 DEF IInv, PositionInv
  <2>4. LogInv'
    <3>1. replaying' => cursor' < Len(entries')
      <4>1. SUFFICES ASSUME replaying' PROVE cursor' < Len(entries')
        OBVIOUS
      <4>2. saved # <<>>
        BY <2>1, <4>1
      <4>3. Len(saved) > 0
        BY <1>5, <4>2
      <4> QED
        BY <1>1, <1>2, <2>1, <4>3
    <3>2. ~replaying' => Len(entries') + Cardinality(pending') = 0 /\ 0 <= Len(entries')
      <4>1. SUFFICES ASSUME ~replaying'
                     PROVE  Len(entries') + Cardinality(pending') = 0 /\ 0 <= Len(entries')
        OBVIOUS
      <4>2. entries' = <<>>
        BY <2>1, <4>1
      <4>3. pending' = {} /\ Cardinality({}) = 0
        BY <1>1, <1>2, FS_EmptySet
      <4> QED
        BY <4>2, <4>3
    <3>3. \A s \in Slots(program) : ~(Place(program, s) < 0)
      BY <1>1, PlaceType
    <3> QED
      BY <1>1, <1>2, <1>3, <2>1, <3>1, <3>2, <3>3 DEF IInv, LogInv
  <2>5. SequentialInv'
    BY <1>1, <1>2, <1>5, <2>1 DEF IInv, SequentialInv, Sequential, NoValues
  <2> QED
    BY <1>4, <2>2, <2>3, <2>4, <2>5 DEF IInv
<1> QED
  BY <1>6, <1>7

\* An attempt ends, with or without the effect of a request in flight.
LEMMA AttemptEndsInv ==
  ASSUME IInv, AttemptEnds
  PROVE  IInv'
<1>1. /\ program \in Programs /\ program' = program /\ Len(program) \in Nat
      /\ status' = "queued" /\ request' = "none"
      /\ pc' = 1 /\ called' = 0 /\ pending' = {} /\ entries' = <<>> /\ cursor' = 0
      /\ replaying' = FALSE /\ given' = NoValues /\ blind' = FALSE
      /\ saved' \in {saved, entries, <<>>}
      /\ UNCHANGED <<attempt, executed>>
  BY SlotsOf DEF AttemptEnds, Effect, IInv, TypeOK
<1>2. Faithful(program, <<>>) /\ InOrder(program, <<>>) /\ <<>> \in Seq(Entries)
  BY <1>1, PlaceType DEF Faithful, InOrder
<1>3. /\ saved' \in Seq(Entries) /\ Faithful(program, saved')
      /\ Sequential => InOrder(program, saved')
  <2>1. CASE saved' = saved
    BY <2>1 DEF IInv, TypeOK, LogInv, SequentialInv
  <2>2. CASE saved' = entries
    BY <2>2 DEF IInv, TypeOK, LogInv, SequentialInv
  <2>3. CASE saved' = <<>>
    BY <1>2, <2>3
  <2> QED
    BY <1>1, <2>1, <2>2, <2>3
<1>4. TypeOK'
  <2>1. given' \in [Ops -> (Ops \X (Nat \ {0})) \cup {None}]
    BY <1>1 DEF NoValues
  <2>2. cursor' \in 0..Len(entries') /\ entries' \in Seq(Entries)
    BY <1>1, <1>2
  <2>3. pc' \in 1..(Len(program') + 1) /\ called' \in Nat /\ pending' \subseteq Ops
    BY <1>1
  <2>4. program' \in Programs /\ attempt' \in 0..MaxAttempts /\ executed' \in [Ops -> Nat]
    BY <1>1 DEF IInv, TypeOK
  <2>5. /\ status' \in {"queued", "running", "done"} /\ saved' \in Seq(Entries)
        /\ request' \in {"none", "resume", "checkpoint", "complete"}
        /\ replaying' \in BOOLEAN /\ blind' \in BOOLEAN
    BY <1>1, <1>3
  <2> QED
    BY <2>1, <2>2, <2>3, <2>4, <2>5 DEF TypeOK
<1>5. PositionInv'
  BY <1>1, FS_EmptySet DEF PositionInv, Fresh, NoValues
<1>6. LogInv'
  <2>1. Place(program, Here') = 0 /\ Place(program, <<1, 1>>) = 0
    BY <1>1, PlaceSteps DEF Here
  <2>2. Cardinality(pending') = 0 /\ Len(entries') = 0
    BY <1>1, FS_EmptySet
  <2> QED
    BY <1>1, <1>2, <1>3, <2>1, <2>2 DEF LogInv
<1>7. OwnValues'
  BY <1>1 DEF OwnValues, NoValues
<1>8. SequentialInv'
  BY <1>1, <1>2, <1>3 DEF SequentialInv, Sequential, NoValues
<1> QED
  BY <1>4, <1>5, <1>6, <1>7, <1>8 DEF IInv

\* Asking for a checkpoint to be saved or deleted, and the ack of the job.
LEMMA SendInv ==
  ASSUME IInv, checkpoint \/ complete \/ JobAcked
  PROVE  IInv'
<1>1. /\ program \in Programs /\ pc \in 1..(Len(program) + 1) /\ Len(program) \in Nat
      /\ called \in Nat /\ pc \in Nat
      /\ status = "running" /\ request = "none" /\ status' \in {"running", "done"}
      /\ UNCHANGED <<program, attempt, saved, executed, pc, called, pending, entries,
                     cursor, replaying, given, blind>>
  BY SlotsOf DEF checkpoint, complete, Send, At, JobAcked, memory, IInv, TypeOK
<1>2. \/ request' = "none"
      \/ /\ request' \in {"checkpoint", "complete"} /\ status' = "running"
         /\ pc <= Len(program) /\ program[pc].kind = request'
  BY DEF checkpoint, complete, Send, At, JobAcked, memory
<1>3. TypeOK'
  BY <1>1, <1>2 DEF IInv, TypeOK
<1>4. PositionInv'
  <2>1. status' # "queued" /\ request' # "resume"
    BY <1>1, <1>2
  <2> QED
    BY <1>1, <1>2, <2>1 DEF IInv, PositionInv
<1>5. LogInv'
  BY <1>1 DEF IInv, LogInv, Here
<1>6. OwnValues'
  BY <1>1 DEF IInv, OwnValues, Unnamed
<1>7. SequentialInv'
  BY <1>1 DEF IInv, SequentialInv, Sequential
<1> QED
  BY <1>3, <1>4, <1>5, <1>6, <1>7 DEF IInv

\* Every step keeps the invariant.
LEMMA StepInv == IInv /\ [Next]_vars => IInv'
<1> SUFFICES ASSUME IInv, [Next]_vars PROVE IInv'
  OBVIOUS
<1>1. CASE create \/ Resumed \/ ResumeFails
  BY <1>1, CreateInv
<1>2. CASE Draw("time") \/ Draw("random")
  BY <1>2, DrawInv
<1>3. CASE sideEffect
  BY <1>3, SideEffectInv
<1>4. CASE \E o \in Ops : EffectReturns(o)
  BY <1>4, EffectReturnsInv
<1>5. CASE StepDone \/ Answered
  BY <1>5, GoesOnInv
<1>6. CASE AttemptEnds
  BY <1>6, AttemptEndsInv
<1>7. CASE checkpoint \/ complete \/ JobAcked
  BY <1>7, SendInv
<1>8. CASE UNCHANGED vars
  <2>1. UNCHANGED <<program, status, attempt, saved, executed, pc, called, pending, request,
                    entries, cursor, replaying, given, blind>>
    BY <1>8 DEF vars, memory
  <2>2. TypeOK' /\ PositionInv'
    BY <2>1 DEF IInv, TypeOK, PositionInv, Fresh
  <2>3. LogInv'
    BY <2>1 DEF IInv, LogInv, Here
  <2>4. OwnValues' /\ SequentialInv'
    BY <2>1 DEF IInv, OwnValues, Unnamed, SequentialInv, Sequential
  <2> QED
    BY <2>2, <2>3, <2>4 DEF IInv
<1> QED
  BY <1>1, <1>2, <1>3, <1>4, <1>5, <1>6, <1>7, <1>8 DEF Next

-----------------------------------------------------------------------------
(* The theorems *)

\* The inductive invariant holds in every reachable state, for every set of
\* handlers, every bound on the attempts and every way they end.
THEOREM Invariance == Spec => []IInv
BY InitInv, StepInv, PTL DEF Spec

\* Every variable of a durable context, of its job and of its checkpoint keeps
\* its type; above all the cursor stays within the log.
THEOREM TypeCorrect == Spec => []TypeOK
<1>1. IInv => TypeOK
  BY DEF IInv
<1> QED
  BY <1>1, Invariance, PTL

\* sideEffect(), now() and random() never give an op the value of another,
\* however calls that were made together interleave, and whatever part of
\* them the checkpoint has, even where a call without a key among them has
\* taken another's entry; that call is the exception.
THEOREM OwnValuesOnly == Spec => []OwnValues
<1>1. IInv => OwnValues
  BY DEF IInv
<1> QED
  BY <1>1, Invariance, PTL

\* An op is called at one place of the handler, so at one place of a log in
\* order.
LEMMA OpOnce ==
  ASSUME NEW p \in Programs, NEW s \in Slots(p), NEW t \in Slots(p), OpAt(p, s) = OpAt(p, t)
  PROVE  s = t
<1>1. /\ s = <<s[1], s[2]>> /\ t = <<t[1], t[2]>>
      /\ s[1] \in DOMAIN p /\ t[1] \in DOMAIN p
      /\ s[2] \in 1..Len(p[s[1]].ops) /\ t[2] \in 1..Len(p[t[1]].ops)
  BY SlotsOf
<1>2. s[2] \in DOMAIN p[s[1]].ops /\ t[2] \in DOMAIN p[t[1]].ops
  BY <1>1, StepOps
<1>3. s[1] = t[1] /\ s[2] = t[2]
  BY <1>1, <1>2, DurableAssumption DEF OpAt
<1> QED
  BY <1>1, <1>3

LEMMA KeyOnce ==
  ASSUME program \in Programs, NEW log \in Seq(Entries), InOrder(program, log),
         NEW i \in DOMAIN log, NEW j \in DOMAIN log, log[i].key = log[j].key
  PROVE  i = j
<1>1. PICK s \in Slots(program) : Place(program, s) = i - 1 /\ Is(program, log, s)
  BY DEF InOrder
<1>2. PICK t \in Slots(program) : Place(program, t) = j - 1 /\ Is(program, log, t)
  BY DEF InOrder
<1>3. i \in Nat /\ j \in Nat /\ (i - 1) + 1 = i /\ (j - 1) + 1 = j
  OBVIOUS
<1>4. OpAt(program, s) = OpAt(program, t)
  BY <1>1, <1>2, <1>3 DEF Is
<1>5. s = t
  BY <1>4, OpOnce
<1> QED
  BY <1>1, <1>2, <1>3, <1>5

\* A sequential handler that got its checkpoint sees, attempt after attempt,
\* the values that are on it, for time, randomness and side effects alike.
THEOREM ValuesStay == Spec => []SameValuesAgain
<1>1. IInv => SameValuesAgain
  <2> SUFFICES ASSUME IInv, Sequential, ~blind, NEW i \in DOMAIN saved,
                      given[saved[i].result[1]] # None
               PROVE  given[saved[i].result[1]] = saved[i].result
    BY DEF SameValuesAgain
  <2> DEFINE o == saved[i].result[1]
  <2>1. program \in Programs /\ saved \in Seq(Entries) /\ entries \in Seq(Entries)
    BY DEF IInv, TypeOK
  <2>2. saved[i] \in Entries
    BY <2>1
  <2>3. o \in Ops /\ saved[i].key = o
    BY <2>2 DEF Entries, IInv, LogInv, Faithful
  <2>4. status # "queued" /\ request # "resume"
    BY <2>3 DEF IInv, PositionInv, Fresh, NoValues
  <2>5. i \in DOMAIN entries /\ entries[i] = saved[i] /\ InOrder(program, entries)
    BY <2>1, <2>4 DEF IInv, SequentialInv
  <2>6. PICK j \in DOMAIN entries : entries[j].key = o /\ entries[j].result = given[o]
    BY <2>3 DEF IInv, SequentialInv
  <2>7. i = j
    BY <2>1, <2>3, <2>5, <2>6, KeyOnce
  <2> QED
    BY <2>5, <2>6, <2>7
<1> QED
  BY <1>1, Invariance, PTL

\* What a sequential handler carries out is on no checkpoint.
LEMMA CarriedOutIsNew ==
  ASSUME IInv, Sequential, ~blind, NEW kind, At(kind), called < Len(program[pc].ops),
         ~Matches(OpAt(program, Here), kind)
  PROVE  OpAt(program, Here) \notin SavedOps
<1> SUFFICES ASSUME NEW i \in DOMAIN saved, saved[i].result[1] = OpAt(program, Here)
             PROVE  FALSE
  BY DEF SavedOps
<1>1. /\ program \in Programs /\ saved \in Seq(Entries) /\ entries \in Seq(Entries)
      /\ Here \in Slots(program) /\ Place(program, Here) \in Nat
  BY AtCall DEF IInv, TypeOK
<1>2. status = "running" /\ request = "none"
  BY DEF At
<1>3. i \in DOMAIN entries /\ entries[i] = saved[i] /\ InOrder(program, entries)
  BY <1>1, <1>2 DEF IInv, SequentialInv
<1>4. entries[i].key = OpAt(program, Here)
  BY <1>3 DEF IInv, LogInv, Faithful
<1>5. PICK s \in Slots(program) : Place(program, s) = i - 1 /\ Is(program, entries, s)
  BY <1>3 DEF InOrder
<1>6. i \in Nat /\ (i - 1) + 1 = i /\ i <= Len(entries) /\ Len(entries) \in Nat
  BY <1>1, <1>3
<1>7. OpAt(program, s) = OpAt(program, Here)
  BY <1>4, <1>5, <1>6 DEF Is
<1>8. s = Here
  BY <1>1, <1>7, OpOnce
<1>9. Len(entries) + Cardinality(pending) = Place(program, Here)
  BY <1>1, <1>3, InOrderStays, CarryOutNeeded
<1>10. Cardinality(pending) \in Nat
  BY FS_CardinalityType DEF IInv, PositionInv
<1> QED
  BY <1>1, <1>5, <1>6, <1>8, <1>9, <1>10

\* An op whose result is on the checkpoint at the server is not carried out
\* again by a sequential handler that got hold of its checkpoint, no matter
\* which attempt wrote it, where that ended and what it had seen.
THEOREM NothingTwice == Spec => RecordedRunsOnce
<1>1. IInv /\ [Next]_vars =>
        [Sequential /\ ~blind => \A o \in SavedOps : executed'[o] = executed[o]]_vars
  <2> SUFFICES ASSUME IInv, Next, Sequential, ~blind, NEW o \in SavedOps
               PROVE  executed'[o] = executed[o]
    OBVIOUS
  <2>1. executed \in [Ops -> Nat]
    BY DEF IInv, TypeOK
  <2>2. ASSUME NEW kind, At(kind), called < Len(program[pc].ops),
               ~Matches(OpAt(program, Here), kind), CarryOut(OpAt(program, Here))
        PROVE  executed'[o] = executed[o]
    <3>1. OpAt(program, Here) \notin SavedOps
      BY <2>2, CarriedOutIsNew
    <3> QED
      BY <2>1, <2>2, <3>1 DEF CarryOut
  <2>3. CASE sideEffect
    <3>1. /\ At("call") /\ called < Len(program[pc].ops)
          /\ OpAt(program, Here) = program[pc].ops[called + 1]
      BY <2>3 DEF sideEffect, OpAt, Here
    <3>2. \/ executed' = executed
          \/ ~Matches(OpAt(program, Here), "call") /\ CarryOut(OpAt(program, Here))
      BY <2>3, <3>1 DEF sideEffect, Replay
    <3> QED
      BY <2>2, <3>1, <3>2
  <2>4. ASSUME NEW kind \in {"time", "random"}, Draw(kind) PROVE executed'[o] = executed[o]
    <3>1. At(kind) /\ pc \in DOMAIN program /\ program \in Programs /\ called \in Nat
      BY <2>4, SlotsOf DEF Draw, At, IInv, TypeOK
    <3>2. program[pc].kind = kind
      BY <3>1 DEF At
    <3>3. Len(program[pc].ops) = 1 /\ called = 0
      BY <3>1, <3>2, StepOps DEF IInv, PositionInv
    <3>4. OpAt(program, Here) = program[pc].ops[1]
      BY <3>3 DEF OpAt, Here
    <3>5. \/ executed' = executed
          \/ ~Matches(OpAt(program, Here), kind) /\ CarryOut(OpAt(program, Here))
      BY <2>4, <3>4 DEF Draw, Replay
    <3>6. called < Len(program[pc].ops)
      BY <3>3
    <3> QED
      BY <2>2, <3>1, <3>5, <3>6
  <2>5. CASE UNCHANGED executed
    BY <2>5
  <2>6. ASSUME ~sideEffect, \A kind \in {"time", "random"} : ~Draw(kind) PROVE UNCHANGED executed
    BY <2>6 DEF Next, create, Resumed, ResumeFails, EffectReturns, StepDone, checkpoint, complete,
                Send, Answered, AttemptEnds, JobAcked
  <2> QED
    BY <2>3, <2>4, <2>5, <2>6
<1> QED
  BY <1>1, Invariance, PTL DEF Spec, RecordedRunsOnce
=============================================================================
