----------------------------- MODULE PayloadProofs -----------------------------
(***************************************************************************)
(* What Payload promises of the arguments, for any number of jobs, keys,   *)
(* workers, middlewares and edits of the chain.                            *)
(*                                                                         *)
(* The inductive invariant follows a job through the chain: the encryption *)
(* has been applied exactly if the call is past its place, unless an edit  *)
(* has moved that place over the call; the meta is that of the outermost   *)
(* layer; and a delivery that is being decrypted is as the server has it.  *)
(***************************************************************************)
EXTENDS Payload, TLAPS

Encrypted(a) == a.layers # <<>>

\* The entries of meta are those of the outermost layer of a.
Labelled(a, m) ==
  Encrypted(a) =>
    /\ IsEncrypted(m)
    /\ KeyIdOf(m) # None /\ NonceOf(m) # None
    /\ Outer(a) = Layer(KeyIdOf(m), NonceOf(m))

\* The layers around the arguments of a job whose call no edit has shifted.
Layered(j) ==
  /\ phase[j] = "middleware" /\ at[j] <= before => args[j].layers = <<>>
  /\ phase[j] = "middleware" /\ at[j] > before => Len(args[j].layers) = 1
  /\ phase[j] = "encrypting" => at[j] > before /\ args[j].layers = <<>>
  /\ phase[j] = "requesting" /\ at[j] > 0 => Len(args[j].layers) = 1
  /\ phase[j] \in {"requesting", "stored"} => Len(args[j].layers) <= 1

JobInv(j) ==
  /\ args[j].job = j
  /\ Labelled(args[j], meta[j])
  /\ phase[j] = "idle" => args[j].layers = <<>> /\ at[j] = 0
  /\ j \notin shifted => Layered(j)

WorkInv(w) ==
  LET d == work[w]
  IN  d.state # "idle" =>
        /\ phase[d.job] = "stored"
        /\ Labelled(args[d.job], d.meta)
        /\ d.state = "decrypting" => d.args = args[d.job]
        /\ d.state = "handler" /\ d.job \notin shifted => d.args = Plain(d.job)

IInv ==
  /\ TypeOK
  /\ \A j \in Jobs : JobInv(j)
  /\ \A w \in Workers : WorkInv(w)

-----------------------------------------------------------------------------
(* Layers *)

Layers == [key : Keys, nonce : Nonces]

\* Encrypting arguments puts the new layer outermost.
LEMMA Wrapping ==
  ASSUME NEW a \in Arguments, NEW l \in Layers
  PROVE  /\ Wrap(a, l) \in Arguments
         /\ Wrap(a, l).job = a.job
         /\ Wrap(a, l).layers # <<>>
         /\ Len(Wrap(a, l).layers) = Len(a.layers) + 1
         /\ Outer(Wrap(a, l)) = l
  <1>1. a.layers \in Seq(Layers) /\ a.job \in Jobs
    BY DEF Arguments, Layers
  <1>2. Wrap(a, l) = [job |-> a.job, layers |-> Append(a.layers, l)]
    BY DEF Wrap, Arguments
  <1>3. /\ Append(a.layers, l) \in Seq(Layers)
        /\ Len(Append(a.layers, l)) = Len(a.layers) + 1
        /\ Append(a.layers, l)[Len(a.layers) + 1] = l
        /\ Len(a.layers) \in Nat
    BY <1>1
  <1>4. Append(a.layers, l) # <<>>
    BY <1>3
  <1> QED
    BY <1>1, <1>2, <1>3, <1>4 DEF Arguments, Layers, Outer

\* Decrypting arguments that have one layer gives those that were enqueued.
LEMMA Unwrapping ==
  ASSUME NEW a \in Arguments, a.layers # <<>>
  PROVE  /\ Unwrap(a) \in Arguments
         /\ Len(a.layers) <= 1 => Unwrap(a) = Plain(a.job)
  <1>1. Len(a.layers) \in Nat \ {0}
    BY DEF Arguments
  <1>2. SubSeq(a.layers, 1, Len(a.layers) - 1) \in Seq(Layers)
    <2>1. a.layers \in Seq(Layers)
      BY DEF Arguments, Layers
    <2> QED
      BY <1>1, <2>1
  <1>3. Unwrap(a) = [job |-> a.job, layers |-> SubSeq(a.layers, 1, Len(a.layers) - 1)]
    <2>1. \A x : [a EXCEPT !.layers = x] = [job |-> a.job, layers |-> x]
      BY DEF Arguments
    <2>2. Unwrap(a) = [a EXCEPT !.layers = SubSeq(a.layers, 1, Len(a.layers) - 1)]
      BY Zenon DEF Unwrap
    <2> QED
      BY <2>1, <2>2
  <1>4. ASSUME Len(a.layers) <= 1
        PROVE  SubSeq(a.layers, 1, Len(a.layers) - 1) = <<>>
    BY <1>1, <1>4
  <1> QED
    BY <1>2, <1>3, <1>4 DEF Arguments, Plain, Layers

-----------------------------------------------------------------------------
(* The inductive invariant *)

\* A call that has not been answered concerns no delivery and no other job.
LEMMA CallStep ==
  ASSUME IInv, NEW j \in Jobs, phase[j] # "stored",
         TypeOK', JobInv(j)',
         UNCHANGED <<chain, shifted, work>>,
         \A k \in Jobs \ {j} : /\ phase'[k] = phase[k] /\ at'[k] = at[k]
                               /\ args'[k] = args[k] /\ meta'[k] = meta[k]
  PROVE  IInv'
  <1>1. \A k \in Jobs : JobInv(k)'
    BY DEF IInv, JobInv, Layered, chain, Labelled, Outer, Encrypted, IsEncrypted, KeyIdOf, NonceOf
  <1>2. ASSUME NEW w \in Workers
        PROVE  WorkInv(w)'
    <2> SUFFICES ASSUME work[w].state # "idle" PROVE WorkInv(w)'
      BY DEF WorkInv
    <2>1. work[w].job \in Jobs \ {j}
      BY DEF IInv, TypeOK, WorkInv, Idle, Deliveries
    <2> QED
      BY <2>1 DEF IInv, WorkInv, Labelled, Outer, Encrypted, IsEncrypted, KeyIdOf, NonceOf
  <1> QED
    BY <1>1, <1>2 DEF IInv

\* Where a call of an unshifted job is after dispatch(i), its arguments being
\* as they have to be at place i.
LEMMA Dispatched ==
  ASSUME IInv, NEW j \in Jobs, NEW i \in Nat, Dispatch(j, i), UNCHANGED <<chain, keys, shifted>>,
         args' \in [Jobs -> Arguments], i > 0,
         j \notin shifted => IF i <= before + 1 THEN args'[j].layers = <<>>
                                                ELSE Len(args'[j].layers) = 1
  PROVE  /\ phase' \in [Jobs -> Phases]
         /\ at' \in [Jobs -> Nat]
         /\ keyId' \in [Jobs -> Keys \cup {None}]
         /\ \A k \in Jobs : phase'[k] = "encrypting" => keyId'[k] \in Keys
         /\ \A k \in Jobs \ {j} : phase'[k] = phase[k] /\ at'[k] = at[k]
         /\ phase'[j] # "idle"
         /\ j \notin shifted => Layered(j)'
  <1>1. before \in Nat /\ after \in Nat
    BY DEF IInv, TypeOK
  <1>2. /\ phase'[j] \in {"middleware", "encrypting", "requesting"}
        /\ at'[j] = i
        /\ phase'[j] = "encrypting" <=> i = before + 1
        /\ phase'[j] = "requesting" => i > before + 1
    BY <1>1 DEF Dispatch, IInv, TypeOK, Phases
  <1>3. j \notin shifted => Layered(j)'
    <2>1. CASE i <= before + 1
      <3>1. Len(<<>>) = 0
        OBVIOUS
      <3> QED
        BY <1>1, <1>2, <2>1, <3>1 DEF Layered, chain
    <2>2. CASE i > before + 1
      <3>1. j \notin shifted => Len(args'[j].layers) = 1 /\ Len(args'[j].layers) <= 1
        <4>1. j \notin shifted => Len(args'[j].layers) = 1
          BY <1>1, <2>2
        <4>2. \A n : n = 1 => n <= 1
          OBVIOUS
        <4> QED
          BY <4>1, <4>2
      <3>2. phase'[j] \in {"middleware", "requesting"}
        BY <1>1, <1>2, <2>2
      <3>3. at'[j] > before' /\ ~(at'[j] <= before')
        BY <1>1, <1>2, <2>2 DEF chain
      <3> QED
        BY <3>1, <3>2, <3>3 DEF Layered
    <2> QED
      BY <1>1, <2>1, <2>2
  <1>4. /\ phase' = [phase EXCEPT ![j] = phase'[j]]
        /\ at' = [at EXCEPT ![j] = i]
        /\ keyId' = [keyId EXCEPT ![j] = keyId'[j]]
    BY DEF Dispatch, IInv, TypeOK, Phases
  <1>5. /\ keyId'[j] \in Keys \cup {None}
        /\ phase'[j] = "encrypting" => keyId'[j] \in Keys
    BY <1>1 DEF Dispatch, IInv, TypeOK, Phases
  <1>6. /\ phase \in [Jobs -> Phases]
        /\ at \in [Jobs -> Nat]
        /\ keyId \in [Jobs -> Keys \cup {None}]
        /\ \A k \in Jobs : phase[k] = "encrypting" => keyId[k] \in Keys
    BY DEF IInv, TypeOK
  <1>7. \A k \in Jobs \ {j} : phase'[k] = phase[k] /\ at'[k] = at[k] /\ keyId'[k] = keyId[k]
    BY <1>4, <1>6
  <1>8. \A k \in Jobs : phase'[k] = "encrypting" => keyId'[k] \in Keys
    BY <1>5, <1>6, <1>7
  <1> QED
    BY <1>2, <1>3, <1>4, <1>5, <1>6, <1>7, <1>8 DEF Phases

\* The invariant holds at the start.
LEMMA InvInit == Init => IInv
  <1> SUFFICES ASSUME Init PROVE IInv
    OBVIOUS
  <1> USE PayloadAssumption
  <1>1. \A j \in Jobs : Plain(j) \in Arguments
    BY DEF Plain, Arguments
  <1>2. \A j \in Jobs : OldLayer(j) \in Layers
    BY DEF OldLayer, Layer, Layers, Nonces
  <1>3. NoMeta \in Metas
    BY DEF NoMeta, Metas
  <1>4. \A j \in Jobs : OldMeta(OldLayer(j)) \in Metas
    BY DEF OldMeta, OldLayer, Layer, NoMeta, Metas, Nonces
  <1>5. \A j \in Jobs : Wrap(Plain(j), OldLayer(j)) \in Arguments
    BY <1>1, <1>2, Wrapping
  <1>6. TypeOK
    BY <1>1, <1>3, <1>4, <1>5 DEF Init, TypeOK, Idle, Phases
  <1>7. ASSUME NEW j \in Jobs PROVE JobInv(j)
    <2>1. CASE j \in OldJobs
      <3>1. args[j] = Wrap(Plain(j), OldLayer(j)) /\ meta[j] = OldMeta(OldLayer(j)) /\ phase[j] = "stored"
        BY <2>1 DEF Init
      <3>2. args[j].job = j /\ Len(args[j].layers) = 1 /\ Outer(args[j]) = OldLayer(j)
        <4>1. Plain(j) \in Arguments /\ OldLayer(j) \in Layers
          BY <1>1, <1>2
        <4>2. Plain(j).job = j /\ Len(Plain(j).layers) = 0
          BY DEF Plain
        <4>3. /\ Wrap(Plain(j), OldLayer(j)).job = Plain(j).job
              /\ Len(Wrap(Plain(j), OldLayer(j)).layers) = Len(Plain(j).layers) + 1
              /\ Outer(Wrap(Plain(j), OldLayer(j))) = OldLayer(j)
          BY <4>1, Wrapping
        <4> QED
          BY <3>1, <4>2, <4>3 DEF Deliveries
      <3>3. IsEncrypted(meta[j]) /\ KeyIdOf(meta[j]) = OldKey /\ NonceOf(meta[j]) = <<j, 1>>
        BY <3>1 DEF OldMeta, OldLayer, Layer, NoMeta, IsEncrypted, KeyIdOf, NonceOf
      <3>4. OldKey # None /\ <<j, 1>> # None
        OBVIOUS
      <3>5. Labelled(args[j], meta[j])
        BY <3>2, <3>3, <3>4 DEF Labelled, OldLayer
      <3> QED
        BY <3>1, <3>2, <3>5 DEF JobInv, Layered
    <2>2. CASE j \notin OldJobs
      BY <2>2 DEF Init, JobInv, Labelled, Encrypted, Layered, Plain
    <2> QED
      BY <2>1, <2>2
  <1>8. \A w \in Workers : WorkInv(w)
    BY DEF Init, WorkInv, Idle
  <1> QED
    BY <1>6, <1>7, <1>8 DEF IInv

\* Steps of calls preserve the invariant.
LEMMA CallsPreserve ==
  ASSUME IInv, NEW j \in Jobs,
         \/ enqueue(j) \/ PassOn(j) \/ encryptionMiddleware(j) \/ EncryptionFails(j)
         \/ enqueuePlain(j) \/ enqueueUnchained(j) \/ Store(j)
  PROVE  IInv'
  <1> USE PayloadAssumption
  <1>1. before \in Nat /\ after \in Nat /\ at[j] \in Nat /\ args[j] \in Arguments /\ meta[j] \in Metas
    BY DEF IInv, TypeOK
  <1>2. JobInv(j) /\ TypeOK
    BY DEF IInv
  <1>3. Carried \subseteq Metas
    <2>1. NoMeta \in Metas
      BY DEF NoMeta, Metas
    <2>2. \A w \in Workers : work[w].state = "handler" => work[w].meta \in Metas
      BY DEF IInv, TypeOK, Idle, Deliveries
    <2>3. \A m \in Metas : [m EXCEPT !.nonce = None, !.oldNonce = None] \in Metas
      BY DEF Metas
    <2> QED
      BY <2>1, <2>2, <2>3 DEF Carried
  <1>4. CASE enqueue(j)
    <2>1. /\ args[j].layers = <<>> /\ args' = args
          /\ args' \in [Jobs -> Arguments]
      BY <1>2, <1>4 DEF enqueue, JobInv, TypeOK
    <2>2. PICK m \in Metas : meta' = [meta EXCEPT ![j] = m]
      BY <1>3, <1>4 DEF enqueue
    <2>3. Dispatch(j, 1) /\ UNCHANGED <<chain, keys, shifted, work>> /\ phase[j] = "idle"
      BY <1>4 DEF enqueue
    <2>4. /\ phase' \in [Jobs -> Phases]
          /\ at' \in [Jobs -> Nat]
          /\ keyId' \in [Jobs -> Keys \cup {None}]
          /\ \A k \in Jobs : phase'[k] = "encrypting" => keyId'[k] \in Keys
          /\ \A k \in Jobs \ {j} : phase'[k] = phase[k] /\ at'[k] = at[k]
          /\ phase'[j] # "idle"
          /\ j \notin shifted => Layered(j)'
      BY <1>1, <2>1, <2>3, Dispatched
    <2>5. TypeOK'
      BY <1>2, <2>1, <2>2, <2>3, <2>4 DEF TypeOK, chain, keys
    <2>6. JobInv(j)'
      BY <1>2, <2>1, <2>3, <2>4 DEF JobInv, Labelled, Encrypted
    <2>7. \A k \in Jobs \ {j} : args'[k] = args[k] /\ meta'[k] = meta[k]
      BY <1>2, <2>1, <2>2 DEF TypeOK
    <2> QED
      BY <2>3, <2>4, <2>5, <2>6, <2>7, CallStep
  <1>5. CASE PassOn(j)
    <2>1. /\ args' = args /\ meta' = meta
          /\ args' \in [Jobs -> Arguments]
      BY <1>2, <1>5 DEF PassOn, TypeOK
    <2>2. j \notin shifted => IF at[j] + 1 <= before + 1 THEN args'[j].layers = <<>>
                                                         ELSE Len(args'[j].layers) = 1
      BY <1>1, <1>2, <1>5, <2>1 DEF PassOn, JobInv, Layered
    <2>3. Dispatch(j, at[j] + 1) /\ UNCHANGED <<chain, keys, shifted, work>> /\ phase[j] = "middleware"
      BY <1>5 DEF PassOn
    <2>4. /\ phase' \in [Jobs -> Phases]
          /\ at' \in [Jobs -> Nat]
          /\ keyId' \in [Jobs -> Keys \cup {None}]
          /\ \A k \in Jobs : phase'[k] = "encrypting" => keyId'[k] \in Keys
          /\ \A k \in Jobs \ {j} : phase'[k] = phase[k] /\ at'[k] = at[k]
          /\ phase'[j] # "idle"
          /\ j \notin shifted => Layered(j)'
      BY <1>1, <2>1, <2>2, <2>3, Dispatched
    <2>5. TypeOK'
      BY <1>2, <2>1, <2>3, <2>4 DEF TypeOK, chain, keys
    <2>6. JobInv(j)'
      BY <1>2, <2>1, <2>3, <2>4 DEF JobInv, Labelled, Encrypted, Outer, IsEncrypted, KeyIdOf, NonceOf
    <2> QED
      BY <2>1, <2>3, <2>4, <2>5, <2>6, CallStep
  <1>6. CASE encryptionMiddleware(j)
    <2> DEFINE l == Layer(keyId[j], Nonce(j))
               a == Wrap(args[j], l)
               m == [meta[j] EXCEPT !.encrypted = TRUE, !.keyId = l.key, !.nonce = l.nonce]
    <2>1. Dispatch(j, at[j] + 1) /\ UNCHANGED <<chain, keys, shifted, work>> /\ phase[j] = "encrypting"
      BY <1>6 DEF encryptionMiddleware
    <2>2. l \in Layers /\ l.key # None /\ l.nonce # None
      <3>1. keyId[j] \in Keys /\ Len(args[j].layers) \in Nat
        BY <1>1, <1>2, <2>1 DEF TypeOK, Arguments
      <3> QED
        BY <3>1 DEF Layer, Layers, Nonce, Nonces
    <2>3. /\ a \in Arguments /\ a.job = args[j].job
          /\ Len(a.layers) = Len(args[j].layers) + 1 /\ Outer(a) = l
      BY <1>1, <2>2, Wrapping
    <2>4. m \in Metas /\ m.encrypted /\ m.keyId = l.key /\ m.nonce = l.nonce
      BY <1>1, <2>2 DEF Metas, Layers
    <2>5. args' = [args EXCEPT ![j] = a] /\ meta' = [meta EXCEPT ![j] = m]
      BY <1>6 DEF encryptionMiddleware
    <2>6. /\ args' \in [Jobs -> Arguments] /\ meta' \in [Jobs -> Metas]
          /\ args'[j] = a /\ meta'[j] = m
          /\ \A k \in Jobs \ {j} : args'[k] = args[k] /\ meta'[k] = meta[k]
      BY <1>2, <2>3, <2>4, <2>5 DEF TypeOK
    <2>7. j \notin shifted => IF at[j] + 1 <= before + 1 THEN args'[j].layers = <<>>
                                                         ELSE Len(args'[j].layers) = 1
      <3>1. j \notin shifted => at[j] > before /\ Len(args[j].layers) = 0
        BY <1>2, <2>1 DEF JobInv, Layered
      <3> HIDE DEF a
      <3>2. j \notin shifted => at[j] > before /\ Len(args'[j].layers) = 1
        <4>1. Len(args[j].layers) = 0 => Len(a.layers) = 1
          BY <2>3
        <4> QED
          BY <2>6, <3>1, <4>1
      <3> QED
        BY <1>1, <3>2
    <2>8. /\ phase' \in [Jobs -> Phases]
          /\ at' \in [Jobs -> Nat]
          /\ keyId' \in [Jobs -> Keys \cup {None}]
          /\ \A k \in Jobs : phase'[k] = "encrypting" => keyId'[k] \in Keys
          /\ \A k \in Jobs \ {j} : phase'[k] = phase[k] /\ at'[k] = at[k]
          /\ phase'[j] # "idle"
          /\ j \notin shifted => Layered(j)'
      <3> HIDE DEF a, m, l
      <3> QED
        BY <1>1, <2>1, <2>6, <2>7, Dispatched
    <2>9. TypeOK'
      <3> HIDE DEF a, m, l
      <3> QED
        BY <1>2, <2>1, <2>6, <2>8 DEF TypeOK, chain, keys
    <2>10. JobInv(j)'
      <3>1. l = Layer(l.key, l.nonce)
        BY DEF Layer
      <3> HIDE DEF a, m, l
      <3>2. Labelled(a, m)
        BY <2>2, <2>3, <2>4, <3>1 DEF Labelled, IsEncrypted, KeyIdOf, NonceOf
      <3> QED
        BY <1>2, <2>1, <2>3, <2>6, <2>8, <3>2 DEF JobInv, Labelled, Encrypted, Outer, IsEncrypted, KeyIdOf, NonceOf
    <2> QED
      <3> HIDE DEF a, m, l
      <3> QED
        BY <2>1, <2>6, <2>8, <2>9, <2>10, CallStep
  <1>7. CASE EncryptionFails(j)
    <2>1. TypeOK' /\ UNCHANGED <<chain, shifted, work, at, args, meta>>
      BY <1>2, <1>7 DEF EncryptionFails, TypeOK, chain, keys, Phases
    <2>2. phase'[j] = "rejected" /\ phase[j] = "encrypting" /\ \A k \in Jobs \ {j} : phase'[k] = phase[k]
      BY <1>2, <1>7 DEF EncryptionFails, TypeOK
    <2>3. JobInv(j)'
      BY <1>2, <2>1, <2>2 DEF JobInv, Layered, Labelled, Encrypted, Outer, IsEncrypted, KeyIdOf, NonceOf
    <2> QED
      BY <2>1, <2>2, <2>3, CallStep
  <1>8. CASE enqueuePlain(j) \/ enqueueUnchained(j)
    <2>1. /\ phase[j] = "idle" /\ phase' = [phase EXCEPT ![j] = "requesting"]
          /\ UNCHANGED <<at, keyId, args, chain, keys, shifted, work>>
      BY <1>8 DEF enqueuePlain, enqueueUnchained
    <2>2. PICK m \in Metas : meta' = [meta EXCEPT ![j] = m]
      BY <1>1, <1>2, <1>3, <1>8 DEF enqueuePlain, enqueueUnchained, TypeOK
    <2>3. TypeOK'
      BY <1>2, <2>1, <2>2 DEF TypeOK, chain, keys, Phases
    <2>4. phase'[j] = "requesting" /\ \A k \in Jobs \ {j} : phase'[k] = phase[k] /\ meta'[k] = meta[k]
      BY <1>2, <2>1, <2>2 DEF TypeOK
    <2>5. JobInv(j)'
      <3>1. args'[j].layers = <<>> /\ at'[j] = 0 /\ args'[j].job = j /\ Len(<<>>) = 0
        BY <1>2, <2>1 DEF JobInv
      <3>2. Len(args'[j].layers) <= 1
        BY <3>1
      <3> QED
        BY <2>4, <3>1, <3>2 DEF JobInv, Layered, Labelled, Encrypted
    <2> QED
      BY <2>1, <2>3, <2>4, <2>5, CallStep
  <1>9. CASE Store(j)
    <2>1. TypeOK' /\ UNCHANGED <<chain, shifted, work, at, args, meta>>
      BY <1>2, <1>9 DEF Store, TypeOK, chain, keys, Phases
    <2>2. phase'[j] = "stored" /\ phase[j] = "requesting" /\ \A k \in Jobs \ {j} : phase'[k] = phase[k]
      BY <1>2, <1>9 DEF Store, TypeOK
    <2>3. JobInv(j)'
      BY <1>2, <2>1, <2>2 DEF JobInv, Layered, Labelled, Encrypted, Outer, IsEncrypted, KeyIdOf, NonceOf
    <2> QED
      BY <2>1, <2>2, <2>3, CallStep
  <1> QED
    BY <1>4, <1>5, <1>6, <1>7, <1>8, <1>9

\* Edits of the chain and changes of keys preserve the invariant: calls that
\* an edit puts on the other side of the encryption are shifted from then on.
LEMMA EditsPreserve ==
  ASSUME IInv,
         \/ \E p \in 1..(before + after + 2) : Insert(p)
         \/ \E p \in 1..(before + after + 1) : Remove(p)
         \/ \E k \in Keys : Rotate(k) \/ \E w \in Workers : ChangeKeys(w, k)
  PROVE  IInv'
  <1> USE PayloadAssumption
  <1>1. UNCHANGED <<calls, work>>
    BY DEF Insert, Remove, Edit, Rotate, ChangeKeys
  <1>2. \/ UNCHANGED <<chain, shifted>>
        \/ shifted' = shifted \cup {j \in InFlight : (at[j] > before) # (at[j] > before')}
    BY DEF Insert, Remove, Edit, Rotate, ChangeKeys
  <1>3. before \in Nat /\ after \in Nat /\ edits \in Nat /\ keyChanges \in Nat
    BY DEF IInv, TypeOK
  <1>4. before' \in Nat /\ after' \in Nat /\ edits' \in Nat
    <2>1. ASSUME NEW p \in 1..(before + after + 2), Insert(p)
          PROVE  before' \in Nat /\ after' \in Nat /\ edits' \in Nat
      BY <1>3, <2>1 DEF Insert, Edit
    <2>2. ASSUME NEW p \in 1..(before + after + 1), Remove(p)
          PROVE  before' \in Nat /\ after' \in Nat /\ edits' \in Nat
      BY <1>3, <2>2 DEF Remove, Edit
    <2>3. CASE UNCHANGED chain
      BY <1>3, <2>3 DEF chain
    <2> QED
      BY <2>1, <2>2, <2>3 DEF Rotate, ChangeKeys
  <1>5. current' \in Keys /\ known' \in [Workers -> SUBSET Keys] /\ keyChanges' \in Nat
    BY <1>3 DEF IInv, TypeOK, Insert, Remove, Edit, Rotate, ChangeKeys, KeyChange, keys
  <1>6. TypeOK'
    BY <1>1, <1>4, <1>5 DEF IInv, TypeOK, calls
  <1>7. ASSUME NEW j \in Jobs
        PROVE  JobInv(j)'
    <2>1. /\ args'[j] = args[j] /\ meta'[j] = meta[j] /\ phase'[j] = phase[j] /\ at'[j] = at[j]
          /\ JobInv(j) /\ at[j] \in Nat
      BY <1>1 DEF IInv, TypeOK, calls
    <2>2. ASSUME j \notin shifted'
          PROVE  Layered(j)'
      <3>1. j \notin shifted /\ Layered(j)
        BY <1>2, <2>1, <2>2 DEF JobInv
      <3>2. phase[j] \in {"middleware", "encrypting"} => (at[j] > before <=> at[j] > before')
        BY <1>2, <2>2 DEF InFlight, chain
      <3>3. at[j] <= before' <=> ~(at[j] > before')
        BY <1>4, <2>1
      <3>4. at[j] <= before <=> ~(at[j] > before)
        BY <1>3, <2>1
      <3> QED
        BY <2>1, <3>1, <3>2, <3>3, <3>4 DEF Layered
    <2> QED
      BY <2>1, <2>2 DEF JobInv, Labelled, Encrypted, Outer, IsEncrypted, KeyIdOf, NonceOf
  <1>8. ASSUME NEW w \in Workers
        PROVE  WorkInv(w)'
    <2>1. shifted \subseteq shifted'
      BY <1>2
    <2> QED
      BY <1>1, <2>1 DEF IInv, WorkInv, calls, Labelled, Encrypted, Outer, IsEncrypted, KeyIdOf, NonceOf
  <1> QED
    BY <1>6, <1>7, <1>8 DEF IInv

\* What the decryption middleware makes of a job the server has stored.
LEMMA DeliveredAsStored ==
  ASSUME IInv, NEW j \in Jobs
  PROVE  /\ Decrypt(j) \in {"handler", "failed", "decrypting"}
         /\ Decrypt(j) \in {"handler", "failed"} => args[j].layers = <<>>
         /\ Decrypt(j) = "handler" => args[j] = Plain(j)
  <1>1. args[j] \in Arguments /\ args[j].job = j /\ Labelled(args[j], meta[j])
    BY DEF IInv, TypeOK, JobInv
  <1>2. Decrypt(j) \in {"handler", "failed"} => args[j].layers = <<>>
    BY <1>1 DEF Decrypt, Labelled, Encrypted, StartsWithString
  <1>3. args[j].layers = <<>> => args[j] = Plain(j)
    BY <1>1 DEF Arguments, Plain
  <1> QED
    BY <1>2, <1>3 DEF Decrypt

\* Steps of workers preserve the invariant.
LEMMA WorkersPreserve ==
  ASSUME IInv, NEW w \in Workers,
         Decrypted(w) \/ Ends(w) \/ \E j \in Jobs : Deliver(w, j)
  PROVE  IInv'
  <1>1. UNCHANGED <<chain, keys, calls, shifted>>
    BY DEF Decrypted, Ends, Deliver
  <1>2. \A j \in Jobs : JobInv(j)'
    BY <1>1 DEF IInv, JobInv, Layered, chain, calls, Labelled, Encrypted, Outer, IsEncrypted, KeyIdOf, NonceOf
  <1>3. work' = [work EXCEPT ![w] = work'[w]] /\ work \in [Workers -> {Idle} \cup Deliveries]
    BY DEF Decrypted, Ends, Deliver, IInv, TypeOK
  <1>4. /\ work'[w] \in {Idle} \cup Deliveries
        /\ WorkInv(w)'
    <2>1. CASE Decrypted(w)
      <3> DEFINE d == work[w]
      <3>1. /\ d.state = "decrypting" /\ d \in Deliveries
            /\ phase[d.job] = "stored" /\ Labelled(args[d.job], d.meta) /\ d.args = args[d.job]
        BY <1>3, <2>1 DEF Decrypted, IInv, WorkInv, Idle, Deliveries
      <3>2. d.job \notin shifted => Len(d.args.layers) <= 1
        BY <3>1 DEF IInv, JobInv, Layered, Deliveries
      <3>3. d.args.job = d.job
        BY <3>1 DEF IInv, JobInv, Deliveries
      <3>4. CASE work'[w] = [d EXCEPT !.state = "failed"]
        BY <1>1, <3>1, <3>4 DEF Deliveries, WorkInv, calls, Labelled, Encrypted, Outer, IsEncrypted, KeyIdOf, NonceOf
      <3>5. CASE Opens(d) /\ work'[w] = [d EXCEPT !.state = "handler", !.args = Unwrap(d.args)]
        <4>1. d.args \in Arguments /\ d.args.layers # <<>>
          BY <3>1, <3>5 DEF Opens, Deliveries
        <4>2. Unwrap(d.args) \in Arguments /\ (Len(d.args.layers) <= 1 => Unwrap(d.args) = Plain(d.job))
          BY <3>3, <4>1, Unwrapping
        <4>3. work'[w] = [d EXCEPT !.state = "handler", !.args = Unwrap(d.args)]
          BY <3>5
        <4>4. /\ work'[w] \in Deliveries
              /\ work'[w].state = "handler" /\ work'[w].job = d.job
              /\ work'[w].args = Unwrap(d.args) /\ work'[w].meta = d.meta
          BY <3>1, <4>2, <4>3 DEF Deliveries
        <4> QED
          BY <1>1, <3>1, <3>2, <4>2, <4>4 DEF WorkInv, calls, Labelled, Encrypted, Outer, IsEncrypted, KeyIdOf, NonceOf
      <3>6. work'[w] = Outcome(d, known[w])
        BY <1>3, <2>1 DEF Decrypted
      <3> HIDE DEF d
      <3> QED
        BY <3>4, <3>5, <3>6 DEF Outcome
    <2>2. CASE Ends(w)
      BY <1>3, <2>2 DEF Ends, WorkInv, Idle
    <2>3. ASSUME NEW j \in Jobs, Deliver(w, j)
          PROVE  /\ work'[w] \in Deliveries
                 /\ WorkInv(w)'
      <3>1. work'[w] = Delivery(Decrypt(j), j, args[j], meta[j]) /\ phase[j] = "stored"
        BY <1>3, <2>3 DEF Deliver
      <3>2. args[j] \in Arguments /\ meta[j] \in Metas /\ Labelled(args[j], meta[j])
        BY DEF IInv, TypeOK, JobInv
      <3>3. /\ Decrypt(j) \in {"handler", "failed", "decrypting"}
            /\ Decrypt(j) = "handler" => args[j] = Plain(j)
        BY DeliveredAsStored
      <3> HIDE DEF Decrypt
      <3> QED
        BY <1>1, <3>1, <3>2, <3>3 DEF Delivery, Deliveries, WorkInv, calls, Labelled, Encrypted, Outer, IsEncrypted, KeyIdOf, NonceOf
    <2> QED
      BY <2>1, <2>2, <2>3
  <1>5. TypeOK'
    BY <1>1, <1>3, <1>4 DEF IInv, TypeOK, chain, keys, calls
  <1>6. \A v \in Workers \ {w} : WorkInv(v)'
    BY <1>1, <1>3 DEF IInv, WorkInv, calls, Labelled, Encrypted, Outer, IsEncrypted, KeyIdOf, NonceOf
  <1> QED
    BY <1>2, <1>4, <1>5, <1>6 DEF IInv

\* Every step preserves the invariant.
LEMMA InvStep == IInv /\ [Next]_vars => IInv'
  <1> SUFFICES ASSUME IInv, [Next]_vars PROVE IInv'
    OBVIOUS
  <1>1. CASE Next
    BY <1>1, CallsPreserve, EditsPreserve, WorkersPreserve DEF Next
  <1>2. CASE UNCHANGED vars
    BY <1>2 DEF vars, chain, keys, calls, IInv, TypeOK, JobInv, WorkInv, Layered, Labelled,
                Encrypted, Outer, IsEncrypted, KeyIdOf, NonceOf
  <1> QED
    BY <1>1, <1>2

\* The invariant always holds.
LEMMA Invariant == Spec => []IInv
  BY InvInit, InvStep, PTL DEF Spec

-----------------------------------------------------------------------------
(* The theorems *)

\* The variables have their types.
THEOREM TypeCorrect == Spec => []TypeOK
  <1>1. IInv => TypeOK
    BY DEF IInv
  <1> QED
    BY <1>1, Invariant, PTL

\* A handler is given the arguments of its job as they were enqueued, or is not
\* called (encryption.ts:231-264).
THEOREM ArgumentsReachHandler == Spec => []HandlerSeesArguments
  <1>1. IInv => HandlerSeesArguments
    BY DEF IInv, WorkInv, HandlerSeesArguments
  <1> QED
    BY <1>1, Invariant, PTL

\* What an encrypting client sends is encrypted exactly once, unless an edit
\* has moved the encryption over the call (encryption.ts:203-219).
THEOREM SentEncrypted == Spec => []EncryptedOnce
  <1>1. IInv => EncryptedOnce
    BY DEF IInv, JobInv, Layered, EncryptedOnce
  <1> QED
    BY <1>1, Invariant, PTL

\* Decryption fails only for want of the key, or where there is nothing to
\* decrypt (encryption.ts:145-146, :245-246).
THEOREM DecryptionFailures == Spec => FailsForWantOfKey
  <1> DEFINE Cause(w) == \/ work'[w].args.layers = <<>>
                         \/ Outer(work'[w].args).key \notin known[w]
  <1>1. IInv /\ [Next]_vars =>
          [\A w \in Workers : work[w].state # "failed" /\ work'[w].state = "failed" => Cause(w)]_vars
    <2> SUFFICES ASSUME IInv, Next, NEW w \in Workers,
                        work[w].state # "failed", work'[w].state = "failed"
                 PROVE  Cause(w)
      OBVIOUS
    <2>1. PICK v \in Workers : Decrypted(v) \/ Ends(v) \/ \E j \in Jobs : Deliver(v, j)
      BY DEF Next, enqueue, PassOn, encryptionMiddleware, EncryptionFails, enqueuePlain, enqueueUnchained,
             Store, Insert, Remove, Edit, Rotate, ChangeKeys
    <2>2. v = w /\ work \in [Workers -> {Idle} \cup Deliveries]
      BY <2>1 DEF Decrypted, Ends, Deliver, IInv, TypeOK
    <2>3. CASE Decrypted(w)
      <3>1. work'[w] = [work[w] EXCEPT !.state = "failed"] /\ ~(KeyIdOf(work[w].meta) \in known[w] /\ Opens(work[w]))
        BY <2>2, <2>3 DEF Decrypted, Outcome, Idle
      <3>2. work'[w].args = work[w].args /\ Labelled(work[w].args, work[w].meta)
        <4>1. work[w] \in Deliveries /\ Labelled(args[work[w].job], work[w].meta) /\ work[w].args = args[work[w].job]
          BY <2>2, <2>3 DEF Decrypted, IInv, WorkInv, Idle
        <4> QED
          BY <3>1, <4>1 DEF Deliveries, Labelled, Encrypted
      <3> QED
        BY <3>1, <3>2 DEF Opens, Labelled, Encrypted, Layer
    <2>4. CASE Ends(w)
      BY <2>2, <2>4 DEF Ends, Idle
    <2>5. ASSUME NEW j \in Jobs, Deliver(w, j)
          PROVE  Cause(w)
      <3>1. work'[w] = Delivery(Decrypt(j), j, args[j], meta[j])
        BY <2>2, <2>5 DEF Deliver
      <3> QED
        BY <3>1, DeliveredAsStored DEF Delivery
    <2> QED
      BY <2>1, <2>2, <2>3, <2>4, <2>5
  <1> QED
    BY <1>1, Invariant, PTL DEF Spec, FailsForWantOfKey
=============================================================================
