-------------------------------- MODULE Payload --------------------------------
(***************************************************************************)
(* The arguments of jobs on their way from a client to a handler           *)
(* (src/src/encryption.ts with client.ts, middleware.ts and workflow.ts):  *)
(* enqueue() runs the client's chain, which has the encryption middleware  *)
(* among others, the server keeps what it is sent, and workers run the     *)
(* decryption middleware before the handler.                               *)
(*                                                                         *)
(* Both middlewares wait for keys that change meanwhile, and the chain is  *)
(* the live array: entries put in or taken out before the place a call has *)
(* reached shift the rest of the chain under it.                           *)
(*                                                                         *)
(* Arguments are the job they belong to and the layers of encryption       *)
(* around them, the outermost last.  AES-GCM opens a layer with its key    *)
(* and nonce and rejects everything else.                                  *)
(***************************************************************************)
EXTENDS Integers, Sequences

CONSTANTS
  Jobs,
  OldJobs,      \* those an earlier version of the SDK has enqueued
  StringFirst,  \* jobs whose first argument is a string
  Keys,         \* ids of keys
  OldKey,       \* the key of OldJobs
  Workers,
  None,
  MaxOthers,    \* bound: other middlewares in the chain
  MaxEdits,     \* bound: edits of the chain
  MaxKeyChanges \* bound: rotations and changes of a worker's keys

ASSUME PayloadAssumption ==
  /\ OldJobs \subseteq Jobs
  /\ OldKey \in Keys
  /\ None \notin Keys \cup (Jobs \X Nat)
  /\ {MaxOthers, MaxEdits, MaxKeyChanges} \subseteq Nat

VARIABLES
  before, after, \* entries of the client's chain before and after the encryption
  edits,
  current,       \* what getCurrentKeyId() returns to the client
  known,         \* known[w]: the keys getKey() has for worker w
  keyChanges,
  phase,         \* phase[j]: "idle", "middleware", "encrypting", "requesting", "stored", "rejected"
  at,            \* at[j]: the place in the chain the call has reached
  keyId,         \* keyId[j]: the key id encrypt() has read
  args, meta,    \* args[j], meta[j]: as in the call's envelope, then as on the server
  shifted,       \* history: jobs whose call an edit has put on the other side of the encryption
  work           \* work[w]: the delivery worker w is at

chain == <<before, after, edits>>
keys  == <<current, known, keyChanges>>
calls == <<phase, at, keyId, args, meta>>
vars  == <<chain, keys, calls, shifted, work>>

Layer(key, nonce) == [key |-> key, nonce |-> nonce]
Plain(j)          == [job |-> j, layers |-> <<>>]
Wrap(a, l)        == [a EXCEPT !.layers = Append(@, l)]
Outer(a)          == a.layers[Len(a.layers)]
Unwrap(a)         == [a EXCEPT !.layers = SubSeq(@, 1, Len(@) - 1)]

\* A fresh nonce: no two encryptions have the same.
Nonce(j) == <<j, Len(args[j].layers) + 1>>

\* The entries of job.meta that the middlewares read, under their names of
\* today and their earlier ones.
NoMeta == [encrypted |-> FALSE, keyId |-> None, nonce |-> None,
           oldEncrypted |-> FALSE, oldKeyId |-> None, oldNonce |-> None]
OldMeta(l) == [NoMeta EXCEPT !.oldEncrypted = TRUE, !.oldKeyId = l.key, !.oldNonce = l.nonce]

OldLayer(j) == Layer(OldKey, <<j, 1>>)

Idle == [state |-> "idle"]

Init ==
  /\ before \in 0..MaxOthers /\ after \in 0..(MaxOthers - before)
  /\ edits = 0
  /\ current \in Keys
  /\ known \in [Workers -> SUBSET Keys]
  /\ keyChanges = 0
  /\ phase = [j \in Jobs |-> IF j \in OldJobs THEN "stored" ELSE "idle"]
  /\ at = [j \in Jobs |-> 0]
  /\ keyId = [j \in Jobs |-> None]
  /\ args = [j \in Jobs |-> IF j \in OldJobs THEN Wrap(Plain(j), OldLayer(j)) ELSE Plain(j)]
  /\ meta = [j \in Jobs |-> IF j \in OldJobs THEN OldMeta(OldLayer(j)) ELSE NoMeta]
  /\ shifted = {}
  /\ work = [w \in Workers |-> Idle]

-----------------------------------------------------------------------------
(* The client *)

\* The meta a caller may give: none, or that of the job whose handler makes
\* the call, of which it may leave out something.
Carried ==
  {NoMeta}
    \cup {work[w].meta : w \in {v \in Workers : work[v].state = "handler"}}
    \cup {[work[w].meta EXCEPT !.nonce = None, !.oldNonce = None] :
            w \in {v \in Workers : work[v].state = "handler"}}

\* dispatch(i) of composeEnqueue, on the array as it is now.
Dispatch(j, i) ==
  /\ at' = [at EXCEPT ![j] = i]
  /\ IF i = before + 1
     THEN /\ phase' = [phase EXCEPT ![j] = "encrypting"]
          /\ keyId' = [keyId EXCEPT ![j] = current]
     ELSE /\ phase' = [phase EXCEPT ![j] =
                         IF i <= before + 1 + after THEN "middleware" ELSE "requesting"]
          /\ UNCHANGED keyId

enqueue(j) ==
  /\ phase[j] = "idle"
  /\ \E m \in Carried : meta' = [meta EXCEPT ![j] = m]
  /\ Dispatch(j, 1)
  /\ UNCHANGED <<args, chain, keys, shifted, work>>

\* Another middleware passes the job on; it may have waited for something.
PassOn(j) ==
  /\ phase[j] = "middleware"
  /\ Dispatch(j, at[j] + 1)
  /\ UNCHANGED <<args, meta, chain, keys, shifted, work>>

\* Mutant: the job is labelled with the key that is current when the
\* ciphertext is there.
LabelLate(j) ==
  /\ phase[j] = "encrypting"
  /\ LET l == Layer(keyId[j], Nonce(j))
     IN  /\ args' = [args EXCEPT ![j] = Wrap(@, l)]
         /\ meta' = [meta EXCEPT ![j] =
              [@ EXCEPT !.encrypted = TRUE, !.keyId = current, !.nonce = l.nonce]]
  /\ Dispatch(j, at[j] + 1)
  /\ UNCHANGED <<chain, keys, shifted, work>>

\* The key has come and the arguments are encrypted: the entries of today are
\* set, earlier ones stay.
encryptionMiddleware(j) ==
  /\ phase[j] = "encrypting"
  /\ LET l == Layer(keyId[j], Nonce(j))
     IN  /\ args' = [args EXCEPT ![j] = Wrap(@, l)]
         /\ meta' = [meta EXCEPT ![j] =
              [@ EXCEPT !.encrypted = TRUE, !.keyId = l.key, !.nonce = l.nonce]]
  /\ Dispatch(j, at[j] + 1)
  /\ UNCHANGED <<chain, keys, shifted, work>>

\* Mutant: without a key the job is sent as it is.
SendUnencrypted(j) ==
  /\ phase[j] = "encrypting"
  /\ Dispatch(j, at[j] + 1)
  /\ UNCHANGED <<args, meta, chain, keys, shifted, work>>

\* getKey() or Web Crypto rejects, and with it enqueue().
EncryptionFails(j) ==
  /\ phase[j] = "encrypting"
  /\ phase' = [phase EXCEPT ![j] = "rejected"]
  /\ UNCHANGED <<at, keyId, args, meta, chain, keys, shifted, work>>

\* enqueue() of a client that has no encryption in its chain.
enqueuePlain(j) ==
  /\ phase[j] = "idle"
  /\ \E m \in Carried : meta' = [meta EXCEPT ![j] = m]
  /\ phase' = [phase EXCEPT ![j] = "requesting"]
  /\ UNCHANGED <<at, keyId, args, chain, keys, shifted, work>>

\* A job of enqueueBatch(), or a step of a workflow: the chain is not run, and
\* options.meta is not sent.
enqueueUnchained(j) ==
  /\ phase[j] = "idle"
  /\ phase' = [phase EXCEPT ![j] = "requesting"]
  /\ UNCHANGED <<at, keyId, args, meta, chain, keys, shifted, work>>

\* The server has stored the job.
Store(j) ==
  /\ phase[j] = "requesting"
  /\ phase' = [phase EXCEPT ![j] = "stored"]
  /\ UNCHANGED <<at, keyId, args, meta, chain, keys, shifted, work>>

-----------------------------------------------------------------------------
(* Edits of the chain, and keys *)

\* Calls that are to go on from their place in the chain.
InFlight == {j \in Jobs : phase[j] \in {"middleware", "encrypting"}}

\* The encryption comes to be at another place: a call may have been on one
\* side of it and be on the other now.
Edit ==
  /\ edits < MaxEdits
  /\ edits' = edits + 1
  /\ shifted' = shifted \cup {j \in InFlight : (at[j] > before) # (at[j] > before')}
  /\ UNCHANGED <<keys, calls, work>>

\* add(), prepend(), insertBefore(), insertAfter(): an entry at place p.
Insert(p) ==
  /\ before + after < MaxOthers
  /\ before' = IF p <= before + 1 THEN before + 1 ELSE before
  /\ after' = IF p <= before + 1 THEN after ELSE after + 1
  /\ Edit

\* remove() of another middleware than the encryption.
Remove(p) ==
  /\ p # before + 1
  /\ before' = IF p <= before THEN before - 1 ELSE before
  /\ after' = IF p <= before THEN after ELSE after - 1
  /\ Edit

KeyChange == keyChanges < MaxKeyChanges /\ keyChanges' = keyChanges + 1

\* The keys are rotated, or a worker learns of or forgets a key.
Rotate(k) ==
  /\ k # current
  /\ KeyChange
  /\ current' = k
  /\ UNCHANGED <<known, chain, calls, shifted, work>>

ChangeKeys(w, k) ==
  /\ KeyChange
  /\ known' = [known EXCEPT ![w] = IF k \in @ THEN @ \ {k} ELSE @ \cup {k}]
  /\ UNCHANGED <<current, chain, calls, shifted, work>>

-----------------------------------------------------------------------------
(* The worker *)

IsEncrypted(m) == m.encrypted \/ m.oldEncrypted

\* meta[NEW] ?? meta[OLD], of the key id and of the nonce.
KeyIdOf(m) == IF m.keyId # None THEN m.keyId ELSE m.oldKeyId
NonceOf(m) == IF m.nonce # None THEN m.nonce ELSE m.oldNonce

\* args[0] is a string.
StartsWithString(a) == a.layers # <<>> \/ a.job \in StringFirst

Delivery(state, j, a, m) == [state |-> state, job |-> j, args |-> a, meta |-> m]

\* Mutant: only the names of today are looked at.
DecryptNew(j) ==
  LET m == meta[j]
  IN  IF ~m.encrypted                               THEN "handler"
      ELSE IF KeyIdOf(m) = None \/ NonceOf(m) = None THEN "failed"
      ELSE IF StartsWithString(args[j])             THEN "decrypting"
      ELSE                                               "handler"

\* decryptionMiddleware up to its await.
Decrypt(j) ==
  LET m == meta[j]
  IN  IF ~IsEncrypted(m)                            THEN "handler"
      ELSE IF KeyIdOf(m) = None \/ NonceOf(m) = None THEN "failed"
      ELSE IF StartsWithString(args[j])             THEN "decrypting"
      ELSE                                               "handler"

\* A job is fetched: the worker has a copy of its own.
Deliver(w, j) ==
  /\ work[w].state = "idle"
  /\ phase[j] = "stored"
  /\ work' = [work EXCEPT ![w] = Delivery(Decrypt(j), j, args[j], meta[j])]
  /\ UNCHANGED <<chain, keys, calls, shifted>>

\* The ciphertext is one, and this key and nonce are those of its outer layer.
Opens(d) == d.args.layers # <<>> /\ Outer(d.args) = Layer(KeyIdOf(d.meta), NonceOf(d.meta))

\* getKey() has the key or rejects; decryption succeeds or rejects.
Outcome(d, ks) ==
  IF KeyIdOf(d.meta) \in ks /\ Opens(d)
  THEN [d EXCEPT !.state = "handler", !.args = Unwrap(d.args)]
  ELSE [d EXCEPT !.state = "failed"]

Decrypted(w) ==
  /\ work[w].state = "decrypting"
  /\ work' = [work EXCEPT ![w] = Outcome(work[w], known[w])]
  /\ UNCHANGED <<chain, keys, calls, shifted>>

\* The delivery ends, by an ack or a nack or with the worker; the server may
\* deliver the job again.
Ends(w) ==
  /\ work[w].state # "idle"
  /\ work' = [work EXCEPT ![w] = Idle]
  /\ UNCHANGED <<chain, keys, calls, shifted>>

Next ==
  \/ \E j \in Jobs :
       \/ enqueue(j) \/ PassOn(j) \/ encryptionMiddleware(j) \/ EncryptionFails(j)
       \/ enqueuePlain(j) \/ enqueueUnchained(j) \/ Store(j)
  \/ \E p \in 1..(before + after + 2) : Insert(p)
  \/ \E p \in 1..(before + after + 1) : Remove(p)
  \/ \E k \in Keys : Rotate(k) \/ \E w \in Workers : ChangeKeys(w, k)
  \/ \E w \in Workers : Decrypted(w) \/ Ends(w) \/ \E j \in Jobs : Deliver(w, j)

Spec == Init /\ [][Next]_vars

-----------------------------------------------------------------------------
(* Properties *)

Phases    == {"idle", "middleware", "encrypting", "requesting", "stored", "rejected"}
Nonces    == Jobs \X Nat
Arguments == [job : Jobs, layers : Seq([key : Keys, nonce : Nonces])]
Metas     == [encrypted : BOOLEAN, keyId : Keys \cup {None}, nonce : Nonces \cup {None},
              oldEncrypted : BOOLEAN, oldKeyId : Keys \cup {None}, oldNonce : Nonces \cup {None}]

Deliveries ==
  [state : {"handler", "failed", "decrypting"}, job : Jobs, args : Arguments, meta : Metas]

\* What the variables hold; a call that encrypts has read a key id.
TypeOK ==
  /\ {before, after, edits, keyChanges} \subseteq Nat
  /\ current \in Keys
  /\ known \in [Workers -> SUBSET Keys]
  /\ phase \in [Jobs -> Phases]
  /\ at \in [Jobs -> Nat]
  /\ keyId \in [Jobs -> Keys \cup {None}]
  /\ \A j \in Jobs : phase[j] = "encrypting" => keyId[j] \in Keys
  /\ args \in [Jobs -> Arguments]
  /\ meta \in [Jobs -> Metas]
  /\ work \in [Workers -> {Idle} \cup Deliveries]

\* A handler is given the arguments its job was enqueued with, or is not
\* called: whatever keys are rotated, forgotten or carried over in meta, by
\* whatever way and version the job came.  The exception is a job that an edit
\* of the chain has put before the encryption again: it is encrypted twice, and
\* the handler gets what is left (encryption.ts:203-219, :231-264,
\* middleware.ts:107).
HandlerSeesArguments ==
  \A w \in Workers :
    work[w].state = "handler" /\ work[w].job \notin shifted =>
      work[w].args = Plain(work[w].job)

\* What an encrypting client sends by enqueue() is encrypted exactly once,
\* however other calls and edits of the chain fall between its steps, unless
\* one has taken the encryption from before the call to behind it, or the other
\* way round (encryption.ts:4-5, middleware.ts:165-177).
EncryptedOnce ==
  \A j \in Jobs :
    phase[j] = "requesting" /\ at[j] > 0 /\ j \notin shifted => Len(args[j].layers) = 1

\* A delivery fails in the decryption only where the worker has no key for
\* the job, or where the arguments are none of its doing: they were sent in
\* the clear with the meta of an encrypted job.  So a rotation in the middle
\* of an enqueue, and meta with entries of both versions, do no harm
\* (encryption.ts:145-146, :245-246).
FailsForWantOfKey ==
  [][\A w \in Workers :
       work[w].state # "failed" /\ work'[w].state = "failed" =>
         \/ work'[w].args.layers = <<>>
         \/ Outer(work'[w].args).key \notin known[w]]_vars
=============================================================================
