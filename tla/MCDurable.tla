------------------------------ MODULE MCDurable ------------------------------
(***************************************************************************)
(* The handlers that TLC runs.                                             *)
(***************************************************************************)
EXTENDS Durable

MCOps == {"t", "a", "r", "b", "u", "e"}

Do(kind, o) == [kind |-> kind, ops |-> <<o>>]
Checkpoint  == [kind |-> "checkpoint", ops |-> <<>>]
Complete    == [kind |-> "complete", ops |-> <<>>]

\* Every operation in turn, a checkpoint after each few.
OneByOne == <<Do("time", "t"), Do("call", "a"), Checkpoint, Do("random", "r"),
              Do("call", "e"), Checkpoint, Do("time", "u"), Complete>>

\* Two calls at once.
Together == <<Do("time", "t"), [kind |-> "call", ops |-> <<"a", "b">>], Checkpoint,
              Do("random", "r"), Checkpoint, Complete>>

\* Two calls at once, one of which has no key.
OneUnnamed == <<[kind |-> "call", ops |-> <<"e", "b">>], Do("call", "a"), Checkpoint,
                Do("random", "r"), Checkpoint>>

MCPrograms == {OneByOne, Together, OneUnnamed}
=============================================================================
