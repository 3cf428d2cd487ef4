------------------------------ MODULE MCWorker ------------------------------
(***************************************************************************)
(* The instances of the worker that TLC checks: see the .cfg files.        *)
(***************************************************************************)
EXTENDS WorkerProperties, TLC

\* Jobs are interchangeable where no set of special jobs tells them apart.
JobSymmetry == Permutations(Jobs)
=============================================================================
