----------------------------- MODULE MCChannel -----------------------------
(***************************************************************************)
(* Instances of Channel for TLC.  The coroutines are interchangeable.      *)
(***************************************************************************)
EXTENDS Channel, TLC

Interchangeable == Permutations(Coroutines)
=============================================================================
