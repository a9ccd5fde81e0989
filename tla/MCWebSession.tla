---------------------------- MODULE MCWebSession -----------------------------
(***************************************************************************)
(* Instances of WebSession for TLC: open calls are alike.                  *)
(***************************************************************************)
EXTENDS WebSession, TLC

Interchangeable == Permutations(Calls)

=============================================================================
