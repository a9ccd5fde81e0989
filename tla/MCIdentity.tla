----------------------------- MODULE MCIdentity ------------------------------
(***************************************************************************)
(* Instances of Identity for TLC. Refresh tokens are not permuted: NewToken *)
(* chooses among them.                                                     *)
(***************************************************************************)
EXTENDS Identity, TLC

Interchangeable == Permutations(Requests) \cup Permutations(VerificationTokens)

=============================================================================
