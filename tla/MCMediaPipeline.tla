--------------------------- MODULE MCMediaPipeline ---------------------------
(***************************************************************************)
(* Instances of MediaPipeline for TLC. Nothing tells one asset, request    *)
(* slot, worker or release id from another, so the runs that check no      *)
(* liveness treat them as interchangeable.                                 *)
(***************************************************************************)
EXTENDS MediaPipeline, TLC

Slots ==
    Permutations(Assets) \cup Permutations(Workers) \cup Permutations(Requests)
        \cup Permutations(Releases)

=============================================================================
