----------------------------- MODULE MCCommerce ------------------------------
(***************************************************************************)
(* Instances of Commerce for TLC; ids, keys and slots of a kind are        *)
(* interchangeable in the runs that check no liveness.                     *)
(***************************************************************************)
EXTENDS Commerce, TLC

Interchangeable ==
    Permutations(Assets) \cup Permutations(Licenses) \cup Permutations(Carts)
        \cup Permutations(Orders) \cup Permutations(Keys) \cup Permutations(Events)
        \cup Permutations(Requests)

=============================================================================
