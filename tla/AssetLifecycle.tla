--------------------------- MODULE AssetLifecycle ----------------------------
(***************************************************************************)
(* What the pipeline promises about one asset, without queries, messages   *)
(* or object keys. An asset moves through its statuses; at most one worker *)
(* attempts it at a time; only the worker making the attempt settles it;   *)
(* an attempt that ends without settling leaves the asset processing, and  *)
(* another worker may take it over; a deletion is final.                   *)
(***************************************************************************)
CONSTANTS Assets, Workers

VARIABLES phase,    \* the status of each asset
          attempt   \* the workers attempting each asset

Upload(a) == phase[a] \in {"pending", "failed"} /\ phase' = [phase EXCEPT ![a] = "uploaded"]

\* The attempt of an asset is free: it waits, or its last worker gave up.
Begin(a, w) ==
    /\ phase[a] \in {"uploaded", "processing"}
    /\ attempt[a] = {}
    /\ phase' = [phase EXCEPT ![a] = "processing"]
    /\ attempt' = [attempt EXCEPT ![a] = {w}]

Settle(a, w) ==
    /\ phase[a] = "processing"
    /\ attempt[a] = {w}
    /\ \E result \in {"ready", "failed"} : phase' = [phase EXCEPT ![a] = result]
    /\ attempt' = [attempt EXCEPT ![a] = {}]

Abandon(a, w) ==
    /\ attempt[a] = {w}
    /\ attempt' = [attempt EXCEPT ![a] = {}]
    /\ UNCHANGED phase

Create(a) == phase[a] = "absent" /\ phase' = [phase EXCEPT ![a] = "pending"]

Delete(a) == phase[a] \notin {"absent", "deleted"} /\ phase' = [phase EXCEPT ![a] = "deleted"]

LifecycleInit ==
    /\ phase = [a \in Assets |-> "absent"]
    /\ attempt = [a \in Assets |-> {}]

LifecycleNext ==
    \E a \in Assets :
        \/ (Create(a) \/ Upload(a) \/ Delete(a)) /\ UNCHANGED attempt
        \/ \E w \in Workers : Begin(a, w) \/ Settle(a, w) \/ Abandon(a, w)

LifecycleSpec == LifecycleInit /\ [][LifecycleNext]_<<phase, attempt>>

=============================================================================
