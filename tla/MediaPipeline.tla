---------------------------- MODULE MediaPipeline ----------------------------
(***************************************************************************)
(* The upload and processing pipeline: the API's upload and release        *)
(* handlers and the workers, over the rows, objects and topics they share. *)
(* This module composes their actions, states the fairness the deployment  *)
(* gives them, and states what the pipeline must guarantee.                *)
(***************************************************************************)
EXTENDS ReleaseApi, ProcessingWorker

Client ==
    \/ \E a \in Assets : CreateUpload(a)
    \/ \E a \in Assets, i \in Items : ClientPut(a, i)
    \/ \E a \in Assets, i \in Items : UrlExpires(a, i)
    \/ \E a \in Assets, r \in Releases : CreateRelease(a, r)
    \/ \E a \in Assets, r \in Releases : ReleaseExpires(a, r)

Handlers ==
    \E h \in Requests :
        \/ \E a \in Assets : BeginComplete(h, a) \/ BeginRetry(h, a) \/ BeginDelete(h, a)
        \/ \E a \in Assets, r \in Releases : BeginCompleteRelease(h, a, r)
        \/ UploadApiStep(h)
        \/ ReleaseApiStep(h)
        \/ PublishUploadedFails(h)
        \/ RequestAborts(h)

Consumers ==
    \E w \in Workers :
        \/ \E a \in Assets : Poll(w, a)
        \/ WorkerStep(w)
        \/ Rebalance(w)
        \/ WorkerStops(w)

Next == Client \/ Handlers \/ Consumers \/ \E a \in Assets : ClaimAges(a)

Spec == Init /\ [][Next]_vars

(***************************************************************************)
(* Fairness. A handler that has started and a worker that holds a record   *)
(* keep running (both are sequential code under a scheduler), and a worker *)
(* whose context is cancelled returns. A partition is read in offset       *)
(* order, so a record that stays in the topic is polled even when the      *)
(* consumers are busy with others from time to time: strong fairness. Time *)
(* passes. Nothing is assumed of crashes or failures.                      *)
(***************************************************************************)
Fairness ==
    /\ \A h \in Requests : WF_vars(UploadApiStep(h) \/ ReleaseApiStep(h))
    /\ \A w \in Workers : WF_vars(WorkerStep(w) \/ (w \in cancelled /\ WorkerStops(w)))
    /\ \A a \in Assets : SF_vars(\E w \in Workers : Poll(w, a))
    /\ \A a \in Assets : WF_vars(ClaimAges(a))

FairSpec == Spec /\ Fairness

(***************************************************************************)
(* A contributor who wants the asset deleted asks again until it is, which *)
(* takes a free request slot: strong fairness on that request.             *)
(***************************************************************************)
DeletingSpec ==
    /\ FairSpec
    /\ \A a \in Assets : SF_vars(a \in erasing /\ \E h \in Requests : BeginDelete(h, a))

-----------------------------------------------------------------------------
(* Properties *)

\* Every variable holds a value of its kind.
TypeOK ==
    /\ RowTypes
    /\ StoreTypes
    /\ TopicTypes
    /\ WorkerTypes
    /\ RequestTypes
    /\ HistoryTypes

\* At most one worker processes an asset at a time, however many copies of its
\* upload event the topic delivers and however often claims are taken over.
ExclusiveClaim ==
    \A a \in Assets : \A v, w \in Workers :
        HoldsClaim(v, a) /\ HoldsClaim(w, a) => v = w

\* An asset the API reports as ready has a row and a stored object for every
\* variant, unless a deletion has already started to remove its objects: no
\* cleanup of an earlier or a dying attempt takes them away again.
ReadyIsServable ==
    \A a \in Assets : status[a] = "ready" /\ a \notin erasing =>
        /\ variantRows[a] = Kinds
        /\ \A k \in Kinds : object[a][k] = "ok"

\* Some copy of the asset's upload event will still reach a claim, or some
\* handler is about to publish one.
EventOutstanding(a) ==
    \/ queued[a] > 0
    \/ \E w \in Workers : workerAt[w] = "claim" /\ workerAsset[w] = a
    \/ \E h \in Requests : requestAt[h] = "publish" /\ requestAsset[h] = a

\* An uploaded asset never waits for an event that will not come: one is
\* outstanding, or the last publication failed, which its caller was told.
NoUploadIsForgotten ==
    \A a \in Assets : status[a] = "uploaded" =>
        EventOutstanding(a) \/ a \in unpublished

\* A deleted asset keeps no variant or release rows, whatever a worker or a
\* release handler was doing when the deletion committed.
DeletedKeepsNoRows ==
    \A a \in Assets : status[a] = "deleted" =>
        variantRows[a] = {} /\ ReleaseRows(a) = {}

\* The forms of an asset that are confirmed or may still be.
ActiveReleases(a) == {r \in Releases : releaseRow[a][r] \in {"pending", "uploaded"}}

\* An asset never has more active release forms than the limit, however
\* expiry, creation and late confirmation interleave.
ReleaseLimitHolds ==
    \A a \in Assets : Cardinality(ActiveReleases(a)) <= ReleaseLimit

\* An asset recorded as failed has no partially stored derivatives: the cleanup
\* is over before the status is written, and nobody stores for it afterwards.
\* It says so of assets no attempt of which left objects behind, which
\* tamo-media-service/README.md:20 does not except: a put that answered with an
\* error after storing, a deletion of the cleanup that failed, or an attempt
\* that a crash, a failed query or another consumer ended before its cleanup.
FailedKeepsNoDerivatives ==
    \A a \in Assets : status[a] = "failed" /\ a \notin uncleaned =>
        \A k \in Kinds : object[a][k] = "none"

\* An outcome is final even if a worker outlives its claim: a ready asset only
\* leaves that status by deletion, and a deleted one stays deleted.
SettledIsFinal ==
    [][\A a \in Assets :
        /\ status[a] = "ready" => status'[a] \in {"ready", "deleted"}
        /\ status[a] = "deleted" => status'[a] = "deleted"]_vars

\* The pipeline implements the life cycle of an asset: status changes happen
\* only along it, and only the one worker holding the claim settles it.
Lifecycle == INSTANCE AssetLifecycle WITH
    phase <- status,
    attempt <- [a \in Assets |-> {w \in Workers : HoldsClaim(w, a)}]

LifecycleSpec == Lifecycle!LifecycleSpec

\* An upload whose event is in the topic is claimed or deleted, even across a
\* crash: the record is committed only after the claim was decided.
QueuedUploadIsClaimed ==
    \A a \in Assets :
        (status[a] = "uploaded" /\ queued[a] > 0) ~> (status[a] # "uploaded")

\* Nothing crashes or fails, and no consumer is stopped by the error of another
\* one of its process.
Undisturbed == faults = 0 /\ cancelled = {}

\* Left undisturbed, every claimed asset becomes ready or failed, unless it is
\* deleted meanwhile.
ProcessingSettles ==
    []Undisturbed =>
        \A a \in Assets : (status[a] = "processing") ~> (status[a] # "processing")

\* A claim older than five minutes is reclaimed, so the asset of a crashed
\* worker is processed after all.
StaleClaimIsReclaimed ==
    \A a \in Assets : (status[a] = "processing" /\ stale[a])
                          ~> ~(status[a] = "processing" /\ stale[a])

\* Left undisturbed, every ready asset is announced on media.processed.v1.
ReadyIsAnnounced ==
    []Undisturbed =>
        \A a \in Assets : (status[a] = "ready") ~> ("processed" \in announced[a])

\* A deletion that has begun to remove objects ends with the row deleted.
ErasedIsDeleted ==
    \A a \in Assets : (a \in erasing) ~> (status[a] = "deleted")

=============================================================================
