----------------------------- MODULE MediaAssets -----------------------------
(***************************************************************************)
(* The state the media API and the media worker share: the rows of         *)
(* media_assets, media_variants, media_releases and                        *)
(* media_deletion_evidence, the private object store with its presigned    *)
(* upload URLs, and the Kafka topics media.uploaded.v1,                    *)
(* media.processed.v1 and media.processing-failed.v1.                      *)
(*                                                                         *)
(* A row column no property distinguishes (names, sizes, dimensions,       *)
(* content types) is left out; an object is "none", "ok" (its size is the  *)
(* declared one) or "wrong" (any other size).                              *)
(***************************************************************************)
EXTENDS Naturals, FiniteSets

CONSTANTS
    Assets,        \* media asset ids
    Kinds,         \* variant kinds a transcode of an asset produces
    Releases,      \* release ids
    Original,      \* the item of an asset that is its original upload
    None,          \* no asset
    Workers,       \* consumers of the group tamo-media-processing-v1
    Requests,      \* request slots of the API processes
    ReleaseLimit,  \* releases an asset may have (three in the code)
    MaxEvents,     \* bound: uncommitted upload events per asset
    MaxFaults,     \* bound: crashes, rebalances and failed calls in one behaviour
    SharedProcess,       \* TRUE: the consumers are goroutines of one worker process
    TimelyWorkers,       \* TRUE: no handler outlives its five-minute claim
    MultiStatementExec   \* TRUE: the connection runs several statements in one Exec

ASSUME ItemsAreDistinct ==
    /\ Original \notin Kinds \cup Releases
    /\ Kinds \cap Releases = {}

ASSUME KindsAreFinite == IsFiniteSet(Kinds) /\ Kinds # {}

ASSUME ReleasesAreFinite == IsFiniteSet(Releases)

ASSUME NoneIsNoAsset == None \notin Assets

ASSUME BoundsAreNatural ==
    /\ ReleaseLimit \in Nat
    /\ MaxEvents \in Nat
    /\ MaxFaults \in Nat

ASSUME SwitchesAreBoolean ==
    /\ SharedProcess \in BOOLEAN
    /\ TimelyWorkers \in BOOLEAN
    /\ MultiStatementExec \in BOOLEAN

VARIABLES
    status,       \* media_assets.status, "absent" before the row exists
    stale,        \* updated_at is more than five minutes ago
    variantRows,  \* the kinds of media_variants rows of an asset
    releaseRow,   \* the state of each media_releases row of an asset
    evidence,     \* assets with a media_deletion_evidence row
    object,       \* the object store: asset, item -> content
    putUrl,       \* the items with an unexpired presigned PUT URL
    queued,       \* uncommitted media.uploaded.v1 records no consumer holds
    announced,    \* outcomes published per asset
    workerAt, workerAsset, workerPut, workerOwns,
    cancelled,    \* workers whose context is cancelled
    requestAt, requestAsset, requestItem, requestTargets,
    faults,       \* crashes and failed calls so far
    unpublished,  \* history: the last upload publication was not confirmed
    erasing,      \* history: a deletion has started to remove objects
    uncleaned     \* history: an attempt ended and left derived objects behind

rowVars == <<status, stale, variantRows, releaseRow, evidence>>
storeVars == <<object, putUrl>>
topicVars == <<queued, announced>>
workerVars == <<workerAt, workerAsset, workerPut, workerOwns, cancelled>>
requestVars == <<requestAt, requestAsset, requestItem, requestTargets>>
historyVars == <<unpublished, erasing, uncleaned>>

vars == <<rowVars, storeVars, topicVars, workerVars, requestVars, faults,
          historyVars>>

Items == {Original} \cup Kinds \cup Releases

Statuses == {"absent", "pending", "uploaded", "processing", "ready",
             "failed", "deleted"}

ReleaseStates == {"unused", "pending", "expired", "uploaded", "removed"}

Contents == {"none", "ok", "wrong"}

WorkerSteps == {"idle", "claim", "process", "put", "complete", "markFailed",
                "announceReady", "announceFailed", "commit"}

RequestSteps == {"idle", "head", "markUploaded", "requeue", "publish",
                 "listTargets", "erase", "finishDelete",
                 "headRelease", "markRelease"}

RowTypes ==
    /\ status \in [Assets -> Statuses]
    /\ stale \in [Assets -> BOOLEAN]
    /\ variantRows \in [Assets -> SUBSET Kinds]
    /\ releaseRow \in [Assets -> [Releases -> ReleaseStates]]
    /\ evidence \in SUBSET Assets

StoreTypes ==
    /\ object \in [Assets -> [Items -> Contents]]
    /\ putUrl \in [Assets -> SUBSET Items]

TopicTypes ==
    /\ queued \in [Assets -> Nat]
    /\ announced \in [Assets -> SUBSET {"processed", "failed"}]

WorkerTypes ==
    /\ workerAt \in [Workers -> WorkerSteps]
    /\ workerAsset \in [Workers -> Assets \cup {None}]
    /\ workerPut \in [Workers -> SUBSET Kinds]
    /\ workerOwns \in [Workers -> BOOLEAN]
    /\ cancelled \in SUBSET Workers

RequestTypes ==
    /\ requestAt \in [Requests -> RequestSteps]
    /\ requestAsset \in [Requests -> Assets \cup {None}]
    /\ requestItem \in [Requests -> Items]
    /\ requestTargets \in [Requests -> SUBSET Items]

HistoryTypes ==
    /\ faults \in 0..MaxFaults
    /\ unpublished \in SUBSET Assets
    /\ erasing \in SUBSET Assets
    /\ uncleaned \in SUBSET Assets

\* The row is visible to the queries that say deleted_at IS NULL.
Live(a) == status[a] \notin {"absent", "deleted"}

\* The media_releases rows of an asset that exist.
ReleaseRows(a) == {r \in Releases : releaseRow[a][r] \notin {"unused", "removed"}}

\* A crash, a rebalance or a failed call, counted against the bound of the run.
Fault == faults < MaxFaults /\ faults' = faults + 1

Init ==
    /\ status = [a \in Assets |-> "absent"]
    /\ stale = [a \in Assets |-> FALSE]
    /\ variantRows = [a \in Assets |-> {}]
    /\ releaseRow = [a \in Assets |-> [r \in Releases |-> "unused"]]
    /\ evidence = {}
    /\ object = [a \in Assets |-> [i \in Items |-> "none"]]
    /\ putUrl = [a \in Assets |-> {}]
    /\ queued = [a \in Assets |-> 0]
    /\ announced = [a \in Assets |-> {}]
    /\ workerAt = [w \in Workers |-> "idle"]
    /\ workerAsset = [w \in Workers |-> None]
    /\ workerPut = [w \in Workers |-> {}]
    /\ workerOwns = [w \in Workers |-> FALSE]
    /\ cancelled = {}
    /\ requestAt = [h \in Requests |-> "idle"]
    /\ requestAsset = [h \in Requests |-> None]
    /\ requestItem = [h \in Requests |-> Original]
    /\ requestTargets = [h \in Requests |-> {}]
    /\ faults = 0
    /\ unpublished = {}
    /\ erasing = {}
    /\ uncleaned = {}

=============================================================================
