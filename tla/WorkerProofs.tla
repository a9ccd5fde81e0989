---------------------------- MODULE WorkerProofs -----------------------------
(***************************************************************************)
(* Claims are exclusive, the pipeline implements AssetLifecycle, and what  *)
(* a worker completes is complete: proofs for every instance whose         *)
(* handlers finish within the five minutes of their claim.                 *)
(***************************************************************************)
EXTENDS MediaPipelineProofs

(***************************************************************************)
(* An asset whose claim is held is processing under a fresh claim, or was  *)
(* deleted meanwhile; the holder is alone.                                 *)
(***************************************************************************)
ClaimInv ==
    \A a \in Assets : \A w \in Workers : HoldsClaim(w, a) =>
        /\ status[a] \in {"processing", "deleted"}
        /\ status[a] = "processing" => ~stale[a]
        /\ \A v \in Workers : HoldsClaim(v, a) => v = w

\* No worker gains a claim, and a held claim stays as it is unless its asset is
\* deleted.
ClaimsOnlyEnd ==
    /\ \A a \in Assets : \A w \in Workers : HoldsClaim(w, a)' => HoldsClaim(w, a)
    /\ \A a \in Assets : \A w \in Workers : HoldsClaim(w, a)' =>
        status'[a] = "deleted" \/ (status'[a] = status[a] /\ stale'[a] = stale[a])

\* The client, a handler or time takes a step.
Surroundings == Client \/ Handlers \/ \E a \in Assets : ClaimAges(a)

\* None of those steps is a worker's.
LEMMA SurroundingsLeaveWorkers == Surroundings => UNCHANGED workerVars
  BY DEF Surroundings, Client, Handlers, UploadApiStep, ReleaseApiStep, CreateUpload,
         ClientPut, UrlExpires, CreateRelease, ReleaseExpires, BeginComplete, BeginRetry,
         BeginDelete, BeginCompleteRelease, HeadOriginal, MarkUploaded, RequeueFailed,
         MarkStatusUploaded, PublishUploaded, PublishUploadedFails, ListTargets,
         EraseObject, FinishDelete, HeadRelease, MarkRelease, RequestAborts, ClaimAges

\* The steps of the surroundings that change a status.
StatusSteps ==
    \/ \E a \in Assets : CreateUpload(a) \/ ClaimAges(a)
    \/ \E h \in Requests : MarkUploaded(h) \/ RequeueFailed(h) \/ FinishDelete(h)

\* All others leave the statuses and the ages of the claims.
LEMMA SurroundingsLeaveStatus ==
  Surroundings => StatusSteps \/ UNCHANGED <<status, stale>>
  BY DEF Surroundings, StatusSteps, Client, Handlers, UploadApiStep, ReleaseApiStep,
         ClientPut, UrlExpires, CreateRelease, ReleaseExpires, BeginComplete, BeginRetry,
         BeginDelete, BeginCompleteRelease, HeadOriginal, PublishUploaded,
         PublishUploadedFails, ListTargets, EraseObject, HeadRelease, MarkRelease,
         RequestAborts, rowVars

\* Claims that only end stay exclusive.
LEMMA EndingKeepsClaims ==
  ASSUME ClaimInv, ClaimsOnlyEnd
  PROVE  ClaimInv'
  BY DEF ClaimInv, ClaimsOnlyEnd

(***************************************************************************)
(* Handlers change the status of assets nobody has claimed, except that a  *)
(* deletion may hit any asset.                                             *)
(***************************************************************************)
LEMMA SurroundingsKeepClaims ==
  ASSUME TypeInv, ClaimInv, TimelyWorkers, Surroundings
  PROVE  ClaimsOnlyEnd
  <1>1. UNCHANGED workerVars
    BY SurroundingsLeaveWorkers
  <1>2. \A a \in Assets, w \in Workers : HoldsClaim(w, a)' = HoldsClaim(w, a)
    BY <1>1 DEF workerVars, HoldsClaim
  <1>types. /\ status \in [Assets -> Statuses] /\ stale \in [Assets -> BOOLEAN]
            /\ \A h \in Requests : requestAt[h] # "idle" => requestAsset[h] \in Assets
    BY DEF TypeInv, RowTypes, RequestsOK, RequestLocals
  <1>3. SUFFICES ASSUME NEW a \in Assets, NEW w \in Workers, HoldsClaim(w, a)
                 PROVE  status'[a] = "deleted" \/ (status'[a] = status[a] /\ stale'[a] = stale[a])
    BY <1>2 DEF ClaimsOnlyEnd
  <1>4. status[a] \in {"processing", "deleted"}
    BY <1>3 DEF ClaimInv
  <1>5. CASE UNCHANGED <<status, stale>>
    BY <1>5
  <1>6. ASSUME NEW b \in Assets, CreateUpload(b) PROVE status'[a] = status[a] /\ stale' = stale
    BY <1>4, <1>6, <1>types DEF CreateUpload
  <1>7. ASSUME NEW b \in Assets, ClaimAges(b) PROVE status' = status /\ stale'[a] = stale[a]
    BY <1>3, <1>7, <1>types DEF ClaimAges
  <1>8. ASSUME NEW h \in Requests, MarkUploaded(h) PROVE status'[a] = status[a] /\ stale' = stale
    BY <1>4, <1>8, <1>types DEF MarkUploaded, MarkStatusUploaded
  <1>9. ASSUME NEW h \in Requests, RequeueFailed(h) PROVE status'[a] = status[a] /\ stale' = stale
    BY <1>4, <1>9, <1>types DEF RequeueFailed, MarkStatusUploaded
  <1>10. ASSUME NEW h \in Requests, FinishDelete(h)
         PROVE  status'[a] = "deleted" \/ (status'[a] = status[a] /\ stale'[a] = stale[a])
    BY <1>10, <1>types DEF FinishDelete, rowVars
  <1>11. QED
    BY <1>5, <1>6, <1>7, <1>8, <1>9, <1>10, SurroundingsLeaveStatus DEF StatusSteps

(***************************************************************************)
(* A worker keeps its claim, or gives it up with or without an outcome.    *)
(***************************************************************************)
LEMMA WorkersKeepClaims ==
  ASSUME TypeInv, ClaimInv, Consumers, ~ \E w \in Workers : Claim(w)
  PROVE  ClaimsOnlyEnd
  <1>types. /\ status \in [Assets -> Statuses] /\ stale \in [Assets -> BOOLEAN]
            /\ workerAt \in [Workers -> WorkerSteps]
            /\ workerAsset \in [Workers -> Assets \cup {None}]
            /\ \A w \in Workers : workerAt[w] # "idle" => workerAsset[w] \in Assets
    BY DEF TypeInv, RowTypes, WorkersOK, WorkerTypes, WorkerLocals
  <1>1. ASSUME NEW w \in Workers, NEW a \in Assets, Poll(w, a) PROVE ClaimsOnlyEnd
    BY <1>1, <1>types DEF Poll, rowVars, ClaimsOnlyEnd, HoldsClaim
  <1>2. ASSUME NEW w \in Workers, ProcessOriginal(w) PROVE ClaimsOnlyEnd
    BY <1>2, <1>types DEF ProcessOriginal, ContinueWorker, rowVars, ClaimsOnlyEnd, HoldsClaim
  <1>3. ASSUME NEW w \in Workers, PutVariant(w) PROVE ClaimsOnlyEnd
    BY <1>3, <1>types DEF PutVariant, ContinueWorker, rowVars, ClaimsOnlyEnd, HoldsClaim
  <1>4. ASSUME NEW w \in Workers, PutFails(w) PROVE ClaimsOnlyEnd
    BY <1>4, <1>types DEF PutFails, ContinueWorker, rowVars, ClaimsOnlyEnd, HoldsClaim
  <1>5. ASSUME NEW w \in Workers, CompleteProcessing(w) PROVE ClaimsOnlyEnd
    <2>1. HoldsClaim(w, workerAsset[w]) /\ workerAsset[w] \in Assets
      BY <1>5, <1>types DEF CompleteProcessing, HoldsClaim
    <2>2. /\ \A v \in Workers \ {w} : workerAt'[v] = workerAt[v] /\ workerAsset'[v] = workerAsset[v]
          /\ workerAt'[w] \in {"announceReady", "idle"}
      BY <1>5, <1>types DEF CompleteProcessing, ContinueWorker, ReturnRecord, ResetWorker
    <2>3. \A a \in Assets \ {workerAsset[w]} : status'[a] = status[a] /\ stale'[a] = stale[a]
      BY <1>5, <1>types DEF CompleteProcessing
    <2>4. QED
      BY <2>1, <2>2, <2>3 DEF ClaimsOnlyEnd, ClaimInv, HoldsClaim
  <1>6. ASSUME NEW w \in Workers, MarkFailed(w) PROVE ClaimsOnlyEnd
    <2>1. HoldsClaim(w, workerAsset[w]) /\ workerAsset[w] \in Assets
      BY <1>6, <1>types DEF MarkFailed, HoldsClaim
    <2>2. /\ \A v \in Workers \ {w} : workerAt'[v] = workerAt[v] /\ workerAsset'[v] = workerAsset[v]
          /\ workerAt'[w] = "announceFailed"
      BY <1>6, <1>types DEF MarkFailed, ContinueWorker
    <2>3. \A a \in Assets \ {workerAsset[w]} : status'[a] = status[a] /\ stale'[a] = stale[a]
      BY <1>6, <1>types DEF MarkFailed
    <2>4. QED
      BY <2>1, <2>2, <2>3 DEF ClaimsOnlyEnd, ClaimInv, HoldsClaim
  <1>7. ASSUME NEW w \in Workers, Announce(w) PROVE ClaimsOnlyEnd
    BY <1>7, <1>types DEF Announce, ContinueWorker, rowVars, ClaimsOnlyEnd, HoldsClaim
  <1>8. ASSUME NEW w \in Workers, CommitRecord(w) PROVE ClaimsOnlyEnd
    BY <1>8, <1>types DEF CommitRecord, ResetWorker, rowVars, ClaimsOnlyEnd, HoldsClaim
  <1>9. ASSUME NEW w \in Workers, Rebalance(w) PROVE ClaimsOnlyEnd
    BY <1>9 DEF Rebalance, rowVars, ClaimsOnlyEnd, HoldsClaim
  <1>10. ASSUME NEW w \in Workers, WorkerStops(w) PROVE ClaimsOnlyEnd
    BY <1>10, <1>types DEF WorkerStops, ReturnRecord, ResetWorker, rowVars, ClaimsOnlyEnd,
                           HoldsClaim
  <1>11. QED
    BY <1>1, <1>2, <1>3, <1>4, <1>5, <1>6, <1>7, <1>8, <1>9, <1>10
       DEF Consumers, WorkerStep

(***************************************************************************)
(* A claim is taken when nobody holds one: the row says uploaded, or its   *)
(* claim is stale, and a held claim is neither.                            *)
(***************************************************************************)
LEMMA ClaimIsFree ==
  ASSUME TypeInv, ClaimInv, NEW w \in Workers, Claim(w), Claimable(workerAsset[w])
  PROVE  \A v \in Workers : ~HoldsClaim(v, workerAsset[w])
  BY DEF TypeInv, WorkersOK, WorkerLocals, Claim, Claimable, ClaimInv

\* A claim is the only one of its asset.
LEMMA ClaimKeepsClaims ==
  ASSUME TypeInv, ClaimInv, NEW w \in Workers, Claim(w)
  PROVE  ClaimInv'
  <1>types. /\ status \in [Assets -> Statuses] /\ stale \in [Assets -> BOOLEAN]
            /\ workerAt \in [Workers -> WorkerSteps]
            /\ workerAsset[w] \in Assets
    BY DEF Claim, TypeInv, RowTypes, WorkersOK, WorkerTypes, WorkerLocals
  <1>1. CASE Claimable(workerAsset[w])
    <2>1. \A v \in Workers : ~HoldsClaim(v, workerAsset[w])
      BY <1>1, ClaimIsFree
    <2>2. /\ status' = [status EXCEPT ![workerAsset[w]] = "processing"]
          /\ stale' = [stale EXCEPT ![workerAsset[w]] = FALSE]
          /\ workerAsset' = workerAsset
          /\ workerAt' = [workerAt EXCEPT ![w] = "process"]
      BY <1>1 DEF Claim, ContinueWorker
    <2>3. QED
      BY <2>1, <2>2, <1>types DEF ClaimInv, HoldsClaim
  <1>2. CASE ~Claimable(workerAsset[w])
    <2>1. ClaimsOnlyEnd
      BY <1>2, <1>types DEF Claim, ContinueWorker, ClaimsOnlyEnd, HoldsClaim
    <2>2. QED
      BY <2>1, EndingKeepsClaims
  <1>3. QED
    BY <1>1, <1>2

\* Every step keeps claims exclusive.
LEMMA ClaimStep ==
  ASSUME TypeInv, ClaimInv, TimelyWorkers, [Next]_vars
  PROVE  ClaimInv'
  <1>1. CASE Surroundings
    BY <1>1, SurroundingsKeepClaims, EndingKeepsClaims
  <1>2. CASE Consumers
    BY <1>2, WorkersKeepClaims, ClaimKeepsClaims, EndingKeepsClaims
  <1>3. CASE UNCHANGED vars
    BY <1>3 DEF vars, rowVars, workerVars, ClaimInv, HoldsClaim
  <1>4. QED
    BY <1>1, <1>2, <1>3 DEF Next, Surroundings

\* At most one worker processes an asset at a time, provided that handlers end
\* before their claim is five minutes old: for every number of workers, records
\* and faults.
THEOREM ClaimsAreExclusive == TimelyWorkers /\ Spec => []ExclusiveClaim
  <1>1. Init => ClaimInv
    BY DEF Init, ClaimInv, HoldsClaim
  <1>2. ClaimInv => ExclusiveClaim
    BY DEF ClaimInv, ExclusiveClaim
  <1>3. CASE TimelyWorkers
    <2>1. TypeInv /\ ClaimInv /\ [Next]_vars => ClaimInv'
      BY <1>3, ClaimStep
    <2>2. QED
      BY <1>1, <1>2, <2>1, TypeInit, TypeStep, PTL DEF Spec
  <1>4. QED
    BY <1>3

-----------------------------------------------------------------------------
(* The pipeline implements AssetLifecycle *)

Attempts == [a \in Assets |-> {w \in Workers : HoldsClaim(w, a)}]

\* The attempts at an asset are those of the one holder.
LEMMA HolderIsAlone ==
  ASSUME ClaimInv, NEW a \in Assets, NEW w \in Workers, HoldsClaim(w, a)
  PROVE  Attempts[a] = {w}
  BY DEF ClaimInv, Attempts

\* When no claim changes, no attempt does.
LEMMA SameClaimsSameAttempts ==
  ASSUME \A w \in Workers : \A a \in Assets : HoldsClaim(w, a)' = HoldsClaim(w, a)
  PROVE  Attempts' = Attempts
  BY DEF Attempts

(***************************************************************************)
(* The holder of a claim gives it up: its attempt ends, the others stay.   *)
(***************************************************************************)
LEMMA ClaimGivenUp ==
  ASSUME ClaimInv, NEW w \in Workers, NEW a \in Assets, HoldsClaim(w, a),
         \A v \in Workers \ {w} : workerAt'[v] = workerAt[v] /\ workerAsset'[v] = workerAsset[v],
         workerAt'[w] \notin {"process", "put", "complete", "markFailed"}
  PROVE  Attempts[a] = {w} /\ Attempts' = [Attempts EXCEPT ![a] = {}]
  <1>1. Attempts[a] = {w}
    BY HolderIsAlone
  <1>2. \A b \in Assets : Attempts'[b] = IF b = a THEN {} ELSE Attempts[b]
    BY <1>1 DEF Attempts, HoldsClaim
  <1>3. QED
    BY <1>1, <1>2 DEF Attempts

\* The client and the handlers take steps of the life cycle, or none.
LEMMA SurroundingsMap ==
  ASSUME TypeInv, Surroundings
  PROVE  Lifecycle!LifecycleNext \/ UNCHANGED <<status, Attempts>>
  <1>types. /\ status \in [Assets -> Statuses]
            /\ \A h \in Requests : requestAt[h] # "idle" => requestAsset[h] \in Assets
    BY DEF TypeInv, RowTypes, RequestsOK, RequestLocals
  <1>1. UNCHANGED Attempts
    BY SurroundingsLeaveWorkers DEF workerVars, Attempts, HoldsClaim
  <1>2. CASE UNCHANGED <<status, stale>>
    BY <1>1, <1>2
  <1>3. ASSUME NEW a \in Assets, CreateUpload(a) PROVE Lifecycle!LifecycleNext
    BY <1>1, <1>3 DEF CreateUpload, Attempts, Lifecycle!LifecycleNext, Lifecycle!Create
  <1>4. ASSUME NEW h \in Requests, MarkUploaded(h) \/ RequeueFailed(h)
        PROVE  Lifecycle!LifecycleNext \/ status' = status
    <2>1. CASE status' = status
      BY <2>1
    <2>2. CASE status' # status
      <3>1. /\ requestAsset[h] \in Assets
            /\ status[requestAsset[h]] \in {"pending", "failed"}
            /\ status' = [status EXCEPT ![requestAsset[h]] = "uploaded"]
        BY <1>4, <1>types, <2>2 DEF MarkUploaded, RequeueFailed, MarkStatusUploaded
      <3>2. Lifecycle!Upload(requestAsset[h])
        BY <3>1 DEF Lifecycle!Upload
      <3>3. QED
        BY <1>1, <3>1, <3>2 DEF Attempts, Lifecycle!LifecycleNext
    <2>3. QED
      BY <2>1, <2>2
  <1>5. ASSUME NEW h \in Requests, FinishDelete(h)
        PROVE  Lifecycle!LifecycleNext \/ status' = status
    <2>1. CASE status' = status
      BY <2>1
    <2>2. CASE status' # status
      <3>1. requestAsset[h] \in Assets /\ Lifecycle!Delete(requestAsset[h])
        BY <1>5, <1>types, <2>2 DEF FinishDelete, rowVars, Live, Lifecycle!Delete
      <3>2. QED
        BY <1>1, <3>1 DEF Attempts, Lifecycle!LifecycleNext
    <2>3. QED
      BY <2>1, <2>2
  <1>6. ASSUME NEW a \in Assets, ClaimAges(a) PROVE status' = status
    BY <1>6 DEF ClaimAges
  <1>7. QED
    BY <1>1, <1>2, <1>3, <1>4, <1>5, <1>6, SurroundingsLeaveStatus DEF StatusSteps

\* A claim begins an attempt.
LEMMA ClaimMaps ==
  ASSUME TypeInv, ClaimInv, NEW w \in Workers, Claim(w)
  PROVE  Lifecycle!LifecycleNext \/ UNCHANGED <<status, Attempts>>
  <1> DEFINE asset == workerAsset[w]
  <1>types. /\ status \in [Assets -> Statuses]
            /\ workerAt \in [Workers -> WorkerSteps]
            /\ asset \in Assets
    BY DEF Claim, TypeInv, RowTypes, WorkersOK, WorkerTypes, WorkerLocals
  <1>1. CASE Claimable(asset)
    <2>1. Attempts[asset] = {}
      BY <1>1, <1>types, ClaimIsFree DEF Attempts
    <2>2. /\ workerAsset' = workerAsset
          /\ workerAt' = [workerAt EXCEPT ![w] = "process"]
          /\ status' = [status EXCEPT ![asset] = "processing"]
          /\ status[asset] \in {"uploaded", "processing"}
          /\ workerAt[w] = "claim"
      BY <1>1 DEF Claim, ContinueWorker, Claimable
    <2>3. \A b \in Assets : Attempts'[b] = IF b = asset THEN {w} ELSE Attempts[b]
      BY <2>1, <2>2, <1>types DEF Attempts, HoldsClaim
    <2>4. Attempts' = [Attempts EXCEPT ![asset] = {w}]
      BY <2>3, <1>types DEF Attempts
    <2>5. Lifecycle!Begin(asset, w)
      BY <2>1, <2>2, <2>4 DEF Lifecycle!Begin, Attempts
    <2>6. QED
      BY <2>5, <1>types DEF Lifecycle!LifecycleNext
  <1>2. CASE ~Claimable(asset)
    <2>1. \A v \in Workers : \A a \in Assets : HoldsClaim(v, a)' = HoldsClaim(v, a)
      BY <1>2, <1>types DEF Claim, ContinueWorker, HoldsClaim
    <2>2. QED
      BY <1>2, <2>1, SameClaimsSameAttempts DEF Claim
  <1>3. QED
    BY <1>1, <1>2

\* An outcome settles the attempt, or abandons it when it is refused.
LEMMA OutcomeMaps ==
  ASSUME TypeInv, ClaimInv, NEW w \in Workers, CompleteProcessing(w) \/ MarkFailed(w)
  PROVE  Lifecycle!LifecycleNext
  <1> DEFINE asset == workerAsset[w]
  <1>types. /\ status \in [Assets -> Statuses]
            /\ workerAt \in [Workers -> WorkerSteps]
            /\ workerAsset \in [Workers -> Assets \cup {None}]
            /\ asset \in Assets
    BY DEF CompleteProcessing, MarkFailed, TypeInv, RowTypes, WorkersOK, WorkerTypes, WorkerLocals
  <1>1. HoldsClaim(w, asset)
    BY DEF CompleteProcessing, MarkFailed, HoldsClaim
  <1>2. /\ \A v \in Workers \ {w} : workerAt'[v] = workerAt[v] /\ workerAsset'[v] = workerAsset[v]
        /\ workerAt'[w] \in {"announceReady", "announceFailed", "idle"}
    BY <1>types DEF CompleteProcessing, MarkFailed, ContinueWorker, ReturnRecord, ResetWorker
  <1>3. Attempts[asset] = {w} /\ Attempts' = [Attempts EXCEPT ![asset] = {}]
    BY <1>1, <1>2, <1>types, ClaimGivenUp
  <1>4. CASE status[asset] = "processing"
    <2>1. \E result \in {"ready", "failed"} : status' = [status EXCEPT ![asset] = result]
      BY <1>4 DEF CompleteProcessing, MarkFailed
    <2>2. Lifecycle!Settle(asset, w)
      BY <1>3, <1>4, <2>1 DEF Lifecycle!Settle, Attempts
    <2>3. QED
      BY <2>2, <1>types DEF Lifecycle!LifecycleNext
  <1>5. CASE status[asset] # "processing"
    <2>1. status' = status
      BY <1>5 DEF CompleteProcessing, MarkFailed
    <2>2. Lifecycle!Abandon(asset, w)
      BY <1>3, <2>1 DEF Lifecycle!Abandon, Attempts
    <2>3. QED
      BY <2>2, <1>types DEF Lifecycle!LifecycleNext
  <1>6. QED
    BY <1>4, <1>5

\* A worker that stops abandons its attempt.
LEMMA StopMaps ==
  ASSUME TypeInv, ClaimInv, NEW w \in Workers, WorkerStops(w)
  PROVE  Lifecycle!LifecycleNext \/ UNCHANGED <<status, Attempts>>
  <1> DEFINE asset == workerAsset[w]
  <1>types. /\ workerAt \in [Workers -> WorkerSteps]
            /\ workerAsset \in [Workers -> Assets \cup {None}]
            /\ asset \in Assets
    BY DEF WorkerStops, TypeInv, WorkersOK, WorkerTypes, WorkerLocals
  <1>1. /\ status' = status
        /\ \A v \in Workers \ {w} : workerAt'[v] = workerAt[v] /\ workerAsset'[v] = workerAsset[v]
        /\ workerAt'[w] = "idle"
    BY <1>types DEF WorkerStops, ReturnRecord, ResetWorker, rowVars
  <1>2. CASE HoldsClaim(w, asset)
    <2>1. Attempts[asset] = {w} /\ Attempts' = [Attempts EXCEPT ![asset] = {}]
      BY <1>1, <1>2, <1>types, ClaimGivenUp
    <2>2. Lifecycle!Abandon(asset, w)
      BY <1>1, <2>1 DEF Lifecycle!Abandon, Attempts
    <2>3. QED
      BY <2>2, <1>types DEF Lifecycle!LifecycleNext
  <1>3. CASE ~HoldsClaim(w, asset)
    <2>1. \A v \in Workers : \A a \in Assets : HoldsClaim(v, a)' = HoldsClaim(v, a)
      BY <1>1, <1>3 DEF HoldsClaim
    <2>2. QED
      BY <1>1, <2>1, SameClaimsSameAttempts
  <1>4. QED
    BY <1>2, <1>3

\* The other steps of a worker are not seen in the life cycle.
LEMMA PlainWorkerStepsMap ==
  ASSUME TypeInv, NEW w \in Workers,
         \/ \E a \in Assets : Poll(w, a)
         \/ ProcessOriginal(w) \/ PutVariant(w) \/ PutFails(w) \/ Announce(w)
         \/ CommitRecord(w) \/ Rebalance(w)
  PROVE  UNCHANGED <<status, Attempts>>
  <1>types. /\ workerAt \in [Workers -> WorkerSteps]
            /\ workerAsset \in [Workers -> Assets \cup {None}]
    BY DEF TypeInv, WorkersOK, WorkerTypes
  <1>1. status' = status
    BY DEF Poll, ProcessOriginal, PutVariant, PutFails, Announce, CommitRecord, Rebalance, rowVars
  <1>2. \A v \in Workers : \A a \in Assets : HoldsClaim(v, a)' = HoldsClaim(v, a)
    BY <1>types DEF Poll, ProcessOriginal, PutVariant, PutFails, Announce, CommitRecord, Rebalance,
                    ContinueWorker, ResetWorker, HoldsClaim
  <1>3. QED
    BY <1>1, <1>2, SameClaimsSameAttempts

\* Every step of the pipeline is a step of the life cycle, or none.
LEMMA LifecycleStep ==
  ASSUME TypeInv, ClaimInv, [Next]_vars
  PROVE  [Lifecycle!LifecycleNext]_<<status, Attempts>>
  <1>1. CASE Surroundings
    BY <1>1, SurroundingsMap
  <1>2. CASE Consumers
    BY <1>2, PlainWorkerStepsMap, ClaimMaps, OutcomeMaps, StopMaps DEF Consumers, WorkerStep
  <1>3. CASE UNCHANGED vars
    BY <1>3 DEF vars, rowVars, workerVars, Attempts, HoldsClaim
  <1>4. QED
    BY <1>1, <1>2, <1>3 DEF Next, Surroundings

\* The rows and workers of the pipeline implement the life cycle of an asset:
\* whatever the topic redelivers and whoever crashes, an asset is attempted by
\* one worker at a time and settled by the one that attempts it.
THEOREM PipelineImplementsLifecycle == TimelyWorkers /\ Spec => LifecycleSpec
  <1>1. Init => ClaimInv
    BY DEF Init, ClaimInv, HoldsClaim
  <1>2. Init => Lifecycle!LifecycleInit
    BY DEF Init, Lifecycle!LifecycleInit, HoldsClaim
  <1>3. CASE TimelyWorkers
    <2>1. TypeInv /\ ClaimInv /\ [Next]_vars
            => ClaimInv' /\ [Lifecycle!LifecycleNext]_<<status, Attempts>>
      BY <1>3, ClaimStep, LifecycleStep
    <2>2. [Lifecycle!LifecycleNext]_<<status, Attempts>>
            => [Lifecycle!LifecycleNext]_<<status,
                  [a \in Assets |-> {w \in Workers : HoldsClaim(w, a)}]>>
      BY DEF Attempts
    <2>3. QED
      BY <1>1, <1>2, <2>1, <2>2, TypeInit, TypeStep, PTL
         DEF Spec, LifecycleSpec, Lifecycle!LifecycleSpec
  <1>4. QED
    BY <1>3

-----------------------------------------------------------------------------
(* What a worker completes *)

(***************************************************************************)
(* Nobody can upload over a derived object; a worker about to complete has *)
(* stored every variant; and what the one worker holding a claim has       *)
(* stored is still there, unless a deletion removes it.                    *)
(***************************************************************************)
ServeInv ==
    /\ \A a \in Assets : putUrl[a] \cap Kinds = {}
    /\ \A w \in Workers : workerAt[w] = "complete" => workerPut[w] = Kinds
    /\ \A a \in Assets : \A w \in Workers : HoldsClaim(w, a) /\ a \notin erasing =>
          \A k \in workerPut[w] : object[a][k] = "ok"
    /\ ReadyIsServable

\* No derived object and no variant row of an asset that is not being deleted
\* changes, nothing is marked ready, and no URL for a derived object is signed.
LeavesDerived ==
    /\ \A a \in Assets : putUrl'[a] \cap Kinds = {}
    /\ \A a \in Assets : a \notin erasing' => a \notin erasing
    /\ \A a \in Assets : a \notin erasing' => \A k \in Kinds : object'[a][k] = object[a][k]
    /\ \A a \in Assets : status'[a] = "ready" =>
          status[a] = "ready" /\ variantRows'[a] = variantRows[a]

\* The client and the handlers leave the derived objects, short of a deletion.
LEMMA SurroundingsLeaveDerived ==
  ASSUME TypeInv, ServeInv, Surroundings
  PROVE  LeavesDerived
  <1>types. /\ status \in [Assets -> Statuses]
            /\ variantRows \in [Assets -> SUBSET Kinds]
            /\ object \in [Assets -> [Items -> Contents]]
            /\ putUrl \in [Assets -> SUBSET Items]
            /\ \A h \in Requests : requestAt[h] # "idle" => requestAsset[h] \in Assets
            /\ \A a \in Assets : putUrl[a] \cap Kinds = {}
    BY DEF TypeInv, RowTypes, StoreTypes, RequestsOK, RequestLocals, ServeInv
  <1>1. ASSUME NEW a \in Assets, CreateUpload(a) PROVE LeavesDerived
    <2>1. \A b \in Assets : putUrl'[b] \subseteq putUrl[b] \cup {Original}
      BY <1>1, <1>types DEF CreateUpload
    <2>2. \A b \in Assets : putUrl'[b] \cap Kinds = {}
      BY <1>types, <2>1, ItemsAreDistinct
    <2>3. /\ UNCHANGED <<variantRows, object, erasing>>
          /\ status' = [status EXCEPT ![a] = "pending"]
      BY <1>1 DEF CreateUpload, historyVars
    <2>4. QED
      BY <1>types, <2>2, <2>3 DEF LeavesDerived
  <1>2. ASSUME NEW a \in Assets, NEW i \in Items, ClientPut(a, i) PROVE LeavesDerived
    <2>1. i \notin Kinds
      BY <1>2, <1>types DEF ClientPut
    <2>2. \A b \in Assets, k \in Kinds : object'[b][k] = object[b][k]
      BY <1>2, <2>1, <1>types, ItemKinds DEF ClientPut
    <2>3. QED
      BY <1>2, <2>2, <1>types DEF ClientPut, rowVars, historyVars, LeavesDerived
  <1>3. ASSUME NEW a \in Assets, NEW i \in Items, UrlExpires(a, i) PROVE LeavesDerived
    BY <1>3, <1>types DEF UrlExpires, rowVars, historyVars, LeavesDerived
  <1>4. ASSUME NEW a \in Assets, NEW r \in Releases, CreateRelease(a, r) PROVE LeavesDerived
    <2>1. \A b \in Assets : putUrl'[b] \subseteq putUrl[b] \cup {r}
      BY <1>4, <1>types DEF CreateRelease
    <2>2. \A b \in Assets : putUrl'[b] \cap Kinds = {}
      BY <1>types, <2>1, ItemsAreDistinct
    <2>3. UNCHANGED <<status, variantRows, object, erasing>>
      BY <1>4 DEF CreateRelease, historyVars
    <2>4. QED
      BY <2>2, <2>3 DEF LeavesDerived
  <1>5. ASSUME NEW h \in Requests, EraseObject(h) PROVE LeavesDerived
    <2>1. /\ erasing' = erasing \cup {requestAsset[h]}
          /\ \A b \in Assets \ {requestAsset[h]} : object'[b] = object[b]
      BY <1>5, <1>types DEF EraseObject
    <2>2. QED
      BY <1>5, <2>1, <1>types DEF EraseObject, rowVars, LeavesDerived
  <1>6. ASSUME NEW h \in Requests, MarkUploaded(h) PROVE LeavesDerived
    BY <1>6, <1>types DEF MarkUploaded, MarkStatusUploaded, storeVars, historyVars, LeavesDerived
  <1>7. ASSUME NEW h \in Requests, RequeueFailed(h) PROVE LeavesDerived
    BY <1>7, <1>types DEF RequeueFailed, MarkStatusUploaded, storeVars, historyVars, LeavesDerived
  <1>8. ASSUME NEW h \in Requests, FinishDelete(h) PROVE LeavesDerived
    BY <1>8, <1>types DEF FinishDelete, rowVars, storeVars, historyVars, LeavesDerived
  <1>9. ASSUME NEW h \in Requests, PublishUploaded(h) \/ PublishUploadedFails(h) \/ RequestAborts(h)
        PROVE LeavesDerived
    BY <1>9, <1>types DEF PublishUploaded, PublishUploadedFails, RequestAborts, rowVars, storeVars,
                          LeavesDerived
  <1>10. ASSUME NEW a \in Assets, NEW r \in Releases, ReleaseExpires(a, r) PROVE LeavesDerived
    BY <1>10, <1>types DEF ReleaseExpires, storeVars, historyVars, LeavesDerived
  <1>11. ASSUME NEW h \in Requests, MarkRelease(h) PROVE LeavesDerived
    BY <1>11, <1>types DEF MarkRelease, storeVars, historyVars, LeavesDerived
  <1>12. ASSUME NEW a \in Assets, ClaimAges(a) PROVE LeavesDerived
    BY <1>12, <1>types DEF ClaimAges, storeVars, historyVars, LeavesDerived
  <1>13. ASSUME UNCHANGED <<rowVars, storeVars, historyVars>> PROVE LeavesDerived
    BY <1>13, <1>types DEF rowVars, storeVars, historyVars, LeavesDerived
  <1>14. QED
    BY <1>1, <1>2, <1>3, <1>4, <1>5, <1>6, <1>7, <1>8, <1>9, <1>10, <1>11, <1>12, <1>13
       DEF Surroundings, Client, Handlers, UploadApiStep, ReleaseApiStep, BeginComplete, BeginRetry,
           BeginDelete, BeginCompleteRelease, HeadOriginal, ListTargets, HeadRelease

\* Workers that hold a claim afterwards held it before with the same variants,
\* or have stored none yet.
LeavesPuts ==
    \A w \in Workers :
        /\ workerAt'[w] = "complete" => workerAt[w] = "complete" /\ workerPut'[w] = workerPut[w]
        /\ \A a \in Assets : HoldsClaim(w, a)' =>
              workerPut'[w] = {} \/ (HoldsClaim(w, a) /\ workerPut'[w] = workerPut[w])

\* Steps that leave derived objects and claims keep the invariant.
LEMMA LeavingKeepsServe ==
  ASSUME TypeInv, ServeInv, LeavesDerived, LeavesPuts
  PROVE  ServeInv'
  <1>types. workerPut \in [Workers -> SUBSET Kinds]
    BY DEF TypeInv, WorkersOK, WorkerTypes
  <1>1. ReadyIsServable'
    BY DEF ReadyIsServable, ServeInv, LeavesDerived
  <1>2. ASSUME NEW a \in Assets, NEW w \in Workers, HoldsClaim(w, a)', a \notin erasing'
        PROVE  \A k \in workerPut'[w] : object'[a][k] = "ok"
    BY <1>2, <1>types DEF ServeInv, LeavesDerived, LeavesPuts
  <1>3. QED
    BY <1>1, <1>2 DEF ServeInv, LeavesDerived, LeavesPuts

(***************************************************************************)
(* The steps of a worker that touch neither an object nor a variant row.   *)
(***************************************************************************)
LEMMA PlainWorkerStepsLeave ==
  ASSUME TypeInv, ServeInv, NEW w \in Workers,
         \/ \E a \in Assets : Poll(w, a)
         \/ Claim(w) \/ ProcessOriginal(w) \/ MarkFailed(w) \/ Announce(w)
         \/ CommitRecord(w) \/ Rebalance(w)
  PROVE  LeavesDerived /\ LeavesPuts
  <1>types. /\ status \in [Assets -> Statuses]
            /\ putUrl \in [Assets -> SUBSET Items]
            /\ workerAt \in [Workers -> WorkerSteps]
            /\ workerAsset \in [Workers -> Assets \cup {None}]
            /\ workerPut \in [Workers -> SUBSET Kinds]
            /\ \A v \in Workers : workerPut[v] # {} => workerAt[v] \in {"put", "complete"}
            /\ \A v \in Workers : workerAt[v] # "idle" => workerAsset[v] \in Assets
            /\ \A a \in Assets : putUrl[a] \cap Kinds = {}
    BY DEF TypeInv, RowTypes, StoreTypes, WorkersOK, WorkerTypes, WorkerLocals, ServeInv
  <1>1. ASSUME NEW a \in Assets, Poll(w, a) PROVE LeavesDerived /\ LeavesPuts
    BY <1>1, <1>types DEF Poll, rowVars, storeVars, historyVars, LeavesDerived, LeavesPuts,
                          HoldsClaim
  <1>2. CASE Claim(w)
    BY <1>2, <1>types DEF Claim, ContinueWorker, storeVars, historyVars, LeavesDerived,
                          LeavesPuts, HoldsClaim
  <1>3. CASE ProcessOriginal(w)
    BY <1>3, <1>types DEF ProcessOriginal, ContinueWorker, rowVars, storeVars, historyVars,
                          LeavesDerived, LeavesPuts, HoldsClaim
  <1>4. CASE MarkFailed(w)
    BY <1>4, <1>types DEF MarkFailed, ContinueWorker, storeVars, historyVars, LeavesDerived,
                          LeavesPuts, HoldsClaim
  <1>5. CASE Announce(w)
    BY <1>5, <1>types DEF Announce, ContinueWorker, rowVars, storeVars, historyVars,
                          LeavesDerived, LeavesPuts, HoldsClaim
  <1>6. CASE CommitRecord(w)
    BY <1>6, <1>types DEF CommitRecord, ResetWorker, rowVars, storeVars, historyVars,
                          LeavesDerived, LeavesPuts, HoldsClaim
  <1>7. CASE Rebalance(w)
    BY <1>7, <1>types DEF Rebalance, rowVars, storeVars, historyVars, LeavesDerived,
                          LeavesPuts, HoldsClaim
  <1>8. QED
    BY <1>1, <1>2, <1>3, <1>4, <1>5, <1>6, <1>7

\* A variant that is stored is there.
LEMMA PutVariantKeepsServe ==
  ASSUME TypeInv, ServeInv, NEW w \in Workers, PutVariant(w)
  PROVE  ServeInv'
  <1> DEFINE asset == workerAsset[w]
  <1>types. /\ asset \in Assets
            /\ object \in [Assets -> [Items -> Contents]]
            /\ workerAt \in [Workers -> WorkerSteps]
            /\ workerPut \in [Workers -> SUBSET Kinds]
            /\ Kinds \subseteq Items
    BY ItemKinds DEF TypeInv, StoreTypes, WorkersOK, WorkerTypes, WorkerLocals, PutVariant
  <1>1. PICK k \in Kinds :
            /\ object' = [object EXCEPT ![asset][k] = "ok"]
            /\ workerPut' = [workerPut EXCEPT ![w] = @ \cup {k}]
            /\ ContinueWorker(w, IF workerPut[w] \cup {k} = Kinds THEN "complete" ELSE "put")
    BY DEF PutVariant
  <1>2. \A a \in Assets, j \in Kinds : object'[a][j] = object[a][j] \/ object'[a][j] = "ok"
    BY <1>1, <1>types
  <1>3. \A v \in Workers : \A a \in Assets : HoldsClaim(v, a)' => HoldsClaim(v, a)
    BY <1>1, <1>types DEF ContinueWorker, HoldsClaim, PutVariant
  <1>4. ReadyIsServable'
    BY <1>2 DEF PutVariant, rowVars, historyVars, ServeInv, ReadyIsServable
  <1>5. ASSUME NEW a \in Assets, NEW v \in Workers, HoldsClaim(v, a)', a \notin erasing',
               NEW j \in workerPut'[v]
        PROVE  object'[a][j] = "ok"
    <2>1. CASE j \in workerPut[v]
      BY <1>2, <1>3, <1>5, <1>types, <2>1 DEF ServeInv, PutVariant, historyVars
    <2>2. CASE j \notin workerPut[v]
      <3>1. v = w /\ j = k
        BY <1>1, <1>5, <1>types, <2>2
      <3>2. a = asset
        BY <1>3, <1>5, <3>1 DEF HoldsClaim
      <3>3. QED
        BY <1>1, <1>types, <3>1, <3>2
    <2>3. QED
      BY <2>1, <2>2
  <1>6. \A v \in Workers : workerAt'[v] = "complete" => workerPut'[v] = Kinds
    BY <1>1, <1>types DEF ContinueWorker, ServeInv
  <1>7. QED
    BY <1>4, <1>5, <1>6 DEF ServeInv, PutVariant

(***************************************************************************)
(* An attempt that ends while it stores changes objects of an asset only   *)
(* its own worker claims, so the asset is not ready and no other worker    *)
(* counts on them.                                                         *)
(***************************************************************************)
LEMMA CleanupKeepsServe ==
  ASSUME TypeInv, ClaimInv, ServeInv, NEW w \in Workers, PutFails(w) \/ WorkerStops(w)
  PROVE  ServeInv'
  <1> DEFINE asset == workerAsset[w]
  <1>types. /\ asset \in Assets
            /\ object \in [Assets -> [Items -> Contents]]
            /\ workerAt \in [Workers -> WorkerSteps]
            /\ workerAsset \in [Workers -> Assets \cup {None}]
            /\ workerPut \in [Workers -> SUBSET Kinds]
            /\ \A v \in Workers : workerPut[v] # {} => workerAt[v] \in {"put", "complete"}
    BY DEF TypeInv, StoreTypes, WorkersOK, WorkerTypes, WorkerLocals, PutFails, WorkerStops
  <1>1. /\ UNCHANGED <<rowVars, putUrl, erasing>>
        /\ workerPut' = [workerPut EXCEPT ![w] = {}]
        /\ \A v \in Workers \ {w} : workerAt'[v] = workerAt[v] /\ workerAsset'[v] = workerAsset[v]
        /\ workerAt'[w] \in {"markFailed", "idle"}
    BY <1>types DEF PutFails, WorkerStops, ContinueWorker, ReturnRecord, ResetWorker
  <1>2. PICK erased \in SUBSET workerPut[w], stored \in MaybeStored(w) :
            /\ erased # {} => workerAt[w] = "put"
            /\ AfterAttempt(asset, erased, stored)
    BY DEF PutFails, WorkerStops
  <1>3. \A a \in Assets \ {asset}, k \in Kinds : object'[a][k] = object[a][k]
    BY <1>2, <1>types DEF AfterAttempt
  <1>4. CASE workerAt[w] # "put"
    <2>1. \A a \in Assets, k \in Kinds : object'[a][k] = object[a][k]
      BY <1>2, <1>4, <1>types, ItemKinds DEF AfterAttempt, MaybeStored
    <2>2. LeavesDerived
      BY <1>1, <2>1 DEF ServeInv, rowVars, LeavesDerived
    <2>3. LeavesPuts
      BY <1>1, <1>types DEF LeavesPuts, HoldsClaim
    <2>4. QED
      BY <2>2, <2>3, LeavingKeepsServe
  <1>5. CASE workerAt[w] = "put"
    <2>1. HoldsClaim(w, asset)
      BY <1>5 DEF HoldsClaim
    <2>2. status[asset] # "ready" /\ \A v \in Workers \ {w} : ~HoldsClaim(v, asset)
      BY <2>1, <1>types DEF ClaimInv
    <2>3. ReadyIsServable'
      BY <1>1, <1>3, <2>2 DEF rowVars, ServeInv, ReadyIsServable
    <2>4. ASSUME NEW a \in Assets, NEW v \in Workers, HoldsClaim(v, a)', a \notin erasing',
                 NEW k \in workerPut'[v]
          PROVE  object'[a][k] = "ok"
      <3>1. v # w /\ k \in workerPut[v]
        BY <1>1, <1>types, <2>4
      <3>2. HoldsClaim(v, a)
        BY <1>1, <2>4, <3>1 DEF HoldsClaim
      <3>3. a # asset
        BY <2>2, <3>1, <3>2
      <3>4. QED
        BY <1>1, <1>3, <1>types, <2>4, <3>1, <3>2, <3>3 DEF ServeInv
    <2>5. \A v \in Workers : workerAt'[v] = "complete" => workerPut'[v] = Kinds
      BY <1>1, <1>types DEF ServeInv
    <2>6. QED
      BY <1>1, <2>3, <2>4, <2>5 DEF ServeInv
  <1>6. QED
    BY <1>4, <1>5

\* A completion finds every variant stored.
LEMMA CompleteKeepsServe ==
  ASSUME TypeInv, ServeInv, NEW w \in Workers, CompleteProcessing(w)
  PROVE  ServeInv'
  <1> DEFINE asset == workerAsset[w]
  <1>types. /\ asset \in Assets
            /\ status \in [Assets -> Statuses]
            /\ variantRows \in [Assets -> SUBSET Kinds]
            /\ workerAt \in [Workers -> WorkerSteps]
            /\ workerAsset \in [Workers -> Assets \cup {None}]
            /\ workerPut \in [Workers -> SUBSET Kinds]
    BY DEF TypeInv, RowTypes, WorkersOK, WorkerTypes, WorkerLocals, CompleteProcessing
  <1>1. /\ UNCHANGED <<storeVars, erasing>>
        /\ workerPut' = [workerPut EXCEPT ![w] = {}]
        /\ \A v \in Workers \ {w} : workerAt'[v] = workerAt[v] /\ workerAsset'[v] = workerAsset[v]
        /\ workerAt'[w] \in {"announceReady", "idle"}
    <2>1. CASE status[asset] = "processing"
      BY <1>types, <2>1 DEF CompleteProcessing, ContinueWorker
    <2>2. CASE status[asset] # "processing"
      BY <1>types, <2>2 DEF CompleteProcessing, ReturnRecord, ResetWorker
    <2>3. QED
      BY <2>1, <2>2
  <1>2. workerPut[w] = Kinds /\ HoldsClaim(w, asset)
    BY DEF CompleteProcessing, ServeInv, HoldsClaim
  <1>3. ReadyIsServable'
    <2>1. ASSUME status[asset] = "processing"
          PROVE  /\ status' = [status EXCEPT ![asset] = "ready"]
                 /\ variantRows' = [variantRows EXCEPT ![asset] = Kinds]
      BY <1>2, <1>types, <2>1 DEF CompleteProcessing
    <2>2. ASSUME status[asset] # "processing"
          PROVE  UNCHANGED <<status, variantRows>>
      BY <2>2 DEF CompleteProcessing
    <2>3. asset \notin erasing => \A k \in Kinds : object[asset][k] = "ok"
      BY <1>2, <1>types DEF ServeInv
    <2>4. QED
      BY <1>1, <1>types, <2>1, <2>2, <2>3
         DEF ServeInv, ReadyIsServable, storeVars
  <1>4. LeavesPuts
    BY <1>1, <1>types DEF LeavesPuts, HoldsClaim
  <1>5. ASSUME NEW a \in Assets, NEW v \in Workers, HoldsClaim(v, a)', a \notin erasing'
        PROVE  \A k \in workerPut'[v] : object'[a][k] = "ok"
    BY <1>1, <1>4, <1>5 DEF LeavesPuts, ServeInv, storeVars
  <1>6. QED
    BY <1>1, <1>3, <1>4, <1>5 DEF ServeInv, LeavesPuts, storeVars

\* Every step keeps ready assets servable.
LEMMA ServeStep ==
  ASSUME TypeInv, ClaimInv, ServeInv, [Next]_vars
  PROVE  ServeInv'
  <1>1. CASE Surroundings
    <2>1. LeavesDerived
      BY <1>1, SurroundingsLeaveDerived
    <2>2. LeavesPuts
      BY <1>1, SurroundingsLeaveWorkers DEF workerVars, LeavesPuts, HoldsClaim
    <2>3. QED
      BY <2>1, <2>2, LeavingKeepsServe
  <1>2. CASE Consumers
    BY <1>2, PlainWorkerStepsLeave, LeavingKeepsServe, PutVariantKeepsServe, CleanupKeepsServe,
       CompleteKeepsServe DEF Consumers, WorkerStep
  <1>3. CASE UNCHANGED vars
    BY <1>3 DEF vars, rowVars, storeVars, workerVars, historyVars, ServeInv, ReadyIsServable,
                HoldsClaim
  <1>4. QED
    BY <1>1, <1>2, <1>3 DEF Next, Surroundings

\* Whatever faults occur, a ready asset has every variant row and every stored
\* variant until a deletion removes them, provided that handlers end before
\* their claim is five minutes old.
THEOREM ReadyAssetsAreServable == TimelyWorkers /\ Spec => []ReadyIsServable
  <1>1. Init => ServeInv
    BY ItemKinds DEF Init, ServeInv, ReadyIsServable, HoldsClaim
  <1>2. Init => ClaimInv
    BY DEF Init, ClaimInv, HoldsClaim
  <1>3. ServeInv => ReadyIsServable
    BY DEF ServeInv
  <1>4. CASE TimelyWorkers
    <2>1. TypeInv /\ ClaimInv /\ ServeInv /\ [Next]_vars => ClaimInv' /\ ServeInv'
      BY <1>4, ClaimStep, ServeStep
    <2>2. QED
      BY <1>1, <1>2, <1>3, <2>1, TypeInit, TypeStep, PTL DEF Spec
  <1>5. QED
    BY <1>4

-----------------------------------------------------------------------------
(* What a failed attempt leaves behind *)

(***************************************************************************)
(* Every derived object belongs to an asset that is ready or deleted, to   *)
(* the worker that stored it and still holds the claim, or to an asset     *)
(* that an attempt left objects behind for.                                *)
(***************************************************************************)
StrayInv ==
    \A a \in Assets, k \in Kinds : object[a][k] # "none" =>
        \/ status[a] \in {"ready", "deleted"}
        \/ a \in uncleaned
        \/ \E w \in Workers : HoldsClaim(w, a) /\ k \in workerPut[w]

\* No derived object appears, and a worker that has stored some keeps its claim
\* and its variants, or its asset is ready, deleted or noted as left behind.
KeepsTrack ==
    /\ \A a \in Assets, k \in Kinds : object'[a][k] # "none" => object[a][k] # "none"
    /\ \A a \in uncleaned : a \in uncleaned' \/ status'[a] = "ready"
    /\ \A w \in Workers, a \in Assets :
          HoldsClaim(w, a) /\ workerPut[w] # {}
              => \/ status'[a] \in {"ready", "deleted"} \/ a \in uncleaned'
                 \/ HoldsClaim(w, a)' /\ workerPut'[w] = workerPut[w]

\* Steps that keep track of derived objects keep the invariant.
LEMMA TrackedStaysTracked ==
  ASSUME StrayInv, KeepsTrack, OutcomesStay
  PROVE  StrayInv'
  BY DEF StrayInv, KeepsTrack, OutcomesStay

\* Nobody but workers notes what an attempt leaves behind.
LEMMA SurroundingsLeaveNotes == Surroundings => uncleaned' = uncleaned
  BY DEF Surroundings, Client, Handlers, UploadApiStep, ReleaseApiStep, CreateUpload, ClientPut,
         UrlExpires, CreateRelease, ReleaseExpires, BeginComplete, BeginRetry, BeginDelete,
         BeginCompleteRelease, HeadOriginal, MarkUploaded, RequeueFailed, MarkStatusUploaded,
         PublishUploaded, PublishUploadedFails, ListTargets, EraseObject, FinishDelete,
         HeadRelease, MarkRelease, RequestAborts, ClaimAges, historyVars

\* The contributor's uploads and the handlers of the API store no derivative.
LEMMA SurroundingsStoreNone ==
  ASSUME TypeInv, ServeInv, Surroundings, NEW a \in Assets, NEW k \in Kinds,
         object'[a][k] # "none"
  PROVE  object[a][k] # "none"
  <1>types. /\ object \in [Assets -> [Items -> Contents]]
            /\ \A b \in Assets : putUrl[b] \cap Kinds = {}
            /\ k \in Items
    BY ItemKinds DEF TypeInv, StoreTypes, ServeInv
  <1>1. ASSUME NEW b \in Assets, NEW i \in Items, ClientPut(b, i) PROVE object'[a][k] = object[a][k]
    <2>1. i # k
      BY <1>1, <1>types DEF ClientPut
    <2>2. QED
      BY <1>1, <2>1, <1>types DEF ClientPut
  <1>2. ASSUME NEW h \in Requests, EraseObject(h) PROVE object[a][k] # "none"
    BY <1>2, <1>types DEF EraseObject
  <1>3. CASE object' = object
    BY <1>3
  <1>4. QED
    BY <1>1, <1>2, <1>3
       DEF Surroundings, Client, Handlers, UploadApiStep, ReleaseApiStep, CreateUpload,
           UrlExpires, CreateRelease, ReleaseExpires, BeginComplete, BeginRetry, BeginDelete,
           BeginCompleteRelease, HeadOriginal, MarkUploaded, RequeueFailed, MarkStatusUploaded,
           PublishUploaded, PublishUploadedFails, ListTargets, FinishDelete, HeadRelease,
           MarkRelease, RequestAborts, ClaimAges, storeVars

\* Most steps of a worker touch no derived object and no list of them.
LEMMA PlainWorkerStepsKeepTrack ==
  ASSUME TypeInv, NEW w \in Workers,
         \/ \E a \in Assets : Poll(w, a)
         \/ Claim(w) \/ ProcessOriginal(w) \/ MarkFailed(w) \/ Announce(w)
         \/ CommitRecord(w) \/ Rebalance(w)
  PROVE  KeepsTrack
  <1>types. /\ workerAt \in [Workers -> WorkerSteps]
            /\ workerAsset \in [Workers -> Assets \cup {None}]
            /\ workerPut \in [Workers -> SUBSET Kinds]
            /\ \A v \in Workers : workerPut[v] # {} => workerAt[v] \in {"put", "complete"}
    BY DEF TypeInv, WorkersOK, WorkerTypes, WorkerLocals
  <1>1. object' = object /\ uncleaned' = uncleaned
    BY DEF Poll, Claim, ProcessOriginal, MarkFailed, Announce, CommitRecord, Rebalance, storeVars,
           historyVars
  <1>2. \A v \in Workers : workerPut[v] # {} =>
            workerAt'[v] = workerAt[v] /\ workerAsset'[v] = workerAsset[v]
                                       /\ workerPut'[v] = workerPut[v]
    BY <1>types DEF Poll, Claim, ProcessOriginal, MarkFailed, Announce, CommitRecord, Rebalance,
                    ContinueWorker, ResetWorker
  <1>3. QED
    BY <1>1, <1>2 DEF KeepsTrack, HoldsClaim

\* A completion makes the asset ready; one that is refused is noted.
LEMMA CompleteKeepsTrack ==
  ASSUME TypeInv, NEW w \in Workers, CompleteProcessing(w)
  PROVE  KeepsTrack
  <1> DEFINE asset == workerAsset[w]
  <1>types. /\ asset \in Assets
            /\ status \in [Assets -> Statuses]
            /\ workerAt \in [Workers -> WorkerSteps]
            /\ workerAsset \in [Workers -> Assets \cup {None}]
            /\ workerPut \in [Workers -> SUBSET Kinds]
            /\ uncleaned \subseteq Assets
    BY DEF TypeInv, RowTypes, WorkersOK, WorkerTypes, WorkerLocals, HistoryTypes, CompleteProcessing
  <1>1. object' = object
    BY DEF CompleteProcessing, storeVars
  <1>2. \A v \in Workers \ {w} : workerAt'[v] = workerAt[v] /\ workerAsset'[v] = workerAsset[v]
                                   /\ workerPut'[v] = workerPut[v]
    BY <1>types DEF CompleteProcessing, ContinueWorker, ReturnRecord, ResetWorker
  <1>3. status'[asset] = "ready" \/ (workerPut[w] # {} => asset \in uncleaned')
    BY <1>types DEF CompleteProcessing, Leaves
  <1>4. \A a \in uncleaned : a \in uncleaned' \/ status'[a] = "ready"
    BY <1>types DEF CompleteProcessing, Leaves
  <1>5. QED
    BY <1>1, <1>2, <1>3, <1>4 DEF KeepsTrack, HoldsClaim

\* A variant that is stored is noted by the worker that stores it.
LEMMA PutVariantIsNoted ==
  ASSUME TypeInv, StrayInv, NEW w \in Workers, PutVariant(w)
  PROVE  StrayInv'
  <1> DEFINE asset == workerAsset[w]
  <1>types. /\ asset \in Assets
            /\ object \in [Assets -> [Items -> Contents]]
            /\ workerAt \in [Workers -> WorkerSteps]
            /\ workerPut \in [Workers -> SUBSET Kinds]
            /\ Kinds \subseteq Items
    BY ItemKinds DEF TypeInv, StoreTypes, WorkersOK, WorkerTypes, WorkerLocals, PutVariant
  <1>1. PICK k \in Kinds :
            /\ object' = [object EXCEPT ![asset][k] = "ok"]
            /\ workerPut' = [workerPut EXCEPT ![w] = @ \cup {k}]
            /\ ContinueWorker(w, IF workerPut[w] \cup {k} = Kinds THEN "complete" ELSE "put")
    BY DEF PutVariant
  <1>2. /\ status' = status /\ uncleaned' = uncleaned
        /\ workerAsset'[w] = asset /\ workerAt'[w] \in {"put", "complete"}
        /\ \A v \in Workers, a \in Assets : HoldsClaim(v, a) => HoldsClaim(v, a)'
        /\ \A v \in Workers : workerPut[v] \subseteq workerPut'[v]
        /\ k \in workerPut'[w]
    BY <1>1, <1>types DEF PutVariant, ContinueWorker, HoldsClaim, rowVars, historyVars
  <1>3. ASSUME NEW a \in Assets, NEW j \in Kinds, object'[a][j] # "none",
               status'[a] \notin {"ready", "deleted"}, a \notin uncleaned'
        PROVE  \E v \in Workers : HoldsClaim(v, a)' /\ j \in workerPut'[v]
    <2>1. CASE a = asset /\ j = k
      BY <1>2, <2>1 DEF HoldsClaim
    <2>2. CASE ~(a = asset /\ j = k)
      <3>1. object[a][j] # "none"
        BY <1>1, <1>3, <1>types, <2>2
      <3>2. PICK v \in Workers : HoldsClaim(v, a) /\ j \in workerPut[v]
        BY <1>2, <1>3, <3>1 DEF StrayInv
      <3>3. QED
        BY <1>2, <3>2
    <2>3. QED
      BY <2>1, <2>2
  <1>4. QED
    BY <1>3 DEF StrayInv

\* What an attempt that ends has stored is removed, or the asset is noted: also
\* when its last put stored the object and answered with an error.
LEMMA AttemptEnds ==
  ASSUME TypeInv, StrayInv, NEW w \in Workers, PutFails(w) \/ WorkerStops(w)
  PROVE  StrayInv'
  <1> DEFINE asset == workerAsset[w]
  <1>types. /\ asset \in Assets
            /\ object \in [Assets -> [Items -> Contents]]
            /\ workerAt \in [Workers -> WorkerSteps]
            /\ workerAsset \in [Workers -> Assets \cup {None}]
            /\ workerPut \in [Workers -> SUBSET Kinds]
            /\ Kinds \subseteq Items
    BY ItemKinds DEF TypeInv, StoreTypes, WorkersOK, WorkerTypes, WorkerLocals, PutFails, WorkerStops
  <1>1. PICK erased \in SUBSET workerPut[w], stored \in MaybeStored(w) :
            /\ AfterAttempt(asset, erased, stored)
            /\ Leaves(asset, (workerPut[w] \ erased) \cup stored)
    <2>1. CASE PutFails(w)
      <3>1. PICK kept \in SUBSET workerPut[w], stored \in MaybeStored(w) :
                /\ AfterAttempt(asset, workerPut[w] \ kept, stored)
                /\ Leaves(asset, kept \cup stored)
        BY <2>1 DEF PutFails
      <3>2. workerPut[w] \ (workerPut[w] \ kept) = kept
        OBVIOUS
      <3>3. QED
        BY <3>1, <3>2
    <2>2. CASE WorkerStops(w)
      BY <2>2 DEF WorkerStops
    <2>3. QED
      BY <2>1, <2>2
  <1>2. /\ status' = status
        /\ \A a \in uncleaned : a \in uncleaned'
        /\ \A v \in Workers \ {w} : workerAt'[v] = workerAt[v] /\ workerAsset'[v] = workerAsset[v]
                                      /\ workerPut'[v] = workerPut[v]
    BY <1>1, <1>types DEF PutFails, WorkerStops, ContinueWorker, ReturnRecord, ResetWorker, Leaves,
                          rowVars
  <1>3. ASSUME asset \notin uncleaned'
        PROVE  erased = workerPut[w] /\ stored = {}
    BY <1>1, <1>3 DEF Leaves
  <1>4. ASSUME NEW a \in Assets, NEW k \in Kinds, object'[a][k] # "none",
               status'[a] \notin {"ready", "deleted"}, a \notin uncleaned'
        PROVE  \E v \in Workers : HoldsClaim(v, a)' /\ k \in workerPut'[v]
    <2>1. object[a][k] # "none" /\ ~(a = asset /\ k \in workerPut[w])
      BY <1>1, <1>3, <1>4, <1>types DEF AfterAttempt
    <2>2. PICK v \in Workers : HoldsClaim(v, a) /\ k \in workerPut[v]
      BY <1>2, <1>4, <2>1 DEF StrayInv
    <2>3. v # w
      BY <2>1, <2>2 DEF HoldsClaim
    <2>4. QED
      BY <1>2, <2>2, <2>3 DEF HoldsClaim
  <1>5. QED
    BY <1>4 DEF StrayInv

\* Every step keeps track of the derived objects.
LEMMA StrayStep ==
  ASSUME TypeInv, ServeInv, StrayInv, [Next]_vars
  PROVE  StrayInv'
  <1>1. OutcomesStay
    BY OutcomeStep
  <1>2. CASE Surroundings
    <2>1. UNCHANGED <<workerVars, uncleaned>>
      BY <1>2, SurroundingsLeaveWorkers, SurroundingsLeaveNotes
    <2>2. KeepsTrack
      BY <1>2, <2>1, SurroundingsStoreNone DEF KeepsTrack, HoldsClaim, workerVars
    <2>3. QED
      BY <1>1, <2>2, TrackedStaysTracked
  <1>3. ASSUME NEW w \in Workers, PutFails(w) \/ WorkerStops(w) PROVE StrayInv'
    BY <1>3, AttemptEnds
  <1>4. ASSUME NEW w \in Workers, PutVariant(w) PROVE StrayInv'
    BY <1>4, PutVariantIsNoted
  <1>5. ASSUME NEW w \in Workers, CompleteProcessing(w) PROVE StrayInv'
    BY <1>1, <1>5, CompleteKeepsTrack, TrackedStaysTracked
  <1>6. ASSUME NEW w \in Workers,
               \/ \E a \in Assets : Poll(w, a)
               \/ Claim(w) \/ ProcessOriginal(w) \/ MarkFailed(w) \/ Announce(w)
               \/ CommitRecord(w) \/ Rebalance(w)
        PROVE  StrayInv'
    BY <1>1, <1>6, PlainWorkerStepsKeepTrack, TrackedStaysTracked
  <1>7. CASE UNCHANGED vars
    BY <1>7 DEF vars, rowVars, storeVars, workerVars, historyVars, StrayInv, HoldsClaim
  <1>8. QED
    BY <1>2, <1>3, <1>4, <1>5, <1>6, <1>7 DEF Next, Surroundings, Consumers, WorkerStep

\* However the consumers of a process stop each other, an asset recorded as
\* failed keeps no stored derivative of an attempt whose puts told the truth
\* and whose cleanup ran: if no handler outlives its five-minute claim.
THEOREM FailedAttemptsAreCleaned == TimelyWorkers /\ Spec => []FailedKeepsNoDerivatives
  <1>1. Init => ClaimInv /\ ServeInv /\ StrayInv
    BY ItemKinds DEF Init, ClaimInv, ServeInv, StrayInv, ReadyIsServable, HoldsClaim
  <1>2. ClaimInv /\ StrayInv => FailedKeepsNoDerivatives
    BY DEF ClaimInv, StrayInv, FailedKeepsNoDerivatives
  <1>3. CASE TimelyWorkers
    <2>1. TypeInv /\ ClaimInv /\ ServeInv /\ StrayInv /\ [Next]_vars
            => ClaimInv' /\ ServeInv' /\ StrayInv'
      BY <1>3, ClaimStep, ServeStep, StrayStep
    <2>2. QED
      BY <1>1, <1>2, <2>1, TypeInit, TypeStep, PTL DEF Spec
  <1>4. QED
    BY <1>3

=============================================================================
