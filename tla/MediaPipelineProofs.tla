------------------------ MODULE MediaPipelineProofs --------------------------
(***************************************************************************)
(* Proofs about MediaPipeline for every set of assets, workers, requests,  *)
(* variant kinds and releases and every bound.                             *)
(***************************************************************************)
EXTENDS MediaPipeline, FiniteSetTheorems, TLAPS

USE ItemsAreDistinct, NoneIsNoAsset, BoundsAreNatural, SwitchesAreBoolean

(***************************************************************************)
(* What the locals of a handler hold at each of its steps: TypeOK alone is *)
(* not inductive, because a step uses the asset its first step recorded.   *)
(***************************************************************************)
WorkerLocals ==
    \A w \in Workers :
        /\ workerAt[w] # "idle" => workerAsset[w] \in Assets
        /\ workerOwns[w] => workerAt[w] # "idle"
        /\ workerPut[w] # {} => workerAt[w] \in {"put", "complete"}

RequestLocals ==
    \A h \in Requests :
        /\ requestAt[h] # "idle" => requestAsset[h] \in Assets
        /\ requestAt[h] \in {"headRelease", "markRelease"} => requestItem[h] \in Releases

WorkersOK == WorkerTypes /\ WorkerLocals
RequestsOK == RequestTypes /\ RequestLocals

TypeInv == RowTypes /\ StoreTypes /\ TopicTypes /\ WorkersOK /\ RequestsOK /\ HistoryTypes

\* The initial state has its types.
LEMMA TypeInit == Init => TypeInv
  BY DEF Init, TypeInv, RowTypes, StoreTypes, TopicTypes, WorkersOK, WorkerTypes,
         WorkerLocals, RequestsOK, RequestTypes, RequestLocals, HistoryTypes, Items,
         Statuses, ReleaseStates, Contents, WorkerSteps, RequestSteps

(***************************************************************************)
(* A part of the state that an action leaves alone keeps its type.         *)
(***************************************************************************)
LEMMA Frame ==
  ASSUME TypeInv
  PROVE  /\ UNCHANGED rowVars => RowTypes'
         /\ UNCHANGED storeVars => StoreTypes'
         /\ UNCHANGED topicVars => TopicTypes'
         /\ UNCHANGED workerVars => WorkersOK'
         /\ UNCHANGED requestVars => RequestsOK'
         /\ UNCHANGED <<faults, historyVars>> => HistoryTypes'
  <1>1. UNCHANGED rowVars => RowTypes'
    BY DEF TypeInv, rowVars, RowTypes
  <1>2. UNCHANGED storeVars => StoreTypes'
    BY DEF TypeInv, storeVars, StoreTypes
  <1>3. UNCHANGED topicVars => TopicTypes'
    BY DEF TypeInv, topicVars, TopicTypes
  <1>4. UNCHANGED workerVars => WorkersOK'
    BY DEF TypeInv, workerVars, WorkersOK, WorkerTypes, WorkerLocals
  <1>5. UNCHANGED requestVars => RequestsOK'
    BY DEF TypeInv, requestVars, RequestsOK, RequestTypes, RequestLocals
  <1>6. UNCHANGED <<faults, historyVars>> => HistoryTypes'
    BY DEF TypeInv, historyVars, HistoryTypes
  <1>7. QED
    BY <1>1, <1>2, <1>3, <1>4, <1>5, <1>6

(***************************************************************************)
(* Writing one object, signing one URL, and dropping rows.                 *)
(***************************************************************************)
LEMMA ItemKinds == Original \in Items /\ Kinds \subseteq Items /\ Releases \subseteq Items
  BY DEF Items

\* Writing one item of one asset keeps the store a store.
LEMMA ObjectWritten ==
  ASSUME StoreTypes, NEW a \in Assets, NEW i \in Items, NEW c \in Contents
  PROVE  [object EXCEPT ![a][i] = c] \in [Assets -> [Items -> Contents]]
  <1>1. [object[a] EXCEPT ![i] = c] \in [Items -> Contents]
    BY DEF StoreTypes
  <1>2. QED
    BY <1>1 DEF StoreTypes

\* So does signing the URL of one item.
LEMMA UrlSigned ==
  ASSUME StoreTypes, NEW a \in Assets, NEW i \in Items
  PROVE  [putUrl EXCEPT ![a] = @ \cup {i}] \in [Assets -> SUBSET Items]
  BY DEF StoreTypes

(***************************************************************************)
(* The ways a handler of the API starts, goes on and ends.                 *)
(***************************************************************************)
LEMMA StartRequestOK ==
  ASSUME RequestsOK, NEW h \in Requests, NEW a \in Assets, NEW i \in Items,
         NEW step \in RequestSteps,
         step \in {"headRelease", "markRelease"} => i \in Releases,
         StartRequest(h, step, a, i)
  PROVE  RequestsOK'
  BY DEF StartRequest, RequestsOK, RequestTypes, RequestLocals

\* A handler that goes on keeps its asset.
LEMMA ContinueRequestOK ==
  ASSUME RequestsOK, NEW h \in Requests, NEW step \in RequestSteps,
         requestAt[h] # "idle",
         step \in {"headRelease", "markRelease"} => requestItem[h] \in Releases,
         ContinueRequest(h, step)
  PROVE  RequestsOK'
  BY DEF ContinueRequest, RequestsOK, RequestTypes, RequestLocals

\* A handler that ends is idle again.
LEMMA EndRequestOK ==
  ASSUME RequestsOK, NEW h \in Requests, EndRequest(h)
  PROVE  RequestsOK'
  BY DEF EndRequest, RequestsOK, RequestTypes, RequestLocals, RequestSteps, Items

(***************************************************************************)
(* The ways a worker goes on and ends.                                     *)
(***************************************************************************)
LEMMA ContinueWorkerOK ==
  ASSUME WorkersOK, NEW w \in Workers, NEW step \in WorkerSteps \ {"idle"},
         workerAt[w] # "idle", ContinueWorker(w, step),
         workerPut' \in [Workers -> SUBSET Kinds],
         \A v \in Workers \ {w} : workerPut'[v] = workerPut[v],
         workerPut'[w] # {} => step \in {"put", "complete"}
  PROVE  WorkersOK'
  BY DEF ContinueWorker, WorkersOK, WorkerTypes, WorkerLocals

\* A worker that is reset holds no record.
LEMMA ResetWorkerOK ==
  ASSUME WorkersOK, NEW w \in Workers, ResetWorker(w), cancelled' \subseteq Workers
  PROVE  WorkersOK'
  BY DEF ResetWorker, WorkersOK, WorkerTypes, WorkerLocals, WorkerSteps

\* So does one that returns its record.
LEMMA ReturnRecordOK ==
  ASSUME WorkersOK, TopicTypes, NEW w \in Workers, workerAt[w] # "idle", ReturnRecord(w)
  PROVE  WorkersOK' /\ TopicTypes'
  <1>1. WorkersOK'
    BY ResetWorkerOK DEF ReturnRecord, LeaveProcess, Process, WorkersOK, WorkerTypes
  <1>2. TopicTypes'
    BY DEF ReturnRecord, TopicTypes, WorkersOK, WorkerLocals
  <1>3. QED
    BY <1>1, <1>2

\* A failing put stores at most the kind it was about to put.
LEMMA MaybeStoredKinds ==
  ASSUME NEW w \in Workers
  PROVE  MaybeStored(w) \subseteq SUBSET Kinds
  BY DEF MaybeStored

(***************************************************************************)
(* Every action keeps the types. The parts it changes are proved one by    *)
(* one; Frame gives the others.                                            *)
(***************************************************************************)
LEMMA TypeStep == TypeInv /\ [Next]_vars => TypeInv'
  <1> SUFFICES ASSUME TypeInv, [Next]_vars PROVE TypeInv'
    OBVIOUS
  <1>parts. RowTypes /\ StoreTypes /\ TopicTypes /\ WorkersOK /\ RequestsOK /\ HistoryTypes
    BY DEF TypeInv
  <1> USE <1>parts
  <1>1. ASSUME NEW a \in Assets, CreateUpload(a) PROVE TypeInv'
    <2>1. RowTypes'
      BY <1>1 DEF CreateUpload, RowTypes, Statuses, ReleaseStates, rowVars
    <2>2. StoreTypes'
      BY <1>1, UrlSigned, ItemKinds DEF CreateUpload, StoreTypes
    <2>3. QED
      BY <1>1, <2>1, <2>2, Frame DEF CreateUpload, TypeInv
  <1>2. ASSUME NEW a \in Assets, NEW i \in Items, ClientPut(a, i) PROVE TypeInv'
    <2>1. StoreTypes'
      BY <1>2, ObjectWritten DEF ClientPut, StoreTypes, Contents
    <2>2. QED
      BY <1>2, <2>1, Frame DEF ClientPut, TypeInv
  <1>3. ASSUME NEW a \in Assets, NEW i \in Items, UrlExpires(a, i) PROVE TypeInv'
    <2>1. StoreTypes'
      BY <1>3 DEF UrlExpires, StoreTypes, Contents, Items, storeVars
    <2>2. QED
      BY <1>3, <2>1, Frame DEF UrlExpires, TypeInv
  <1>4. ASSUME NEW a \in Assets, NEW r \in Releases, CreateRelease(a, r) PROVE TypeInv'
    <2>1. RowTypes'
      BY <1>4 DEF CreateRelease, RowTypes, Statuses, ReleaseStates, rowVars
    <2>2. StoreTypes'
      BY <1>4, UrlSigned, ItemKinds DEF CreateRelease, StoreTypes
    <2>3. QED
      BY <1>4, <2>1, <2>2, Frame DEF CreateRelease, TypeInv
  <1>5. ASSUME NEW a \in Assets, NEW r \in Releases, ReleaseExpires(a, r) PROVE TypeInv'
    <2>1. RowTypes'
      BY <1>5 DEF ReleaseExpires, RowTypes, Statuses, ReleaseStates, rowVars
    <2>2. QED
      BY <1>5, <2>1, Frame DEF ReleaseExpires, TypeInv
  <1>6. ASSUME NEW h \in Requests, NEW a \in Assets, BeginComplete(h, a) PROVE TypeInv'
    <2>1. RequestsOK'
      BY <1>6, StartRequestOK DEF BeginComplete, RequestSteps, Items
    <2>2. QED
      BY <1>6, <2>1, Frame DEF BeginComplete, TypeInv
  <1>7. ASSUME NEW h \in Requests, NEW a \in Assets, BeginRetry(h, a) PROVE TypeInv'
    <2>1. RequestsOK'
      BY <1>7, StartRequestOK DEF BeginRetry, RequestSteps, Items
    <2>2. QED
      BY <1>7, <2>1, Frame DEF BeginRetry, TypeInv
  <1>8. ASSUME NEW h \in Requests, NEW a \in Assets, BeginDelete(h, a) PROVE TypeInv'
    <2>1. RequestsOK'
      BY <1>8
         DEF BeginDelete, RequestsOK, RequestTypes, RequestLocals, RequestSteps, Items
    <2>2. QED
      BY <1>8, <2>1, Frame DEF BeginDelete, TypeInv
  <1>9. ASSUME NEW h \in Requests, NEW a \in Assets, NEW r \in Releases,
               BeginCompleteRelease(h, a, r)
        PROVE TypeInv'
    <2>1. RequestsOK'
      BY <1>9, StartRequestOK DEF BeginCompleteRelease, RequestSteps, Items
    <2>2. QED
      BY <1>9, <2>1, Frame DEF BeginCompleteRelease, TypeInv
  <1>10. ASSUME NEW h \in Requests, HeadOriginal(h) PROVE TypeInv'
    <2>1. RequestsOK'
      BY <1>10, ContinueRequestOK, EndRequestOK DEF HeadOriginal, RequestSteps
    <2>2. QED
      BY <1>10, <2>1, Frame DEF HeadOriginal, TypeInv
  <1>11. ASSUME NEW h \in Requests, MarkUploaded(h) PROVE TypeInv'
    <2>1. RowTypes'
      BY <1>11
         DEF MarkUploaded, MarkStatusUploaded, RequestsOK, RequestLocals, RowTypes,
             Statuses, ReleaseStates, rowVars
    <2>2. RequestsOK'
      BY <1>11, ContinueRequestOK, EndRequestOK
         DEF MarkUploaded, MarkStatusUploaded, RequestSteps
    <2>3. QED
      BY <1>11, <2>1, <2>2, Frame DEF MarkUploaded, MarkStatusUploaded, TypeInv
  <1>12. ASSUME NEW h \in Requests, RequeueFailed(h) PROVE TypeInv'
    <2>1. RowTypes'
      BY <1>12
         DEF RequeueFailed, MarkStatusUploaded, RequestsOK, RequestLocals, RowTypes,
             Statuses, ReleaseStates, rowVars
    <2>2. RequestsOK'
      BY <1>12, ContinueRequestOK, EndRequestOK
         DEF RequeueFailed, MarkStatusUploaded, RequestSteps
    <2>3. QED
      BY <1>12, <2>1, <2>2, Frame DEF RequeueFailed, MarkStatusUploaded, TypeInv
  <1>13. ASSUME NEW h \in Requests, PublishUploaded(h) PROVE TypeInv'
    <2>1. TopicTypes'
      BY <1>13 DEF PublishUploaded, RequestsOK, RequestLocals, TopicTypes, topicVars
    <2>2. RequestsOK'
      BY <1>13, EndRequestOK DEF PublishUploaded
    <2>3. HistoryTypes'
      BY <1>13
         DEF PublishUploaded, RequestsOK, RequestLocals, HistoryTypes, historyVars,
             Fault
    <2>4. QED
      BY <1>13, <2>1, <2>2, <2>3, Frame DEF PublishUploaded, TypeInv
  <1>14. ASSUME NEW h \in Requests, ListTargets(h) PROVE TypeInv'
    <2>1. RequestsOK'
      BY <1>14
         DEF ListTargets, ReleaseRows, RowTypes, RequestsOK, RequestTypes,
             RequestLocals, RequestSteps, Items
    <2>2. QED
      BY <1>14, <2>1, Frame DEF ListTargets, TypeInv
  <1>15. ASSUME NEW h \in Requests, EraseObject(h) PROVE TypeInv'
    <2>1. StoreTypes'
      <3> DEFINE a == requestAsset[h]
      <3>1. a \in Assets /\ requestTargets[h] \subseteq Items
        BY <1>15 DEF EraseObject, RequestsOK, RequestTypes, RequestLocals
      <3>2. PICK i \in Items : object' = [object EXCEPT ![a][i] = "none"]
        BY <1>15, <3>1 DEF EraseObject
      <3>3. object' \in [Assets -> [Items -> Contents]]
        BY <3>1, <3>2, ObjectWritten DEF Contents
      <3>4. QED
        BY <1>15, <3>3 DEF EraseObject, StoreTypes
    <2>2. RequestsOK'
      BY <1>15 DEF EraseObject, RequestsOK, RequestTypes, RequestLocals, RequestSteps
    <2>3. HistoryTypes'
      BY <1>15
         DEF EraseObject, RequestsOK, RequestLocals, HistoryTypes, historyVars, Fault
    <2>4. QED
      BY <1>15, <2>1, <2>2, <2>3, Frame DEF EraseObject, TypeInv
  <1>16. ASSUME NEW h \in Requests, FinishDelete(h) PROVE TypeInv'
    <2>1. RowTypes'
      <3> DEFINE a == requestAsset[h]
                 left == [r \in Releases |->
                            IF r \in ReleaseRows(a) THEN "removed" ELSE releaseRow[a][r]]
      <3>1. a \in Assets
        BY <1>16 DEF FinishDelete, RequestsOK, RequestLocals
      <3>2. left \in [Releases -> ReleaseStates]
        BY <3>1 DEF RowTypes, ReleaseStates
      <3>3. CASE Live(a) /\ MultiStatementExec
        <4>1. releaseRow' = [releaseRow EXCEPT ![a] = left]
          BY <1>16, <3>1, <3>3 DEF FinishDelete, RowTypes
        <4>2. releaseRow' \in [Assets -> [Releases -> ReleaseStates]]
          BY <3>2, <4>1 DEF RowTypes
        <4>3. QED
          BY <1>16, <3>1, <3>3, <4>2 DEF FinishDelete, RowTypes, Statuses
      <3>4. CASE ~(Live(a) /\ MultiStatementExec)
        BY <1>16, <3>4, Frame DEF FinishDelete, rowVars
      <3>5. QED
        BY <3>3, <3>4
    <2>2. RequestsOK'
      BY <1>16, EndRequestOK DEF FinishDelete
    <2>3. QED
      BY <1>16, <2>1, <2>2, Frame DEF FinishDelete, TypeInv
  <1>17. ASSUME NEW h \in Requests, HeadRelease(h) PROVE TypeInv'
    <2>1. RequestsOK'
      BY <1>17, ContinueRequestOK, EndRequestOK
         DEF HeadRelease, RequestSteps, RequestsOK, RequestLocals
    <2>2. QED
      BY <1>17, <2>1, Frame DEF HeadRelease, TypeInv
  <1>18. ASSUME NEW h \in Requests, MarkRelease(h) PROVE TypeInv'
    <2>1. RowTypes'
      BY <1>18
         DEF MarkRelease, RequestsOK, RequestLocals, RowTypes, Statuses, ReleaseStates,
             rowVars
    <2>2. RequestsOK'
      BY <1>18, EndRequestOK DEF MarkRelease
    <2>3. QED
      BY <1>18, <2>1, <2>2, Frame DEF MarkRelease, TypeInv
  <1>19. ASSUME NEW h \in Requests, PublishUploadedFails(h) PROVE TypeInv'
    <2>1. TopicTypes'
      BY <1>19
         DEF PublishUploadedFails, RequestsOK, RequestLocals, TopicTypes, topicVars
    <2>2. RequestsOK'
      BY <1>19, EndRequestOK DEF PublishUploadedFails
    <2>3. HistoryTypes'
      BY <1>19
         DEF PublishUploadedFails, RequestsOK, RequestLocals, HistoryTypes,
             historyVars, Fault
    <2>4. QED
      BY <1>19, <2>1, <2>2, <2>3, Frame DEF PublishUploadedFails, TypeInv
  <1>20. ASSUME NEW h \in Requests, RequestAborts(h) PROVE TypeInv'
    <2>1. RequestsOK'
      BY <1>20, EndRequestOK DEF RequestAborts
    <2>2. HistoryTypes'
      BY <1>20
         DEF RequestAborts, RequestsOK, RequestLocals, HistoryTypes, historyVars, Fault
    <2>3. QED
      BY <1>20, <2>1, <2>2, Frame DEF RequestAborts, TypeInv
  <1>21. ASSUME NEW w \in Workers, NEW a \in Assets, Poll(w, a) PROVE TypeInv'
    <2>1. TopicTypes'
      BY <1>21 DEF Poll, TopicTypes, topicVars
    <2>2. WorkersOK'
      BY <1>21 DEF Poll, WorkersOK, WorkerTypes, WorkerLocals, WorkerSteps
    <2>3. QED
      BY <1>21, <2>1, <2>2, Frame DEF Poll, TypeInv
  <1>22. ASSUME NEW w \in Workers, Claim(w) PROVE TypeInv'
    <2>1. RowTypes'
      BY <1>22
         DEF Claim, WorkersOK, WorkerLocals, RowTypes, Statuses, ReleaseStates, rowVars
    <2>2. WorkersOK'
      BY <1>22, ContinueWorkerOK
         DEF Claim, WorkersOK, WorkerTypes, WorkerLocals, WorkerSteps
    <2>3. QED
      BY <1>22, <2>1, <2>2, Frame DEF Claim, TypeInv
  <1>23. ASSUME NEW w \in Workers, ProcessOriginal(w) PROVE TypeInv'
    <2>1. WorkersOK'
      BY <1>23, ContinueWorkerOK
         DEF ProcessOriginal, WorkersOK, WorkerTypes, WorkerLocals, WorkerSteps
    <2>2. QED
      BY <1>23, <2>1, Frame DEF ProcessOriginal, TypeInv
  <1>24. ASSUME NEW w \in Workers, PutVariant(w) PROVE TypeInv'
    <2>1. StoreTypes'
      <3> DEFINE a == workerAsset[w]
      <3>1. a \in Assets
        BY <1>24 DEF PutVariant, WorkersOK, WorkerLocals
      <3>2. PICK k \in Kinds : object' = [object EXCEPT ![a][k] = "ok"]
        BY <1>24 DEF PutVariant
      <3>3. object' \in [Assets -> [Items -> Contents]]
        BY <3>1, <3>2, ObjectWritten, ItemKinds DEF Contents
      <3>4. QED
        BY <1>24, <3>3 DEF PutVariant, StoreTypes
    <2>2. WorkersOK'
      BY <1>24, ContinueWorkerOK DEF PutVariant, WorkersOK, WorkerTypes, WorkerSteps
    <2>3. QED
      BY <1>24, <2>1, <2>2, Frame DEF PutVariant, TypeInv
  <1>25. ASSUME NEW w \in Workers, PutFails(w) PROVE TypeInv'
    <2>1. StoreTypes'
      BY <1>25, MaybeStoredKinds
         DEF PutFails, AfterAttempt, WorkersOK, WorkerTypes, WorkerLocals, StoreTypes,
             Contents, Items
    <2>2. WorkersOK'
      BY <1>25, ContinueWorkerOK DEF PutFails, WorkersOK, WorkerTypes, WorkerSteps
    <2>3. HistoryTypes'
      BY <1>25 DEF PutFails, Leaves, HistoryTypes, Fault, WorkersOK, WorkerLocals
    <2>4. QED
      BY <1>25, <2>1, <2>2, <2>3, Frame DEF PutFails, TypeInv
  <1>26. ASSUME NEW w \in Workers, CompleteProcessing(w) PROVE TypeInv'
    <2>1. RowTypes'
      <3>1. workerAsset[w] \in Assets /\ workerPut[w] \subseteq Kinds
        BY <1>26 DEF CompleteProcessing, WorkersOK, WorkerTypes, WorkerLocals
      <3>2. status' \in [Assets -> Statuses] /\ stale' \in [Assets -> BOOLEAN]
        BY <1>26 DEF CompleteProcessing, RowTypes, Statuses
      <3>3. variantRows' \in [Assets -> SUBSET Kinds]
        BY <1>26, <3>1 DEF CompleteProcessing, RowTypes
      <3>4. QED
        BY <1>26, <3>2, <3>3 DEF CompleteProcessing, RowTypes
    <2>2. TopicTypes'
      BY <1>26, ReturnRecordOK, Frame
         DEF CompleteProcessing, TypeInv, TopicTypes, topicVars
    <2>3. WorkersOK'
      BY <1>26, ContinueWorkerOK, ReturnRecordOK
         DEF CompleteProcessing, WorkersOK, WorkerTypes, WorkerSteps
    <2>4. HistoryTypes'
      BY <1>26 DEF CompleteProcessing, Leaves, HistoryTypes, WorkersOK, WorkerLocals
    <2>5. QED
      BY <1>26, <2>1, <2>2, <2>3, <2>4, Frame DEF CompleteProcessing, TypeInv
  <1>27. ASSUME NEW w \in Workers, MarkFailed(w) PROVE TypeInv'
    <2>1. RowTypes'
      BY <1>27
         DEF MarkFailed, WorkersOK, WorkerLocals, RowTypes, Statuses, ReleaseStates,
             rowVars
    <2>2. WorkersOK'
      BY <1>27, ContinueWorkerOK
         DEF MarkFailed, WorkersOK, WorkerTypes, WorkerLocals, WorkerSteps
    <2>3. QED
      BY <1>27, <2>1, <2>2, Frame DEF MarkFailed, TypeInv
  <1>28. ASSUME NEW w \in Workers, Announce(w) PROVE TypeInv'
    <2>1. TopicTypes'
      BY <1>28 DEF Announce, WorkersOK, WorkerLocals, TopicTypes, topicVars
    <2>2. WorkersOK'
      BY <1>28, ContinueWorkerOK
         DEF Announce, WorkersOK, WorkerTypes, WorkerLocals, WorkerSteps
    <2>3. QED
      BY <1>28, <2>1, <2>2, Frame DEF Announce, TypeInv
  <1>29. ASSUME NEW w \in Workers, CommitRecord(w) PROVE TypeInv'
    <2>1. WorkersOK'
      BY <1>29, ResetWorkerOK DEF CommitRecord, WorkersOK, WorkerTypes
    <2>2. QED
      BY <1>29, <2>1, Frame DEF CommitRecord, TypeInv
  <1>30. ASSUME NEW w \in Workers, Rebalance(w) PROVE TypeInv'
    <2>1. TopicTypes'
      BY <1>30 DEF Rebalance, WorkersOK, WorkerLocals, TopicTypes, topicVars
    <2>2. WorkersOK'
      BY <1>30 DEF Rebalance, WorkersOK, WorkerTypes, WorkerLocals
    <2>3. HistoryTypes'
      BY <1>30 DEF Rebalance, HistoryTypes, historyVars, Fault
    <2>4. QED
      BY <1>30, <2>1, <2>2, <2>3, Frame DEF Rebalance, TypeInv
  <1>31. ASSUME NEW w \in Workers, WorkerStops(w) PROVE TypeInv'
    <2>1. StoreTypes'
      BY <1>31, MaybeStoredKinds
         DEF WorkerStops, AfterAttempt, WorkersOK, WorkerTypes, WorkerLocals, StoreTypes,
             Contents, Items
    <2>2. TopicTypes'
      BY <1>31, ReturnRecordOK DEF WorkerStops, TopicTypes, topicVars
    <2>3. WorkersOK'
      BY <1>31, ReturnRecordOK DEF WorkerStops
    <2>4. HistoryTypes'
      BY <1>31 DEF WorkerStops, Leaves, HistoryTypes, Fault, WorkersOK, WorkerLocals
    <2>5. QED
      BY <1>31, <2>1, <2>2, <2>3, <2>4, Frame DEF WorkerStops, TypeInv
  <1>32. ASSUME NEW a \in Assets, ClaimAges(a) PROVE TypeInv'
    <2>1. RowTypes'
      BY <1>32 DEF ClaimAges, RowTypes, Statuses, ReleaseStates, rowVars
    <2>2. QED
      BY <1>32, <2>1, Frame DEF ClaimAges, TypeInv
  <1>33. CASE UNCHANGED vars
    BY <1>33, Frame DEF vars, TypeInv
  <1>34. QED
    BY <1>1, <1>2, <1>3, <1>4, <1>5, <1>6, <1>7, <1>8, <1>9, <1>10, <1>11, <1>12,
       <1>13, <1>14, <1>15, <1>16, <1>17, <1>18, <1>19, <1>20, <1>21, <1>22, <1>23,
       <1>24, <1>25, <1>26, <1>27, <1>28, <1>29, <1>30, <1>31, <1>32, <1>33
       DEF Next, Client, Handlers, Consumers, UploadApiStep, ReleaseApiStep, WorkerStep

-----------------------------------------------------------------------------
(* Types *)

\* Every variable holds a value of its kind in every state of the pipeline:
\* no handler and no worker uses an asset, item or row it never read.
THEOREM TypeCorrect == Spec => []TypeOK
  <1>1. TypeInv => TypeOK
    BY DEF TypeInv, TypeOK, WorkersOK, RequestsOK
  <1>2. QED
    BY TypeInit, TypeStep, <1>1, PTL DEF Spec

-----------------------------------------------------------------------------
(* The steps that change a row *)

RowSteps ==
    \/ \E a \in Assets : CreateUpload(a) \/ ClaimAges(a)
    \/ \E a \in Assets, r \in Releases : CreateRelease(a, r) \/ ReleaseExpires(a, r)
    \/ \E h \in Requests : \/ MarkUploaded(h) \/ RequeueFailed(h)
                           \/ FinishDelete(h) \/ MarkRelease(h)
    \/ \E w \in Workers : Claim(w) \/ CompleteProcessing(w) \/ MarkFailed(w)

\* Every other step leaves all rows as they are.
LEMMA OtherStepsLeaveRows == [Next]_vars => RowSteps \/ UNCHANGED rowVars
  BY DEF Next, vars, RowSteps, Client, Handlers, Consumers, UploadApiStep, ReleaseApiStep,
         WorkerStep, ClientPut, UrlExpires, BeginComplete, BeginRetry, BeginDelete,
         BeginCompleteRelease, HeadOriginal, PublishUploaded, PublishUploadedFails,
         ListTargets, EraseObject, HeadRelease, RequestAborts, Poll, ProcessOriginal,
         PutVariant, PutFails, Announce, CommitRecord, Rebalance, WorkerStops

RowFacts ==
    /\ status \in [Assets -> Statuses]
    /\ variantRows \in [Assets -> SUBSET Kinds]
    /\ releaseRow \in [Assets -> [Releases -> ReleaseStates]]
    /\ \A w \in Workers : workerAt[w] # "idle" => workerAsset[w] \in Assets
    /\ \A h \in Requests : requestAt[h] # "idle" => requestAsset[h] \in Assets
    /\ \A h \in Requests : requestAt[h] = "markRelease" => requestItem[h] \in Releases

\* The types say so.
LEMMA TypesGiveRowFacts == TypeInv => RowFacts
  BY DEF TypeInv, RowFacts, RowTypes, WorkersOK, WorkerLocals, RequestsOK, RequestLocals

-----------------------------------------------------------------------------
(* Outcomes *)

OutcomesStay ==
    \A a \in Assets :
        /\ status[a] = "ready" => status'[a] \in {"ready", "deleted"}
        /\ status[a] = "deleted" => status'[a] = "deleted"

\* Every step leaves the outcomes as they are.
LEMMA OutcomeStep ==
  ASSUME TypeInv, [Next]_vars
  PROVE  OutcomesStay
  <1> USE TypesGiveRowFacts DEF RowFacts, OutcomesStay
  <1>1. CASE UNCHANGED rowVars
    BY <1>1 DEF rowVars
  <1>2. ASSUME NEW a \in Assets, CreateUpload(a) \/ ClaimAges(a) PROVE OutcomesStay
    BY <1>2 DEF CreateUpload, ClaimAges
  <1>3. ASSUME NEW a \in Assets, NEW r \in Releases, CreateRelease(a, r) \/ ReleaseExpires(a, r)
        PROVE  OutcomesStay
    BY <1>3 DEF CreateRelease, ReleaseExpires
  <1>4. ASSUME NEW h \in Requests, MarkUploaded(h) \/ RequeueFailed(h) PROVE OutcomesStay
    BY <1>4 DEF MarkUploaded, RequeueFailed, MarkStatusUploaded
  <1>5. ASSUME NEW h \in Requests, FinishDelete(h) PROVE OutcomesStay
    BY <1>5 DEF FinishDelete, rowVars
  <1>6. ASSUME NEW h \in Requests, MarkRelease(h) PROVE OutcomesStay
    BY <1>6 DEF MarkRelease
  <1>7. ASSUME NEW w \in Workers, Claim(w) PROVE OutcomesStay
    BY <1>7 DEF Claim, Claimable
  <1>8. ASSUME NEW w \in Workers, CompleteProcessing(w) \/ MarkFailed(w) PROVE OutcomesStay
    BY <1>8 DEF CompleteProcessing, MarkFailed
  <1>9. QED
    BY <1>1, <1>2, <1>3, <1>4, <1>5, <1>6, <1>7, <1>8, OtherStepsLeaveRows DEF RowSteps

\* However late a worker is, it never reverts an outcome: a ready asset leaves
\* that status only by deletion, and a deleted asset stays deleted.
THEOREM OutcomesAreFinal == Spec => SettledIsFinal
  <1>1. TypeInv /\ [Next]_vars => OutcomesStay
    BY OutcomeStep
  <1>2. QED
    BY <1>1, TypeInit, TypeStep, PTL DEF Spec, SettledIsFinal, OutcomesStay

-----------------------------------------------------------------------------
(* Rows of deleted assets *)

\* Every step keeps deleted assets without rows.
LEMMA DeletedStep ==
  ASSUME TypeInv, DeletedKeepsNoRows, [Next]_vars
  PROVE  DeletedKeepsNoRows'
  <1> USE TypesGiveRowFacts DEF RowFacts, DeletedKeepsNoRows, ReleaseRows
  <1>1. CASE UNCHANGED rowVars
    BY <1>1 DEF rowVars
  <1>2. ASSUME NEW a \in Assets, CreateUpload(a) \/ ClaimAges(a) PROVE DeletedKeepsNoRows'
    BY <1>2 DEF CreateUpload, ClaimAges
  <1>3. ASSUME NEW a \in Assets, NEW r \in Releases, CreateRelease(a, r)
        PROVE  DeletedKeepsNoRows'
    BY <1>3 DEF CreateRelease
  <1>4. ASSUME NEW a \in Assets, NEW r \in Releases, ReleaseExpires(a, r)
        PROVE  DeletedKeepsNoRows'
    BY <1>4 DEF ReleaseExpires
  <1>5. ASSUME NEW h \in Requests, MarkUploaded(h) \/ RequeueFailed(h)
        PROVE  DeletedKeepsNoRows'
    BY <1>5 DEF MarkUploaded, RequeueFailed, MarkStatusUploaded
  <1>6. ASSUME NEW h \in Requests, FinishDelete(h) PROVE DeletedKeepsNoRows'
    BY <1>6 DEF FinishDelete, rowVars
  <1>7. ASSUME NEW h \in Requests, MarkRelease(h) PROVE DeletedKeepsNoRows'
    BY <1>7 DEF MarkRelease
  <1>8. ASSUME NEW w \in Workers, Claim(w) \/ MarkFailed(w) PROVE DeletedKeepsNoRows'
    BY <1>8 DEF Claim, MarkFailed
  <1>9. ASSUME NEW w \in Workers, CompleteProcessing(w) PROVE DeletedKeepsNoRows'
    BY <1>9 DEF CompleteProcessing
  <1>10. QED
    BY <1>1, <1>2, <1>3, <1>4, <1>5, <1>6, <1>7, <1>8, <1>9, OtherStepsLeaveRows DEF RowSteps

\* A deleted asset has no variant and no release rows, and no late worker or
\* release handler adds one.
THEOREM DeletionRemovesRows == Spec => []DeletedKeepsNoRows
  <1>1. Init => DeletedKeepsNoRows
    BY DEF Init, DeletedKeepsNoRows
  <1>2. TypeInv /\ DeletedKeepsNoRows /\ [Next]_vars => DeletedKeepsNoRows'
    BY DeletedStep
  <1>3. QED
    BY <1>1, <1>2, TypeInit, TypeStep, PTL DEF Spec

-----------------------------------------------------------------------------
(* The limit of release forms *)

\* An asset has finitely many active releases.
LEMMA ActiveAreFinite == \A a \in Assets : IsFiniteSet(ActiveReleases(a))
  BY ReleasesAreFinite, FS_Subset DEF ActiveReleases

\* A step after which no further release is active respects the limit.
LEMMA FewerActive ==
  ASSUME ReleaseLimitHolds, \A a \in Assets : ActiveReleases(a)' \subseteq ActiveReleases(a)
  PROVE  ReleaseLimitHolds'
  <1> SUFFICES ASSUME NEW a \in Assets PROVE Cardinality(ActiveReleases(a)') <= ReleaseLimit
    BY DEF ReleaseLimitHolds
  <1>1. /\ Cardinality(ActiveReleases(a)') <= Cardinality(ActiveReleases(a))
        /\ Cardinality(ActiveReleases(a)) \in Nat
        /\ Cardinality(ActiveReleases(a)') \in Nat
    BY ActiveAreFinite, FS_Subset, FS_CardinalityType
  <1>2. QED
    BY <1>1, BoundsAreNatural DEF ReleaseLimitHolds

\* Every step respects the limit.
LEMMA LimitStep ==
  ASSUME TypeInv, ReleaseLimitHolds, [Next]_vars
  PROVE  ReleaseLimitHolds'
  <1> USE TypesGiveRowFacts DEF RowFacts
  <1>1. ASSUME NEW a \in Assets, NEW r \in Releases, CreateRelease(a, r)
        PROVE  ReleaseLimitHolds'
    <2>1. CountedReleases(a) = ActiveReleases(a)
      BY DEF CountedReleases, ReleaseRows, ActiveReleases, ReleaseStates
    <2>2. ActiveReleases(a)' \subseteq ActiveReleases(a) \cup {r}
      BY <1>1 DEF CreateRelease, ActiveReleases
    <2>3. \A b \in Assets \ {a} : ActiveReleases(b)' = ActiveReleases(b)
      BY <1>1 DEF CreateRelease, ActiveReleases
    <2>4. Cardinality(ActiveReleases(a)) < ReleaseLimit
      BY <1>1, <2>1 DEF CreateRelease
    <2>5. /\ IsFiniteSet(ActiveReleases(a) \cup {r})
          /\ Cardinality(ActiveReleases(a) \cup {r}) <= Cardinality(ActiveReleases(a)) + 1
          /\ Cardinality(ActiveReleases(a)) \in Nat
      <3>1. IsFiniteSet(ActiveReleases(a))
        BY ActiveAreFinite
      <3>2. /\ IsFiniteSet(ActiveReleases(a) \cup {r})
            /\ \/ Cardinality(ActiveReleases(a) \cup {r}) = Cardinality(ActiveReleases(a))
               \/ Cardinality(ActiveReleases(a) \cup {r}) = Cardinality(ActiveReleases(a)) + 1
        BY <3>1, FS_AddElement
      <3>3. Cardinality(ActiveReleases(a)) \in Nat
        BY <3>1, FS_CardinalityType
      <3>4. QED
        BY <3>2, <3>3
    <2>6. /\ Cardinality(ActiveReleases(a)') <= Cardinality(ActiveReleases(a) \cup {r})
          /\ Cardinality(ActiveReleases(a)') \in Nat
          /\ Cardinality(ActiveReleases(a) \cup {r}) \in Nat
      BY <2>2, <2>5, FS_Subset, FS_CardinalityType
    <2>7. Cardinality(ActiveReleases(a)') <= ReleaseLimit
      BY <2>4, <2>5, <2>6, BoundsAreNatural
    <2>8. QED
      BY <2>3, <2>7 DEF ReleaseLimitHolds
  <1>2. ASSUME NEW a \in Assets, NEW r \in Releases, ReleaseExpires(a, r)
        PROVE  \A b \in Assets : ActiveReleases(b)' \subseteq ActiveReleases(b)
    BY <1>2 DEF ReleaseExpires, ActiveReleases
  <1>3. ASSUME NEW h \in Requests, MarkRelease(h)
        PROVE  \A b \in Assets : ActiveReleases(b)' \subseteq ActiveReleases(b)
    BY <1>3 DEF MarkRelease, ActiveReleases
  <1>4. ASSUME NEW h \in Requests, FinishDelete(h)
        PROVE  \A b \in Assets : ActiveReleases(b)' \subseteq ActiveReleases(b)
    BY <1>4 DEF FinishDelete, ActiveReleases, ReleaseRows, rowVars
  <1>5. ASSUME releaseRow' = releaseRow
        PROVE  \A b \in Assets : ActiveReleases(b)' \subseteq ActiveReleases(b)
    BY <1>5 DEF ActiveReleases
  <1>6. QED
    BY <1>1, <1>2, <1>3, <1>4, <1>5, FewerActive, OtherStepsLeaveRows
       DEF RowSteps, rowVars, CreateUpload, ClaimAges, MarkUploaded, RequeueFailed,
           MarkStatusUploaded, Claim, CompleteProcessing, MarkFailed

\* No asset ever has more active release forms than the limit, whatever the
\* limit and however many creations and confirmations run at once.
THEOREM ReleaseFormsAreLimited == Spec => []ReleaseLimitHolds
  <1>1. Init => ReleaseLimitHolds
    <2>1. Init => \A a \in Assets : ActiveReleases(a) = {}
      BY DEF Init, ActiveReleases
    <2>2. QED
      BY <2>1, FS_EmptySet, BoundsAreNatural DEF ReleaseLimitHolds
  <1>2. TypeInv /\ ReleaseLimitHolds /\ [Next]_vars => ReleaseLimitHolds'
    BY LimitStep
  <1>3. QED
    BY <1>1, <1>2, TypeInit, TypeStep, PTL DEF Spec

-----------------------------------------------------------------------------
(* Upload events *)

\* The record a worker is about to act on is its own, so it goes back to the
\* topic if the worker stops: a record that moved to another consumer does not.
EventKept(a) ==
    \/ queued[a] > 0
    \/ \E w \in Workers : workerAt[w] = "claim" /\ workerAsset[w] = a /\ workerOwns[w]
    \/ \E h \in Requests : requestAt[h] = "publish" /\ requestAsset[h] = a
    \/ a \in unpublished

UploadInv == \A a \in Assets : status[a] = "uploaded" => EventKept(a)

EventFacts ==
    /\ status \in [Assets -> Statuses]
    /\ queued \in [Assets -> Nat]
    /\ unpublished \in SUBSET Assets
    /\ workerAt \in [Workers -> WorkerSteps]
    /\ workerAsset \in [Workers -> Assets \cup {None}]
    /\ workerOwns \in [Workers -> BOOLEAN]
    /\ requestAt \in [Requests -> RequestSteps]
    /\ requestAsset \in [Requests -> Assets \cup {None}]
    /\ \A w \in Workers : workerAt[w] # "idle" => workerAsset[w] \in Assets
    /\ \A w \in Workers : workerOwns[w] => workerAt[w] # "idle"
    /\ \A h \in Requests : requestAt[h] # "idle" => requestAsset[h] \in Assets

\* The types say so.
LEMMA TypesGiveEventFacts == TypeInv => EventFacts
  BY DEF TypeInv, EventFacts, RowTypes, TopicTypes, WorkersOK, WorkerTypes, WorkerLocals,
         RequestsOK, RequestTypes, RequestLocals, HistoryTypes

\* A step that loses no event forgets no upload.
LEMMA EventsKeptKeepUploads ==
  ASSUME UploadInv, \A a \in Assets : EventKept(a) => EventKept(a)',
         \A a \in Assets : status'[a] = "uploaded" => status[a] = "uploaded" \/ EventKept(a)'
  PROVE  UploadInv'
  BY DEF UploadInv

(***************************************************************************)
(* A request leaves its "publish" step by publishing, or by an error that  *)
(* is recorded; no other request step loses an event.                      *)
(***************************************************************************)
LEMMA PublishingStep ==
  ASSUME TypeInv, UploadInv, NEW h \in Requests,
         PublishUploaded(h) \/ PublishUploadedFails(h) \/ RequestAborts(h)
  PROVE  UploadInv'
  <1> USE TypesGiveEventFacts DEF EventFacts
  <1> DEFINE asset == requestAsset[h]
  <1>1. /\ UNCHANGED <<status, workerVars>>
        /\ asset \in Assets
        /\ \A g \in Requests \ {h} :
                requestAt'[g] = requestAt[g] /\ requestAsset'[g] = requestAsset[g]
    BY DEF PublishUploaded, PublishUploadedFails, RequestAborts, EndRequest, rowVars
  <1>2. \A a \in Assets : queued[a] > 0 => queued'[a] > 0
    BY DEF PublishUploaded, PublishUploadedFails, RequestAborts, topicVars
  <1>3. \A a \in Assets \ {asset} : a \in unpublished => a \in unpublished'
    BY DEF PublishUploaded, PublishUploadedFails, RequestAborts
  <1>4. requestAt[h] = "publish" => queued'[asset] > 0 \/ asset \in unpublished'
    <2>1. CASE PublishUploaded(h)
      BY <1>1, <2>1 DEF PublishUploaded
    <2>2. CASE PublishUploadedFails(h) \/ RequestAborts(h)
      BY <1>1, <2>2 DEF PublishUploadedFails, RequestAborts
    <2>3. QED
      BY <2>1, <2>2
  <1>5. requestAt[h] # "publish" => unpublished' = unpublished
    BY DEF PublishUploaded, PublishUploadedFails, RequestAborts
  <1>6. \A a \in Assets : EventKept(a) => EventKept(a)'
    BY <1>1, <1>2, <1>3, <1>4, <1>5 DEF EventKept, workerVars
  <1>7. QED
    BY <1>1, <1>6, EventsKeptKeepUploads

\* The steps that mark an asset uploaded go on to publish.
LEMMA UploadedStep ==
  ASSUME TypeInv, UploadInv, NEW h \in Requests, MarkUploaded(h) \/ RequeueFailed(h)
  PROVE  UploadInv'
  <1> USE TypesGiveEventFacts DEF EventFacts
  <1> DEFINE asset == requestAsset[h]
  <1>1. /\ UNCHANGED <<topicVars, workerVars, historyVars>>
        /\ asset \in Assets
        /\ requestAt[h] \in {"markUploaded", "requeue"}
        /\ \A g \in Requests \ {h} :
                requestAt'[g] = requestAt[g] /\ requestAsset'[g] = requestAsset[g]
    BY DEF MarkUploaded, RequeueFailed, MarkStatusUploaded, ContinueRequest, EndRequest
  <1>2. \A a \in Assets : EventKept(a) => EventKept(a)'
    BY <1>1 DEF EventKept, topicVars, workerVars, historyVars
  <1>3. CASE status' = status
    BY <1>2, <1>3, EventsKeptKeepUploads
  <1>4. CASE status' # status
    <2>1. /\ status' = [status EXCEPT ![asset] = "uploaded"]
          /\ requestAt'[h] = "publish" /\ requestAsset'[h] = asset
      BY <1>4 DEF MarkUploaded, RequeueFailed, MarkStatusUploaded, ContinueRequest
    <2>2. EventKept(asset)'
      BY <2>1 DEF EventKept
    <2>3. QED
      BY <1>2, <2>1, <2>2, EventsKeptKeepUploads
  <1>5. QED
    BY <1>3, <1>4

\* The other steps of a handler lose no event.
LEMMA OtherRequestStep ==
  ASSUME TypeInv, UploadInv, NEW h \in Requests,
         \/ \E a \in Assets : BeginComplete(h, a) \/ BeginRetry(h, a) \/ BeginDelete(h, a)
         \/ \E a \in Assets, r \in Releases : BeginCompleteRelease(h, a, r)
         \/ HeadOriginal(h) \/ ListTargets(h) \/ EraseObject(h) \/ FinishDelete(h)
         \/ HeadRelease(h) \/ MarkRelease(h)
  PROVE  UploadInv'
  <1> USE TypesGiveEventFacts DEF EventFacts
  <1>1. /\ UNCHANGED <<topicVars, workerVars, unpublished>>
        /\ \A g \in Requests \ {h} :
                requestAt'[g] = requestAt[g] /\ requestAsset'[g] = requestAsset[g]
        /\ requestAt[h] # "publish"
    BY DEF BeginComplete, BeginRetry, BeginDelete, BeginCompleteRelease, HeadOriginal, ListTargets,
           EraseObject, FinishDelete, HeadRelease, MarkRelease, StartRequest, ContinueRequest,
           EndRequest, historyVars
  <1>2. \A a \in Assets : status'[a] = "uploaded" => status[a] = "uploaded"
    BY DEF BeginComplete, BeginRetry, BeginDelete, BeginCompleteRelease, HeadOriginal, ListTargets,
           EraseObject, FinishDelete, HeadRelease, MarkRelease, rowVars
  <1>3. \A a \in Assets : EventKept(a) => EventKept(a)'
    BY <1>1 DEF EventKept, topicVars, workerVars
  <1>4. QED
    BY <1>2, <1>3, EventsKeptKeepUploads

\* The client loses no event.
LEMMA ClientStep ==
  ASSUME TypeInv, UploadInv, Client \/ \E a \in Assets : ClaimAges(a)
  PROVE  UploadInv'
  <1> USE TypesGiveEventFacts DEF EventFacts
  <1>1. UNCHANGED <<topicVars, workerVars, requestVars, historyVars>>
    BY DEF Client, CreateUpload, ClientPut, UrlExpires, CreateRelease, ReleaseExpires, ClaimAges
  <1>2. \A a \in Assets : status'[a] = "uploaded" => status[a] = "uploaded"
    BY DEF Client, CreateUpload, ClientPut, UrlExpires, CreateRelease, ReleaseExpires, ClaimAges,
           rowVars
  <1>3. \A a \in Assets : EventKept(a) => EventKept(a)'
    BY <1>1 DEF EventKept, topicVars, workerVars, requestVars, historyVars
  <1>4. QED
    BY <1>2, <1>3, EventsKeptKeepUploads

(***************************************************************************)
(* A worker loses sight of an event only by claiming the asset, or when    *)
(* its status is no longer uploaded.                                       *)
(***************************************************************************)
LEMMA WorkerKeepsUploads ==
  ASSUME TypeInv, UploadInv, Consumers
  PROVE  UploadInv'
  <1> USE TypesGiveEventFacts DEF EventFacts
  <1>1. PICK w \in Workers :
            \/ \E a \in Assets : Poll(w, a)
            \/ WorkerStep(w) \/ Rebalance(w) \/ WorkerStops(w)
    BY DEF Consumers
  <1>2. UNCHANGED <<requestVars, unpublished>>
    BY <1>1 DEF Poll, WorkerStep, Rebalance, WorkerStops, Claim, ProcessOriginal, PutVariant,
                PutFails, CompleteProcessing, MarkFailed, Announce, CommitRecord, historyVars
  <1>3. ASSUME NEW a \in Assets, Poll(w, a) PROVE UploadInv'
    <2>1. \A b \in Assets : EventKept(b) => EventKept(b)'
      <3>1. EventKept(a)'
        BY <1>3 DEF Poll, EventKept
      <3>2. \A b \in Assets \ {a} : queued'[b] = queued[b]
        BY <1>3 DEF Poll
      <3>3. \A v \in Workers : workerAt[v] = "claim" =>
              /\ workerAt'[v] = "claim"
              /\ workerAsset'[v] = workerAsset[v]
              /\ workerOwns'[v] = workerOwns[v]
        BY <1>3 DEF Poll
      <3>4. QED
        BY <1>2, <3>1, <3>2, <3>3 DEF EventKept, requestVars
    <2>2. QED
      BY <1>3, <2>1, EventsKeptKeepUploads DEF Poll, rowVars
  <1>4. CASE Claim(w)
    <2> DEFINE asset == workerAsset[w]
    <2>1. /\ asset \in Assets /\ status'[asset] # "uploaded"
          /\ \A b \in Assets \ {asset} : status'[b] = status[b]
          /\ UNCHANGED queued
          /\ \A v \in Workers \ {w} : workerAt'[v] = workerAt[v]
          /\ UNCHANGED <<workerAsset, workerOwns>>
      BY <1>4 DEF Claim, Claimable, ContinueWorker, topicVars
    <2>2. \A b \in Assets \ {asset} : EventKept(b) => EventKept(b)'
      BY <1>2, <2>1 DEF EventKept, requestVars
    <2>3. QED
      BY <2>1, <2>2 DEF UploadInv
  <1>5. ASSUME workerAt[w] # "claim", UNCHANGED queued, UNCHANGED workerOwns \/ ~workerOwns'[w],
               \A v \in Workers \ {w} : /\ workerAt'[v] = workerAt[v]
                                        /\ workerAsset'[v] = workerAsset[v]
                                        /\ workerOwns'[v] = workerOwns[v],
               \A a \in Assets : status'[a] = "uploaded" => status[a] = "uploaded"
        PROVE  UploadInv'
    <2>1. \A b \in Assets : EventKept(b) => EventKept(b)'
      BY <1>2, <1>5 DEF EventKept, requestVars
    <2>2. QED
      BY <1>5, <2>1, EventsKeptKeepUploads
  <1>6. CASE ProcessOriginal(w) \/ PutVariant(w) \/ PutFails(w) \/ Announce(w)
    BY <1>5, <1>6 DEF ProcessOriginal, PutVariant, PutFails, Announce, ContinueWorker, rowVars,
                      topicVars
  <1>7. CASE MarkFailed(w)
    BY <1>5, <1>7 DEF MarkFailed, ContinueWorker, topicVars
  <1>8. CASE CommitRecord(w)
    BY <1>5, <1>8 DEF CommitRecord, ResetWorker, rowVars, topicVars
  <1>9. CASE CompleteProcessing(w) /\ status[workerAsset[w]] = "processing"
    BY <1>5, <1>9 DEF CompleteProcessing, ContinueWorker, topicVars
  <1>10. ASSUME ReturnRecord(w), workerAt[w] # "idle", UNCHANGED status
         PROVE  UploadInv'
    <2>1. \A a \in Assets : queued[a] > 0 => queued'[a] > 0
      BY <1>10 DEF ReturnRecord
    <2>2. workerOwns[w] => queued'[workerAsset[w]] > 0
      BY <1>10 DEF ReturnRecord
    <2>3. \A v \in Workers \ {w} : /\ workerAt'[v] = workerAt[v]
                                   /\ workerAsset'[v] = workerAsset[v]
                                   /\ workerOwns'[v] = workerOwns[v]
      BY <1>10 DEF ReturnRecord, ResetWorker
    <2>4. \A b \in Assets : EventKept(b) => EventKept(b)'
      BY <1>2, <2>1, <2>2, <2>3 DEF EventKept, requestVars
    <2>5. QED
      BY <1>10, <2>4, EventsKeptKeepUploads
  <1>11. CASE CompleteProcessing(w) /\ status[workerAsset[w]] # "processing"
    BY <1>10, <1>11 DEF CompleteProcessing
  <1>12. CASE WorkerStops(w)
    BY <1>10, <1>12 DEF WorkerStops, rowVars
  <1>13. CASE Rebalance(w)
    <2>1. \A a \in Assets : queued[a] > 0 => queued'[a] > 0
      BY <1>13 DEF Rebalance
    <2>2. queued'[workerAsset[w]] > 0
      BY <1>13 DEF Rebalance
    <2>3. /\ UNCHANGED <<workerAt, workerAsset>>
          /\ \A v \in Workers \ {w} : workerOwns'[v] = workerOwns[v]
      BY <1>13 DEF Rebalance
    <2>4. \A b \in Assets : EventKept(b) => EventKept(b)'
      BY <1>2, <2>1, <2>2, <2>3 DEF EventKept, requestVars
    <2>5. QED
      BY <1>13, <2>4, EventsKeptKeepUploads DEF Rebalance, rowVars
  <1>14. QED
    BY <1>1, <1>3, <1>4, <1>6, <1>7, <1>8, <1>9, <1>11, <1>12, <1>13 DEF WorkerStep

\* Every step keeps an event for every upload.
LEMMA UploadStep ==
  ASSUME TypeInv, UploadInv, [Next]_vars
  PROVE  UploadInv'
  <1>1. CASE Handlers
    BY <1>1, PublishingStep, UploadedStep, OtherRequestStep
       DEF Handlers, UploadApiStep, ReleaseApiStep
  <1>2. CASE UNCHANGED vars
    BY <1>2 DEF vars, rowVars, topicVars, workerVars, requestVars, historyVars, UploadInv, EventKept
  <1>3. QED
    BY <1>1, <1>2, ClientStep, WorkerKeepsUploads DEF Next

\* An uploaded asset always has an event that will reach a worker, a request
\* about to publish one, or a publication whose failure its caller was told:
\* crashes, rebalances and redeliveries lose none.
THEOREM UploadsAreNotForgotten == Spec => []NoUploadIsForgotten
  <1>1. Init => UploadInv
    BY DEF Init, UploadInv
  <1>2. UploadInv => NoUploadIsForgotten
    BY DEF UploadInv, EventKept, NoUploadIsForgotten, EventOutstanding
  <1>3. TypeInv /\ UploadInv /\ [Next]_vars => UploadInv'
    BY UploadStep
  <1>4. QED
    BY <1>1, <1>2, <1>3, TypeInit, TypeStep, PTL DEF Spec

=============================================================================
