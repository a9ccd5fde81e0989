------------------------------ MODULE UploadApi ------------------------------
(***************************************************************************)
(* The upload handlers of the media API (uploads.Service) and what a       *)
(* contributor's browser does with a presigned URL. A handler is a request *)
(* slot h that takes one step per query, storage call or publication, so   *)
(* handlers interleave with each other and with the worker.                *)
(***************************************************************************)
EXTENDS MediaAssets

\* Request h works on item i of asset a and is about to take the given step.
StartRequest(h, step, a, i) ==
    /\ requestAt[h] = "idle"
    /\ requestAt' = [requestAt EXCEPT ![h] = step]
    /\ requestAsset' = [requestAsset EXCEPT ![h] = a]
    /\ requestItem' = [requestItem EXCEPT ![h] = i]
    /\ UNCHANGED requestTargets

ContinueRequest(h, step) ==
    /\ requestAt' = [requestAt EXCEPT ![h] = step]
    /\ UNCHANGED <<requestAsset, requestItem, requestTargets>>

\* The handler answers, with a result or an error, and its locals are gone.
EndRequest(h) ==
    /\ requestAt' = [requestAt EXCEPT ![h] = "idle"]
    /\ requestAsset' = [requestAsset EXCEPT ![h] = None]
    /\ requestItem' = [requestItem EXCEPT ![h] = Original]
    /\ requestTargets' = [requestTargets EXCEPT ![h] = {}]

-----------------------------------------------------------------------------
(* Creating an upload and using its URL *)

\* Create: the row is inserted, then the URL is signed; signing may fail.
CreateUpload(a) ==
    /\ status[a] = "absent"
    /\ status' = [status EXCEPT ![a] = "pending"]
    /\ \E signed \in BOOLEAN :
        putUrl' = IF signed THEN [putUrl EXCEPT ![a] = @ \cup {Original}]
                            ELSE putUrl
    /\ UNCHANGED <<stale, variantRows, releaseRow, evidence, object, topicVars,
                   workerVars, requestVars, faults, historyVars>>

\* The browser stores bytes through a presigned URL, any number of times.
ClientPut(a, i) ==
    /\ i \in putUrl[a]
    /\ \E content \in {"ok", "wrong"} :
        object' = [object EXCEPT ![a][i] = content]
    /\ UNCHANGED <<rowVars, putUrl, topicVars, workerVars, requestVars, faults,
                   historyVars>>

UrlExpires(a, i) ==
    /\ i \in putUrl[a]
    /\ putUrl' = [putUrl EXCEPT ![a] = @ \ {i}]
    /\ UNCHANGED <<rowVars, object, topicVars, workerVars, requestVars, faults,
                   historyVars>>

-----------------------------------------------------------------------------
(* Complete, Retry and the publication they share *)

\* Complete reads the row: a pending upload is verified, an uploaded one is
\* published again, anything else is only reported.
BeginComplete(h, a) ==
    /\ status[a] \in {"pending", "uploaded"}
    /\ StartRequest(h, IF status[a] = "pending" THEN "head" ELSE "publish",
                    a, Original)
    /\ UNCHANGED <<rowVars, storeVars, topicVars, workerVars, faults, historyVars>>

HeadOriginal(h) ==
    /\ requestAt[h] = "head"
    /\ IF object[requestAsset[h]][Original] = "ok"
         THEN ContinueRequest(h, "markUploaded")
         ELSE EndRequest(h)
    /\ UNCHANGED <<rowVars, storeVars, topicVars, workerVars, faults, historyVars>>

\* One conditional UPDATE from a status to 'uploaded'; no row is ErrNoRows.
MarkStatusUploaded(h, from) ==
    LET a == requestAsset[h] IN
    /\ IF status[a] = from
         THEN /\ status' = [status EXCEPT ![a] = "uploaded"]
              /\ ContinueRequest(h, "publish")
         ELSE /\ UNCHANGED status
              /\ EndRequest(h)
    /\ UNCHANGED <<stale, variantRows, releaseRow, evidence, storeVars, topicVars,
                   workerVars, faults, historyVars>>

MarkUploaded(h) ==
    /\ requestAt[h] = "markUploaded"
    /\ MarkStatusUploaded(h, "pending")

\* Retry reads the row: a failed asset is requeued, an uploaded one is
\* published again, a processing one is only reported.
BeginRetry(h, a) ==
    /\ status[a] \in {"failed", "uploaded"}
    /\ StartRequest(h, IF status[a] = "failed" THEN "requeue" ELSE "publish",
                    a, Original)
    /\ UNCHANGED <<rowVars, storeVars, topicVars, workerVars, faults, historyVars>>

RequeueFailed(h) ==
    /\ requestAt[h] = "requeue"
    /\ MarkStatusUploaded(h, "failed")

\* publishUploaded: ProduceSync appends the record and confirms it.
PublishUploaded(h) ==
    LET a == requestAsset[h] IN
    /\ requestAt[h] = "publish"
    /\ queued[a] < MaxEvents
    /\ queued' = [queued EXCEPT ![a] = @ + 1]
    /\ unpublished' = unpublished \ {a}
    /\ EndRequest(h)
    /\ UNCHANGED <<rowVars, storeVars, announced, workerVars, faults, erasing, uncleaned>>

\* ProduceSync returns an error, with or without the record in the topic.
PublishUploadedFails(h) ==
    LET a == requestAsset[h] IN
    /\ requestAt[h] = "publish"
    /\ Fault
    /\ \E stored \in BOOLEAN :
        /\ stored => queued[a] < MaxEvents
        /\ queued' = IF stored THEN [queued EXCEPT ![a] = @ + 1] ELSE queued
    /\ unpublished' = unpublished \cup {a}
    /\ EndRequest(h)
    /\ UNCHANGED <<rowVars, storeVars, announced, workerVars, erasing, uncleaned>>

-----------------------------------------------------------------------------
(* Delete *)

\* The first query of MediaDeletionTargets: the original of a live asset.
BeginDelete(h, a) ==
    /\ Live(a)
    /\ requestAt[h] = "idle"
    /\ requestAt' = [requestAt EXCEPT ![h] = "listTargets"]
    /\ requestAsset' = [requestAsset EXCEPT ![h] = a]
    /\ requestTargets' = [requestTargets EXCEPT ![h] = {Original}]
    /\ UNCHANGED <<requestItem, rowVars, storeVars, topicVars, workerVars, faults,
                   historyVars>>

\* The second query: the variant and release rows as they are now.
ListTargets(h) ==
    LET a == requestAsset[h] IN
    /\ requestAt[h] = "listTargets"
    /\ requestAt' = [requestAt EXCEPT ![h] = "erase"]
    /\ requestTargets' = [requestTargets EXCEPT
                            ![h] = @ \cup variantRows[a] \cup ReleaseRows(a)]
    /\ UNCHANGED <<requestAsset, requestItem, rowVars, storeVars, topicVars,
                   workerVars, faults, historyVars>>

\* Keys are erased in sorted order: originals/, releases/, then variants/.
NextTarget(targets, i) ==
    /\ i \in targets
    /\ i # Original => Original \notin targets
    /\ i \in Kinds => targets \cap Releases = {}

\* Faulty variant of EraseObject: an object that is already gone is an error,
\* which ends the deletion.
EraseObjectOnce(h) ==
    LET a == requestAsset[h] IN
    /\ requestAt[h] = "erase"
    /\ \E i \in requestTargets[h] :
        /\ NextTarget(requestTargets[h], i)
        /\ object' = [object EXCEPT ![a][i] = "none"]
        /\ IF object[a][i] = "none"
             THEN EndRequest(h)
             ELSE /\ requestTargets' = [requestTargets EXCEPT ![h] = @ \ {i}]
                  /\ requestAt' = [requestAt EXCEPT ![h] =
                        IF requestTargets[h] = {i} THEN "finishDelete" ELSE @]
                  /\ UNCHANGED <<requestAsset, requestItem>>
    /\ erasing' = erasing \cup {a}
    /\ UNCHANGED <<rowVars, putUrl, topicVars, workerVars, faults, unpublished, uncleaned>>

EraseObject(h) ==
    LET a == requestAsset[h] IN
    /\ requestAt[h] = "erase"
    /\ \E i \in requestTargets[h] :
        /\ NextTarget(requestTargets[h], i)
        /\ object' = [object EXCEPT ![a][i] = "none"]
        /\ requestTargets' = [requestTargets EXCEPT ![h] = @ \ {i}]
        /\ requestAt' = [requestAt EXCEPT ![h] =
                            IF requestTargets[h] = {i} THEN "finishDelete" ELSE @]
    /\ erasing' = erasing \cup {a}
    /\ UNCHANGED <<requestAsset, requestItem, rowVars, putUrl, topicVars,
                   workerVars, faults, unpublished, uncleaned>>

\* CompleteMediaDeletion: one transaction scrubs the row, removes the variant
\* and release rows and records the evidence. Its second Exec carries three
\* statements and an argument; a connection that prepares statements refuses
\* it and the transaction rolls back.
FinishDelete(h) ==
    LET a == requestAsset[h] IN
    /\ requestAt[h] = "finishDelete"
    /\ IF Live(a) /\ MultiStatementExec
         THEN /\ status' = [status EXCEPT ![a] = "deleted"]
              /\ stale' = [stale EXCEPT ![a] = FALSE]
              /\ variantRows' = [variantRows EXCEPT ![a] = {}]
              /\ releaseRow' = [releaseRow EXCEPT ![a] =
                    [r \in Releases |-> IF r \in ReleaseRows(a) THEN "removed" ELSE @[r]]]
              /\ evidence' = evidence \cup {a}
         ELSE UNCHANGED rowVars
    /\ EndRequest(h)
    /\ UNCHANGED <<storeVars, topicVars, workerVars, faults, historyVars>>

\* A query or storage call fails, the client goes away or the process stops:
\* the handler ends where it is and the caller gets no success.
RequestAborts(h) ==
    /\ requestAt[h] # "idle"
    /\ Fault
    /\ unpublished' = IF requestAt[h] = "publish"
                        THEN unpublished \cup {requestAsset[h]} ELSE unpublished
    /\ EndRequest(h)
    /\ UNCHANGED <<rowVars, storeVars, topicVars, workerVars, erasing, uncleaned>>

UploadApiStep(h) ==
    \/ HeadOriginal(h)
    \/ MarkUploaded(h)
    \/ RequeueFailed(h)
    \/ PublishUploaded(h)
    \/ ListTargets(h)
    \/ EraseObject(h)
    \/ FinishDelete(h)

=============================================================================
