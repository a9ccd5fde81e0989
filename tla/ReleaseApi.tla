----------------------------- MODULE ReleaseApi ------------------------------
(***************************************************************************)
(* The release-form handlers of the media API (releases.Service): an asset *)
(* that is ready may have a few private release documents, each uploaded   *)
(* through its own presigned URL and confirmed before the URL expires.     *)
(***************************************************************************)
EXTENDS UploadApi

\* Faulty variant of CountedReleases: pending releases are not counted.
CountedReleasesUploaded(a) == {r \in ReleaseRows(a) : releaseRow[a][r] = "uploaded"}

\* The count the transaction takes after deleting the expired pending rows.
CountedReleases(a) == {r \in ReleaseRows(a) : releaseRow[a][r] # "expired"}

\* CreateMediaRelease locks the ready asset row for its whole transaction, so
\* it is one step. At the limit it returns before its commit, which also
\* undoes the removal of the expired rows: nothing changes.
CreateRelease(a, r) ==
    /\ status[a] = "ready"
    /\ \A b \in Assets : releaseRow[b][r] = "unused"
    /\ Cardinality(CountedReleases(a)) < ReleaseLimit
    /\ releaseRow' = [releaseRow EXCEPT ![a] =
         [s \in Releases |-> IF s = r THEN "pending"
                             ELSE IF @[s] = "expired" THEN "removed" ELSE @[s]]]
    /\ \E signed \in BOOLEAN :
        putUrl' = IF signed THEN [putUrl EXCEPT ![a] = @ \cup {r}] ELSE putUrl
    /\ UNCHANGED <<status, stale, variantRows, evidence, object, topicVars,
                   workerVars, requestVars, faults, historyVars>>

\* upload_expires_at passes.
ReleaseExpires(a, r) ==
    /\ releaseRow[a][r] = "pending"
    /\ releaseRow' = [releaseRow EXCEPT ![a][r] = "expired"]
    /\ UNCHANGED <<status, stale, variantRows, evidence, storeVars, topicVars,
                   workerVars, requestVars, faults, historyVars>>

\* Complete reads the release row; an uploaded one is only reported.
BeginCompleteRelease(h, a, r) ==
    /\ releaseRow[a][r] \in {"pending", "expired"}
    /\ StartRequest(h, "headRelease", a, r)
    /\ UNCHANGED <<rowVars, storeVars, topicVars, workerVars, faults, historyVars>>

HeadRelease(h) ==
    /\ requestAt[h] = "headRelease"
    /\ IF object[requestAsset[h]][requestItem[h]] = "ok"
         THEN ContinueRequest(h, "markRelease")
         ELSE EndRequest(h)
    /\ UNCHANGED <<rowVars, storeVars, topicVars, workerVars, faults, historyVars>>

\* MarkMediaReleaseUploaded: only a pending row that has not expired.
MarkRelease(h) ==
    LET a == requestAsset[h]
        r == requestItem[h] IN
    /\ requestAt[h] = "markRelease"
    /\ releaseRow' = IF releaseRow[a][r] = "pending"
                       THEN [releaseRow EXCEPT ![a][r] = "uploaded"]
                       ELSE releaseRow
    /\ EndRequest(h)
    /\ UNCHANGED <<status, stale, variantRows, evidence, storeVars, topicVars,
                   workerVars, faults, historyVars>>

ReleaseApiStep(h) == HeadRelease(h) \/ MarkRelease(h)

=============================================================================
