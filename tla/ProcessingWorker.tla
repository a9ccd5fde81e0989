-------------------------- MODULE ProcessingWorker ---------------------------
(***************************************************************************)
(* The media worker: consumers of media.uploaded.v1 that claim an asset,   *)
(* derive its variants and record the outcome (processing.Processor.Handle *)
(* under kafka.Client.Consume). The record a consumer holds is committed   *)
(* only after the handler returns nil; an error ends its consumer and      *)
(* cancels the others of its process (main), the process is started again  *)
(* and the uncommitted records are delivered again.                        *)
(***************************************************************************)
EXTENDS MediaAssets

\* Worker w claimed asset a and has not recorded an outcome yet.
HoldsClaim(w, a) ==
    /\ workerAsset[w] = a
    /\ workerAt[w] \in {"process", "put", "complete", "markFailed"}

ContinueWorker(w, step) ==
    /\ workerAt' = [workerAt EXCEPT ![w] = step]
    /\ UNCHANGED <<workerAsset, workerOwns, cancelled>>

ResetWorker(w) ==
    /\ workerAt' = [workerAt EXCEPT ![w] = "idle"]
    /\ workerAsset' = [workerAsset EXCEPT ![w] = None]
    /\ workerPut' = [workerPut EXCEPT ![w] = {}]
    /\ workerOwns' = [workerOwns EXCEPT ![w] = FALSE]

\* The consumers of the process that w belongs to.
Process(w) == IF SharedProcess THEN Workers ELSE {w}

\* w returns: the context of its process is cancelled, and the process is
\* started again once the last of its consumers has returned.
LeaveProcess(w) ==
    cancelled' = IF \A v \in Process(w) \ {w} : workerAt[v] = "idle"
                   THEN cancelled \ Process(w) ELSE cancelled \cup Process(w)

\* Faulty variant of ReturnRecord: offsets are committed as records arrive.
ReturnRecordCommittedEarly(w) == ResetWorker(w) /\ LeaveProcess(w) /\ UNCHANGED topicVars

\* The handler of w returns an error and its record stays uncommitted; it will
\* be polled again, unless the group already gave it to another consumer.
ReturnRecord(w) ==
    /\ ResetWorker(w)
    /\ LeaveProcess(w)
    /\ queued' = IF workerOwns[w]
                   THEN [queued EXCEPT ![workerAsset[w]] = @ + 1] ELSE queued
    /\ UNCHANGED announced

-----------------------------------------------------------------------------
(* Delivery *)

\* Faulty variant of Poll: the same record is handed out without end.
PollUnbounded(w, a) ==
    /\ workerAt[w] = "idle"
    /\ w \notin cancelled
    /\ queued' = [queued EXCEPT ![a] = @ - 1]
    /\ workerAt' = [workerAt EXCEPT ![w] = "claim"]
    /\ workerAsset' = [workerAsset EXCEPT ![w] = a]
    /\ workerOwns' = [workerOwns EXCEPT ![w] = TRUE]
    /\ UNCHANGED <<workerPut, cancelled, rowVars, storeVars, announced, requestVars, faults,
                   historyVars>>

Poll(w, a) ==
    /\ workerAt[w] = "idle"
    /\ w \notin cancelled
    /\ queued[a] > 0
    /\ queued' = [queued EXCEPT ![a] = @ - 1]
    /\ workerAt' = [workerAt EXCEPT ![w] = "claim"]
    /\ workerAsset' = [workerAsset EXCEPT ![w] = a]
    /\ workerOwns' = [workerOwns EXCEPT ![w] = TRUE]
    /\ UNCHANGED <<workerPut, cancelled, rowVars, storeVars, announced, requestVars, faults,
                   historyVars>>

\* A group rebalance hands the uncommitted record to another consumer while
\* this one is still handling it.
Rebalance(w) ==
    /\ workerOwns[w]
    /\ Fault
    /\ workerOwns' = [workerOwns EXCEPT ![w] = FALSE]
    /\ queued' = [queued EXCEPT ![workerAsset[w]] = @ + 1]
    /\ UNCHANGED <<workerAt, workerAsset, workerPut, cancelled, rowVars, storeVars,
                   announced, requestVars, historyVars>>

CommitRecord(w) ==
    /\ workerAt[w] = "commit"
    /\ ResetWorker(w)
    /\ UNCHANGED <<cancelled, rowVars, storeVars, topicVars, requestVars, faults,
                   historyVars>>

-----------------------------------------------------------------------------
(* Handle *)

\* Faulty variant of Claimable: the age of the claim is not looked at.
ClaimableAtAnyAge(a) == status[a] \in {"uploaded", "processing"}

\* The WHERE clause of the claim: uploaded, or a claim older than five minutes.
Claimable(a) ==
    \/ status[a] = "uploaded"
    \/ status[a] = "processing" /\ stale[a]

\* A refused claim is not an error: the record is committed.
Claim(w) ==
    LET a == workerAsset[w] IN
    /\ workerAt[w] = "claim"
    /\ IF Claimable(a)
         THEN /\ status' = [status EXCEPT ![a] = "processing"]
              /\ stale' = [stale EXCEPT ![a] = FALSE]
              /\ ContinueWorker(w, "process")
         ELSE /\ UNCHANGED <<status, stale>>
              /\ ContinueWorker(w, "commit")
    /\ UNCHANGED <<workerPut, variantRows, releaseRow, evidence, storeVars,
                   topicVars, requestVars, faults, historyVars>>

\* Faulty variant of ProcessOriginal: a failure is logged and swallowed.
ProcessOriginalSwallows(w) ==
    /\ workerAt[w] = "process"
    /\ \/ /\ object[workerAsset[w]][Original] = "ok"
          /\ ContinueWorker(w, "put")
       \/ ContinueWorker(w, "commit")
    /\ UNCHANGED <<workerPut, rowVars, storeVars, topicVars, requestVars, faults,
                   historyVars>>

\* Download with its size check, scan, probe and transcode. Any of them may
\* fail, or the two-minute timeout may end them.
ProcessOriginal(w) ==
    /\ workerAt[w] = "process"
    /\ \/ /\ object[workerAsset[w]][Original] = "ok"
          /\ ContinueWorker(w, "put")
       \/ ContinueWorker(w, "markFailed")
    /\ UNCHANGED <<workerPut, rowVars, storeVars, topicVars, requestVars, faults,
                   historyVars>>

\* One variant is stored under its deterministic key.
PutVariant(w) ==
    LET a == workerAsset[w] IN
    /\ workerAt[w] = "put"
    /\ \E k \in Kinds \ workerPut[w] :
        /\ object' = [object EXCEPT ![a][k] = "ok"]
        /\ workerPut' = [workerPut EXCEPT ![w] = @ \cup {k}]
        /\ ContinueWorker(w, IF workerPut[w] \cup {k} = Kinds THEN "complete" ELSE "put")
    /\ UNCHANGED <<rowVars, putUrl, topicVars, requestVars, faults, historyVars>>

\* The kind a put that ends with an error may have stored after all: the call
\* in flight when the store answers with an error, or not at all.
MaybeStored(w) ==
    {{}} \cup IF workerAt[w] = "put" THEN {{k} : k \in Kinds \ workerPut[w]} ELSE {}

\* The store after the deletions of erased and a put that stored the kinds in stored.
AfterAttempt(a, erased, stored) ==
    object' = [object EXCEPT ![a] =
                  [i \in Items |-> IF i \in erased THEN "none"
                                   ELSE IF i \in stored THEN "ok" ELSE @[i]]]

\* An attempt at a ends and the objects of the kinds in left stay in the store.
Leaves(a, left) ==
    uncleaned' = IF left = {} THEN uncleaned ELSE uncleaned \cup {a}

\* Faulty variants of PutFails: the error is lost after the cleanup, or there
\* is no cleanup.
PutFailsUnnoticed(w) ==
    /\ workerAt[w] = "put"
    /\ AfterAttempt(workerAsset[w], workerPut[w], {})
    /\ workerPut' = [workerPut EXCEPT ![w] = {}]
    /\ ContinueWorker(w, "complete")
    /\ UNCHANGED <<rowVars, putUrl, topicVars, requestVars, faults, historyVars>>

PutFailsWithoutCleanup(w) ==
    /\ workerAt[w] = "put"
    /\ workerPut' = [workerPut EXCEPT ![w] = {}]
    /\ ContinueWorker(w, "markFailed")
    /\ UNCHANGED <<rowVars, storeVars, topicVars, requestVars, faults, historyVars>>

\* A later variant cannot be opened or put: cleanup deletes those whose put
\* returned no error. It ignores its own errors, so some may stay, and it does
\* not know of the failing put, which may have stored its object all the same.
PutFails(w) ==
    LET a == workerAsset[w] IN
    /\ workerAt[w] = "put"
    /\ \E kept \in SUBSET workerPut[w], stored \in MaybeStored(w) :
        /\ IF kept \cup stored = {} THEN UNCHANGED faults ELSE Fault
        /\ AfterAttempt(a, workerPut[w] \ kept, stored)
        /\ Leaves(a, kept \cup stored)
    /\ workerPut' = [workerPut EXCEPT ![w] = {}]
    /\ ContinueWorker(w, "markFailed")
    /\ UNCHANGED <<rowVars, putUrl, topicVars, requestVars, unpublished, erasing>>

\* Faulty variant of CompleteProcessing: the variant rows are written outside
\* the transaction that checks the status.
CompleteProcessingInParts(w) ==
    LET a == workerAsset[w] IN
    /\ workerAt[w] = "complete"
    /\ variantRows' = [variantRows EXCEPT ![a] = @ \cup workerPut[w]]
    /\ IF status[a] = "processing"
         THEN /\ status' = [status EXCEPT ![a] = "ready"]
              /\ stale' = [stale EXCEPT ![a] = FALSE]
              /\ workerPut' = [workerPut EXCEPT ![w] = {}]
              /\ ContinueWorker(w, "announceReady")
              /\ uncleaned' = uncleaned \ {a}
              /\ UNCHANGED topicVars
         ELSE UNCHANGED <<status, stale>> /\ ReturnRecord(w) /\ Leaves(a, workerPut[w])
    /\ UNCHANGED <<releaseRow, evidence, storeVars, requestVars, faults, unpublished,
                   erasing>>

\* CompleteMediaAssetProcessing: variant rows and status in one transaction,
\* refused unless the asset is still processing. A refusal is an error, and the
\* variants stay in the store.
CompleteProcessing(w) ==
    LET a == workerAsset[w] IN
    /\ workerAt[w] = "complete"
    /\ IF status[a] = "processing"
         THEN /\ status' = [status EXCEPT ![a] = "ready"]
              /\ stale' = [stale EXCEPT ![a] = FALSE]
              /\ variantRows' = [variantRows EXCEPT ![a] = @ \cup workerPut[w]]
              /\ workerPut' = [workerPut EXCEPT ![w] = {}]
              /\ ContinueWorker(w, "announceReady")
              /\ uncleaned' = uncleaned \ {a}
              /\ UNCHANGED topicVars
         ELSE /\ UNCHANGED <<status, stale, variantRows>>
              /\ ReturnRecord(w)
              /\ Leaves(a, workerPut[w])
    /\ UNCHANGED <<releaseRow, evidence, storeVars, requestVars, faults, unpublished,
                   erasing>>

\* Faulty variant of MarkFailed: the UPDATE has no status in its WHERE clause.
MarkFailedUnconditionally(w) ==
    LET a == workerAsset[w] IN
    /\ workerAt[w] = "markFailed"
    /\ status' = [status EXCEPT ![a] = "failed"]
    /\ stale' = [stale EXCEPT ![a] = FALSE]
    /\ ContinueWorker(w, "announceFailed")
    /\ UNCHANGED <<workerPut, variantRows, releaseRow, evidence, storeVars,
                   topicVars, requestVars, faults, historyVars>>

\* MarkMediaAssetFailed: no row to update is not an error.
MarkFailed(w) ==
    LET a == workerAsset[w] IN
    /\ workerAt[w] = "markFailed"
    /\ IF status[a] = "processing"
         THEN /\ status' = [status EXCEPT ![a] = "failed"]
              /\ stale' = [stale EXCEPT ![a] = FALSE]
         ELSE UNCHANGED <<status, stale>>
    /\ ContinueWorker(w, "announceFailed")
    /\ UNCHANGED <<workerPut, variantRows, releaseRow, evidence, storeVars,
                   topicVars, requestVars, faults, historyVars>>

\* Faulty variant of Announce: the two topics are swapped.
AnnounceSwapped(w) ==
    /\ workerAt[w] \in {"announceReady", "announceFailed"}
    /\ announced' = [announced EXCEPT ![workerAsset[w]] =
          @ \cup {IF workerAt[w] = "announceReady" THEN "failed" ELSE "processed"}]
    /\ ContinueWorker(w, "commit")
    /\ UNCHANGED <<workerPut, rowVars, storeVars, queued, requestVars, faults,
                   historyVars>>

\* publish: media.processed.v1 or media.processing-failed.v1.
Announce(w) ==
    /\ workerAt[w] \in {"announceReady", "announceFailed"}
    /\ announced' = [announced EXCEPT ![workerAsset[w]] =
          @ \cup {IF workerAt[w] = "announceReady" THEN "processed" ELSE "failed"}]
    /\ ContinueWorker(w, "commit")
    /\ UNCHANGED <<workerPut, rowVars, storeVars, queued, requestVars, faults,
                   historyVars>>

\* A query, publication or commit fails, the process is killed, or it is asked
\* to stop; or the context was cancelled by another consumer, so the next call
\* fails. A cancelled handler that was storing variants still cleans up, with
\* the gap of PutFails; a killed one does not.
WorkerStops(w) ==
    LET a == workerAsset[w] IN
    /\ workerAt[w] # "idle"
    /\ \E erased \in SUBSET workerPut[w], stored \in MaybeStored(w) :
        /\ erased # {} => workerAt[w] = "put"
        /\ AfterAttempt(a, erased, stored)
        /\ Leaves(a, (workerPut[w] \ erased) \cup stored)
        /\ IF w \in cancelled /\ stored = {} /\ (workerAt[w] = "put" => erased = workerPut[w])
             THEN UNCHANGED faults ELSE Fault
    /\ ReturnRecord(w)
    /\ UNCHANGED <<rowVars, putUrl, requestVars, unpublished, erasing>>

\* Five minutes pass since the claim. A handler is bounded by its two-minute
\* timeout and ten seconds of cleanup: a timely one has finished by then.
ClaimAges(a) ==
    /\ status[a] = "processing"
    /\ ~stale[a]
    /\ TimelyWorkers => \A w \in Workers : ~HoldsClaim(w, a)
    /\ stale' = [stale EXCEPT ![a] = TRUE]
    /\ UNCHANGED <<status, variantRows, releaseRow, evidence, storeVars, topicVars,
                   workerVars, requestVars, faults, historyVars>>

\* The next call of a handler whose context is not cancelled.
WorkerStep(w) ==
    /\ w \notin cancelled
    /\ \/ Claim(w)
       \/ ProcessOriginal(w)
       \/ PutVariant(w)
       \/ PutFails(w)
       \/ CompleteProcessing(w)
       \/ MarkFailed(w)
       \/ Announce(w)
       \/ CommitRecord(w)

=============================================================================
