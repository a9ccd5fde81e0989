------------------------------ MODULE BatchReview -----------------------------
(***************************************************************************)
(* Batches of ready assets on their way through review into the catalog,   *)
(* and what buyers save from there: the handlers of batches.Service and    *)
(* collections.Service, which run concurrently in request slots. The       *)
(* batches and assets are those of one contributor, since no query relates *)
(* those of two.                                                           *)
(*                                                                         *)
(* A statement is one step, except the INSERT of AddMediaAssetToBatch: the *)
(* row it inserts is chosen by its snapshot, and another transaction may   *)
(* commit between the two. (The foreign keys compare ids only.)            *)
(***************************************************************************)
EXTENDS Naturals

CONSTANTS
    Assets,     \* media assets that have become ready
    Batches,    \* ids of media_batches rows
    Lists,      \* a buyer's favourites and collections
    Requests,   \* request slots of the API processes
    MaxFaults,  \* bound on handlers that are cut short
    None        \* no asset, batch, decision

ASSUME NoneIsNoRow == None \notin Assets \cup Batches
ASSUME FaultsAreBounded == MaxFaults \in Nat

Decisions == {"in_review", "approved", "rejected"}
Final == {"approved", "rejected"}

ASSUME NoneIsNoDecision == None \notin Decisions

VARIABLES
    deleted,       \* assets with deleted_at
    described,     \* assets with title, usage_type and keywords
    batchStatus,   \* "absent", or media_batches.status
    item,          \* media_batch_items: the batch an asset is in
    saved,         \* buyer_favourites, buyer_collection_items
    submissions,   \* batches in media.submitted-for-review.v1
    decisions,     \* batch and status of the events in media.review-completed.v1
    at, asset, batch, decision,   \* locals of the requests
    faults         \* handlers cut short so far

tableVars == <<deleted, described, batchStatus, item, saved>>
topicVars == <<submissions, decisions>>
requestVars == <<at, asset, batch, decision>>
vars == <<tableVars, topicVars, requestVars, faults>>

Steps == {"idle", "selectItem", "insertItem", "submitBatch", "recheckSubmission",
          "publishSubmission", "reviewBatch", "recheckReview", "publishReview"}

ItemsOf(b) == {a \in Assets : item[a] = b}

Init ==
    /\ deleted = {}
    /\ described = {}
    /\ batchStatus = [b \in Batches |-> "absent"]
    /\ item = [a \in Assets |-> None]
    /\ saved = [l \in Lists |-> {}]
    /\ submissions = {}
    /\ decisions = {}
    /\ at = [h \in Requests |-> "idle"]
    /\ asset = [h \in Requests |-> None]
    /\ batch = [h \in Requests |-> None]
    /\ decision = [h \in Requests |-> None]
    /\ faults = 0

Goto(h, step) ==
    /\ at' = [at EXCEPT ![h] = step]
    /\ UNCHANGED <<asset, batch, decision>>

\* The handler answers, with a result or an error.
End(h) ==
    /\ at' = [at EXCEPT ![h] = "idle"]
    /\ asset' = [asset EXCEPT ![h] = None]
    /\ batch' = [batch EXCEPT ![h] = None]
    /\ decision' = [decision EXCEPT ![h] = None]

\* A query or the publication fails, the client goes away or the process stops.
Abort(h) ==
    /\ at[h] # "idle"
    /\ faults < MaxFaults
    /\ faults' = faults + 1
    /\ End(h)
    /\ UNCHANGED <<tableVars, topicVars>>

-----------------------------------------------------------------------------
(* The contributor *)

CreateBatch(b) ==
    /\ batchStatus[b] = "absent"
    /\ batchStatus' = [batchStatus EXCEPT ![b] = "draft"]
    /\ UNCHANGED <<deleted, described, item, saved, topicVars, requestVars, faults>>

\* Only metadata with a title, a usage type and a keyword is accepted.
UpdateMetadata(a) ==
    /\ a \notin deleted
    /\ described' = described \cup {a}
    /\ UNCHANGED <<deleted, batchStatus, item, saved, topicVars, requestVars, faults>>

BeginAddItem(h, a, b) ==
    /\ at[h] = "idle"
    /\ at' = [at EXCEPT ![h] = "selectItem"]
    /\ asset' = [asset EXCEPT ![h] = a]
    /\ batch' = [batch EXCEPT ![h] = b]
    /\ UNCHANGED <<decision, tableVars, topicVars, faults>>

\* The INSERT selects from the draft batch and the asset as they are now. If
\* they do not match, a query tells whether the item is there already, which
\* decides the answer only.
SelectItem(h) ==
    /\ at[h] = "selectItem"
    /\ IF batchStatus[batch[h]] = "draft" /\ asset[h] \notin deleted
         THEN Goto(h, "insertItem")
         ELSE End(h)
    /\ UNCHANGED <<tableVars, topicVars, faults>>

\* It inserts and commits: an asset is in one batch, ON CONFLICT DO NOTHING.
InsertItem(h) ==
    /\ at[h] = "insertItem"
    /\ item' = IF item[asset[h]] = None THEN [item EXCEPT ![asset[h]] = batch[h]] ELSE item
    /\ End(h)
    /\ UNCHANGED <<deleted, described, batchStatus, saved, topicVars, faults>>

BeginSubmit(h, b) ==
    /\ at[h] = "idle"
    /\ at' = [at EXCEPT ![h] = "submitBatch"]
    /\ batch' = [batch EXCEPT ![h] = b]
    /\ UNCHANGED <<asset, decision, tableVars, topicVars, faults>>

Submittable(b) ==
    /\ batchStatus[b] = "draft"
    /\ ItemsOf(b) # {}
    /\ ItemsOf(b) \subseteq described

SubmitBatch(h) ==
    /\ at[h] = "submitBatch"
    /\ IF Submittable(batch[h])
         THEN /\ batchStatus' = [batchStatus EXCEPT ![batch[h]] = "submitted"]
              /\ Goto(h, "publishSubmission")
         ELSE /\ UNCHANGED batchStatus
              /\ Goto(h, "recheckSubmission")
    /\ UNCHANGED <<deleted, described, item, saved, topicVars, faults>>

\* Faulty variant of RecheckSubmission: a repeated submission is refused.
RecheckSubmissionRefuses(h) ==
    /\ at[h] = "recheckSubmission"
    /\ End(h)
    /\ UNCHANGED <<tableVars, topicVars, faults>>

\* A submission that was made before is published again.
RecheckSubmission(h) ==
    /\ at[h] = "recheckSubmission"
    /\ IF batchStatus[batch[h]] = "submitted" THEN Goto(h, "publishSubmission") ELSE End(h)
    /\ UNCHANGED <<tableVars, topicVars, faults>>

PublishSubmission(h) ==
    /\ at[h] = "publishSubmission"
    /\ submissions' = submissions \cup {batch[h]}
    /\ End(h)
    /\ UNCHANGED <<tableVars, decisions, faults>>

\* The deletion of an asset scrubs its metadata and removes its batch item. It
\* does not look at what buyers saved.
DeleteAsset(a) ==
    /\ a \notin deleted
    /\ deleted' = deleted \cup {a}
    /\ described' = described \ {a}
    /\ item' = [item EXCEPT ![a] = None]
    /\ UNCHANGED <<batchStatus, saved, topicVars, requestVars, faults>>

-----------------------------------------------------------------------------
(* The reviewer *)

BeginReview(h, b, s) ==
    /\ at[h] = "idle"
    /\ at' = [at EXCEPT ![h] = "reviewBatch"]
    /\ batch' = [batch EXCEPT ![h] = b]
    /\ decision' = [decision EXCEPT ![h] = s]
    /\ UNCHANGED <<asset, tableVars, topicVars, faults>>

\* Faulty variant of ReviewBatch: any submitted batch can be decided on.
ReviewBatchUnguarded(h) ==
    /\ at[h] = "reviewBatch"
    /\ IF batchStatus[batch[h]] \notin {"absent", "draft"}
         THEN /\ batchStatus' = [batchStatus EXCEPT ![batch[h]] = decision[h]]
              /\ Goto(h, "publishReview")
         ELSE /\ UNCHANGED batchStatus
              /\ Goto(h, "recheckReview")
    /\ UNCHANGED <<deleted, described, item, saved, topicVars, faults>>

ReviewBatch(h) ==
    /\ at[h] = "reviewBatch"
    /\ IF batchStatus[batch[h]] \in {"submitted", "in_review"}
         THEN /\ batchStatus' = [batchStatus EXCEPT ![batch[h]] = decision[h]]
              /\ Goto(h, "publishReview")
         ELSE /\ UNCHANGED batchStatus
              /\ Goto(h, "recheckReview")
    /\ UNCHANGED <<deleted, described, item, saved, topicVars, faults>>

\* Faulty variant of RecheckReview: a repeated decision is refused.
RecheckReviewRefuses(h) ==
    /\ at[h] = "recheckReview"
    /\ End(h)
    /\ UNCHANGED <<tableVars, topicVars, faults>>

\* The same decision is published again, another is refused.
RecheckReview(h) ==
    /\ at[h] = "recheckReview"
    /\ IF batchStatus[batch[h]] = decision[h] THEN Goto(h, "publishReview") ELSE End(h)
    /\ UNCHANGED <<tableVars, topicVars, faults>>

PublishReview(h) ==
    /\ at[h] = "publishReview"
    /\ decisions' = decisions \cup {<<batch[h], decision[h]>>}
    /\ End(h)
    /\ UNCHANGED <<tableVars, submissions, faults>>

-----------------------------------------------------------------------------
(* The buyer *)

\* What the catalog shows and a buyer may save.
Visible(a) ==
    /\ a \notin deleted
    /\ item[a] # None
    /\ batchStatus[item[a]] = "approved"

SaveToList(l, a) ==
    /\ Visible(a)
    /\ saved' = [saved EXCEPT ![l] = @ \cup {a}]
    /\ UNCHANGED <<deleted, described, batchStatus, item, topicVars, requestVars, faults>>

RemoveFromList(l, a) ==
    /\ a \in saved[l]
    /\ saved' = [saved EXCEPT ![l] = @ \ {a}]
    /\ UNCHANGED <<deleted, described, batchStatus, item, topicVars, requestVars, faults>>

-----------------------------------------------------------------------------
HandlerStep(h) ==
    \/ SelectItem(h) \/ InsertItem(h)
    \/ SubmitBatch(h) \/ RecheckSubmission(h) \/ PublishSubmission(h)
    \/ ReviewBatch(h) \/ RecheckReview(h) \/ PublishReview(h)

Next ==
    \/ \E h \in Requests :
        \/ \E a \in Assets, b \in Batches : BeginAddItem(h, a, b)
        \/ \E b \in Batches : BeginSubmit(h, b)
        \/ \E b \in Batches, s \in Decisions : BeginReview(h, b, s)
        \/ HandlerStep(h) \/ Abort(h)
    \/ \E b \in Batches : CreateBatch(b)
    \/ \E a \in Assets : UpdateMetadata(a) \/ DeleteAsset(a)
    \/ \E l \in Lists, a \in Assets : SaveToList(l, a) \/ RemoveFromList(l, a)

Spec == Init /\ [][Next]_vars

\* Whoever got no answer to a submission or a decision that stands repeats it.
SubmitAgain(b) ==
    /\ batchStatus[b] = "submitted" /\ b \notin submissions
    /\ \E h \in Requests : BeginSubmit(h, b)

DecideAgain(b) ==
    /\ batchStatus[b] \in Final /\ <<b, batchStatus[b]>> \notin decisions
    /\ \E h \in Requests : BeginReview(h, b, batchStatus[b])

RepeatingSpec ==
    /\ Spec
    /\ \A h \in Requests : WF_vars(HandlerStep(h))
    /\ \A b \in Batches : SF_vars(SubmitAgain(b)) /\ SF_vars(DecideAgain(b))

-----------------------------------------------------------------------------
(* Properties *)

TableTypes ==
    /\ deleted \in SUBSET Assets
    /\ described \in SUBSET Assets
    /\ batchStatus \in [Batches -> {"absent", "draft", "submitted"} \cup Decisions]
    /\ item \in [Assets -> Batches \cup {None}]
    /\ saved \in [Lists -> SUBSET Assets]
    /\ submissions \in SUBSET Batches
    /\ decisions \in SUBSET (Batches \X Decisions)
    /\ faults \in 0 .. MaxFaults

RequestTypes ==
    /\ at \in [Requests -> Steps]
    /\ asset \in [Requests -> Assets \cup {None}]
    /\ batch \in [Requests -> Batches \cup {None}]
    /\ decision \in [Requests -> Decisions \cup {None}]

\* What a request holds at its steps.
RequestLocals ==
    \A h \in Requests :
        /\ at[h] # "idle" => batch[h] \in Batches
        /\ at[h] \in {"selectItem", "insertItem"} => asset[h] \in Assets
        /\ at[h] \in {"reviewBatch", "recheckReview", "publishReview"} => decision[h] \in Decisions
        /\ at[h] \in {"insertItem", "publishSubmission", "publishReview"} =>
              batchStatus[batch[h]] # "absent"

\* Every variable holds a value of its kind, and a handler about to take a step
\* holds what the step needs: one that writes or publishes about a batch has
\* found its row.
TypeOK == TableTypes /\ RequestTypes /\ RequestLocals

\* The topics tell the truth, whatever submissions and decisions are repeated
\* or made at once: an announced batch was submitted, and a decision that was
\* announced as final is the one that stands.
AnnouncementsHold ==
    /\ \A b \in submissions : batchStatus[b] \notin {"absent", "draft"}
    /\ \A d \in decisions : IF d[2] \in Final THEN batchStatus[d[1]] = d[2]
                                              ELSE batchStatus[d[1]] \in Decisions

\* What buyers save stays in the catalog until it is deleted: an approval is
\* not taken back and an asset does not leave its batch.
SavedStaysVisible ==
    \A l \in Lists : \A a \in saved[l] : Visible(a) \/ a \in deleted

\* A contributor who repeats an interrupted submission gets it announced,
\* unless a reviewer takes it up before.
SubmissionIsAnnounced ==
    \A b \in Batches :
        (batchStatus[b] = "submitted") ~> (b \in submissions \/ batchStatus[b] # "submitted")

\* A reviewer who repeats an interrupted decision gets it announced.
DecisionIsAnnounced ==
    \A b \in Batches, s \in Final : (batchStatus[b] = s) ~> (<<b, s>> \in decisions)

=============================================================================
