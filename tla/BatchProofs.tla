----------------------------- MODULE BatchProofs ------------------------------
(***************************************************************************)
(* Proofs about BatchReview for every set of assets, batches, lists and    *)
(* requests.                                                               *)
(***************************************************************************)
EXTENDS BatchReview, TLAPS

-----------------------------------------------------------------------------
(* A batch advances, and a decision about it is final *)

Advances(b) ==
    \/ batchStatus'[b] = batchStatus[b]
    \/ batchStatus[b] = "absent" /\ batchStatus'[b] = "draft"
    \/ batchStatus[b] = "draft" /\ batchStatus'[b] = "submitted"
    \/ batchStatus[b] \in {"submitted", "in_review"} /\ batchStatus'[b] \in Decisions

\* No step takes a batch back.
LEMMA BatchesAdvance == TypeOK /\ [Next]_vars => \A b \in Batches : Advances(b)
  <1> SUFFICES ASSUME TypeOK, [Next]_vars, NEW b \in Batches PROVE Advances(b)
    OBVIOUS
  <1>1. CASE UNCHANGED batchStatus
    BY <1>1 DEF Advances
  <1>2. ASSUME NEW c \in Batches, CreateBatch(c) PROVE Advances(b)
    BY <1>2 DEF CreateBatch, Advances, TypeOK, TableTypes
  <1>3. ASSUME NEW h \in Requests, SubmitBatch(h) PROVE Advances(b)
    BY <1>3 DEF SubmitBatch, Submittable, Advances, TypeOK, TableTypes
  <1>4. ASSUME NEW h \in Requests, ReviewBatch(h) PROVE Advances(b)
    <2>1. decision[h] \in Decisions
      BY <1>4 DEF ReviewBatch, TypeOK, RequestLocals
    <2>2. QED
      BY <1>4, <2>1 DEF ReviewBatch, Advances, TypeOK, TableTypes
  <1>5. ASSUME NEW h \in Requests,
               \/ SelectItem(h) \/ InsertItem(h) \/ RecheckSubmission(h) \/ PublishSubmission(h)
               \/ RecheckReview(h) \/ PublishReview(h) \/ Abort(h)
               \/ \E a \in Assets, c \in Batches : BeginAddItem(h, a, c)
               \/ \E c \in Batches : BeginSubmit(h, c)
               \/ \E c \in Batches, s \in Decisions : BeginReview(h, c, s)
        PROVE  UNCHANGED batchStatus
    BY <1>5 DEF SelectItem, InsertItem, RecheckSubmission, PublishSubmission, RecheckReview,
                PublishReview, Abort, BeginAddItem, BeginSubmit, BeginReview, tableVars
  <1>6. ASSUME NEW a \in Assets,
               \/ UpdateMetadata(a) \/ DeleteAsset(a)
               \/ \E l \in Lists : SaveToList(l, a) \/ RemoveFromList(l, a)
        PROVE  UNCHANGED batchStatus
    BY <1>6 DEF UpdateMetadata, DeleteAsset, SaveToList, RemoveFromList
  <1>7. UNCHANGED vars => UNCHANGED batchStatus
    BY DEF vars, tableVars
  <1>8. QED
    BY <1>1, <1>2, <1>3, <1>4, <1>5, <1>6, <1>7 DEF Next, HandlerStep

\* A batch that was submitted stays so, a decided one stays decided, and a final
\* decision is not changed.
LEMMA DecisionsStand ==
  ASSUME NEW b, Advances(b)
  PROVE  /\ batchStatus[b] \notin {"absent", "draft"} => batchStatus'[b] \notin {"absent", "draft"}
         /\ batchStatus[b] \in Decisions => batchStatus'[b] \in Decisions
         /\ batchStatus[b] \in Final => batchStatus'[b] = batchStatus[b]
  BY DEF Advances, Decisions, Final

-----------------------------------------------------------------------------
(* Types *)

\* The initial state has its types.
LEMMA TypeInit == Init => TypeOK
  BY FaultsAreBounded DEF Init, TypeOK, TableTypes, RequestTypes, RequestLocals, Steps

RequestOK == RequestTypes /\ RequestLocals

\* Batch rows are not deleted.
RowsStay == \A b \in Batches : batchStatus[b] # "absent" => batchStatus'[b] # "absent"

\* A request slot that ends is free again.
LEMMA EndOK ==
  ASSUME RequestOK, NEW h \in Requests, End(h), RowsStay
  PROVE  RequestOK'
  BY DEF End, RowsStay, RequestOK, RequestTypes, RequestLocals, Steps

\* A request that goes on keeps its inputs.
LEMMA GotoOK ==
  ASSUME RequestOK, NEW h \in Requests, NEW step \in Steps, Goto(h, step),
         RowsStay, at[h] # "idle",
         step \in {"insertItem", "publishSubmission", "publishReview"} =>
             batchStatus'[batch[h]] # "absent",
         step \in {"selectItem", "insertItem"} => asset[h] \in Assets,
         step \in {"reviewBatch", "recheckReview", "publishReview"} => decision[h] \in Decisions
  PROVE  RequestOK'
  BY DEF Goto, RowsStay, RequestOK, RequestTypes, RequestLocals, Steps

\* Every step keeps the types.
LEMMA TypeStep == TypeOK /\ [Next]_vars => TypeOK'
  <1> SUFFICES ASSUME TypeOK, [Next]_vars PROVE TypeOK'
    OBVIOUS
  <1>parts. TableTypes /\ RequestOK
    BY DEF TypeOK, RequestOK
  <1>rows. RowsStay
    BY BatchesAdvance DEF RowsStay, Advances, Decisions
  <1> USE <1>parts, <1>rows
  <1>frame. /\ UNCHANGED <<tableVars, topicVars, faults>> => TableTypes'
            /\ UNCHANGED requestVars => RequestOK'
            /\ TableTypes' /\ RequestOK' => TypeOK'
    BY DEF TableTypes, RequestOK, RequestTypes, RequestLocals, tableVars, topicVars, requestVars,
           TypeOK, RowsStay
  <1>1. ASSUME NEW h \in Requests, NEW a \in Assets, NEW b \in Batches, BeginAddItem(h, a, b)
        PROVE  TypeOK'
    <2>1. RequestOK'
      BY <1>1 DEF BeginAddItem, RequestOK, RequestTypes, RequestLocals, Steps, tableVars
    <2>2. QED
      BY <1>1, <2>1, <1>frame DEF BeginAddItem
  <1>2. ASSUME NEW h \in Requests, NEW b \in Batches, BeginSubmit(h, b) PROVE TypeOK'
    <2>1. RequestOK'
      BY <1>2 DEF BeginSubmit, RequestOK, RequestTypes, RequestLocals, Steps, tableVars
    <2>2. QED
      BY <1>2, <2>1, <1>frame DEF BeginSubmit
  <1>3. ASSUME NEW h \in Requests, NEW b \in Batches, NEW s \in Decisions, BeginReview(h, b, s)
        PROVE  TypeOK'
    <2>1. RequestOK'
      BY <1>3 DEF BeginReview, RequestOK, RequestTypes, RequestLocals, Steps, tableVars
    <2>2. QED
      BY <1>3, <2>1, <1>frame DEF BeginReview
  <1>4. ASSUME NEW h \in Requests, SelectItem(h) PROVE TypeOK'
    <2>1. asset[h] \in Assets /\ at[h] # "idle"
      BY <1>4 DEF SelectItem, RequestOK, RequestLocals
    <2>2. RequestOK'
      BY <1>4, <2>1, EndOK, GotoOK DEF SelectItem, Steps, tableVars
    <2>3. QED
      BY <1>4, <2>2, <1>frame DEF SelectItem
  <1>5. ASSUME NEW h \in Requests, InsertItem(h) PROVE TypeOK'
    <2>1. asset[h] \in Assets /\ batch[h] \in Batches
      BY <1>5 DEF InsertItem, RequestOK, RequestLocals
    <2>2. TableTypes'
      BY <1>5, <2>1 DEF InsertItem, TableTypes, topicVars
    <2>3. QED
      BY <1>5, <2>2, <1>frame, EndOK DEF InsertItem
  <1>6. ASSUME NEW h \in Requests, SubmitBatch(h) PROVE TypeOK'
    <2>1. TableTypes'
      BY <1>6 DEF SubmitBatch, TableTypes, topicVars
    <2>2. RequestOK'
      <3>1. batch[h] \in Batches /\ at[h] # "idle"
        BY <1>6 DEF SubmitBatch, RequestOK, RequestLocals
      <3>2. CASE Submittable(batch[h])
        <4>1. batchStatus'[batch[h]] = "submitted" /\ Goto(h, "publishSubmission")
          BY <1>6, <3>1, <3>2 DEF SubmitBatch, TableTypes
        <4>2. QED
          BY <3>1, <4>1, GotoOK DEF Steps
      <3>3. CASE ~Submittable(batch[h])
        BY <1>6, <3>1, <3>3, GotoOK DEF SubmitBatch, Steps
      <3>4. QED
        BY <3>2, <3>3
    <2>3. QED
      BY <2>1, <2>2, <1>frame
  <1>7. ASSUME NEW h \in Requests, RecheckSubmission(h) PROVE TypeOK'
    <2>1. RequestOK'
      BY <1>7, GotoOK, EndOK DEF RecheckSubmission, Steps, tableVars
    <2>2. QED
      BY <1>7, <2>1, <1>frame DEF RecheckSubmission
  <1>8. ASSUME NEW h \in Requests, PublishSubmission(h) PROVE TypeOK'
    <2>1. batch[h] \in Batches
      BY <1>8 DEF PublishSubmission, RequestOK, RequestLocals
    <2>2. TableTypes'
      BY <1>8, <2>1 DEF PublishSubmission, TableTypes, tableVars
    <2>3. QED
      BY <1>8, <2>2, <1>frame, EndOK DEF PublishSubmission
  <1>9. ASSUME NEW h \in Requests, ReviewBatch(h) PROVE TypeOK'
    <2>1. decision[h] \in Decisions /\ at[h] # "idle"
      BY <1>9 DEF ReviewBatch, RequestOK, RequestLocals
    <2>2. TableTypes'
      BY <1>9, <2>1 DEF ReviewBatch, TableTypes, topicVars
    <2>3. RequestOK'
      <3>1. batch[h] \in Batches
        BY <1>9 DEF ReviewBatch, RequestOK, RequestLocals
      <3>2. CASE batchStatus[batch[h]] \in {"submitted", "in_review"}
        <4>1. batchStatus'[batch[h]] # "absent" /\ Goto(h, "publishReview")
          BY <1>9, <2>1, <3>1, <3>2 DEF ReviewBatch, TableTypes, Decisions
        <4>2. QED
          BY <2>1, <4>1, GotoOK DEF Steps
      <3>3. CASE batchStatus[batch[h]] \notin {"submitted", "in_review"}
        BY <1>9, <2>1, <3>3, GotoOK DEF ReviewBatch, Steps
      <3>4. QED
        BY <3>2, <3>3
    <2>4. QED
      BY <2>2, <2>3, <1>frame
  <1>10. ASSUME NEW h \in Requests, RecheckReview(h) PROVE TypeOK'
    <2>1. decision[h] \in Decisions /\ at[h] # "idle"
      BY <1>10 DEF RecheckReview, RequestOK, RequestLocals
    <2>2. RequestOK'
      <3>1. CASE batchStatus[batch[h]] = decision[h]
        <4>1. batchStatus'[batch[h]] # "absent" /\ Goto(h, "publishReview")
          BY <1>10, <2>1, <3>1 DEF RecheckReview, tableVars, Decisions
        <4>2. QED
          BY <2>1, <4>1, GotoOK DEF Steps
      <3>2. CASE batchStatus[batch[h]] # decision[h]
        BY <1>10, <3>2, EndOK DEF RecheckReview
      <3>3. QED
        BY <3>1, <3>2
    <2>3. QED
      BY <1>10, <2>2, <1>frame DEF RecheckReview
  <1>11. ASSUME NEW h \in Requests, PublishReview(h) PROVE TypeOK'
    <2>1. batch[h] \in Batches /\ decision[h] \in Decisions
      BY <1>11 DEF PublishReview, RequestOK, RequestLocals
    <2>2. TableTypes'
      BY <1>11, <2>1 DEF PublishReview, TableTypes, tableVars
    <2>3. QED
      BY <1>11, <2>2, <1>frame, EndOK DEF PublishReview
  <1>12. ASSUME NEW h \in Requests, Abort(h) PROVE TypeOK'
    <2>1. TableTypes'
      BY <1>12, FaultsAreBounded DEF Abort, TableTypes, tableVars, topicVars
    <2>2. QED
      BY <1>12, <2>1, <1>frame, EndOK DEF Abort
  <1>13. ASSUME NEW b \in Batches, CreateBatch(b) PROVE TypeOK'
    <2>1. TableTypes'
      BY <1>13 DEF CreateBatch, TableTypes, topicVars
    <2>2. QED
      BY <1>13, <2>1, <1>frame DEF CreateBatch
  <1>14. ASSUME NEW a \in Assets, UpdateMetadata(a) \/ DeleteAsset(a) PROVE TypeOK'
    <2>1. TableTypes'
      BY <1>14 DEF UpdateMetadata, DeleteAsset, TableTypes, topicVars
    <2>2. QED
      BY <1>14, <2>1, <1>frame DEF UpdateMetadata, DeleteAsset
  <1>15. ASSUME NEW l \in Lists, NEW a \in Assets, SaveToList(l, a) \/ RemoveFromList(l, a)
         PROVE  TypeOK'
    <2>1. TableTypes'
      BY <1>15 DEF SaveToList, RemoveFromList, TableTypes, topicVars
    <2>2. QED
      BY <1>15, <2>1, <1>frame DEF SaveToList, RemoveFromList
  <1>16. CASE UNCHANGED vars
    BY <1>16, <1>frame DEF vars
  <1>17. QED
    BY <1>1, <1>2, <1>3, <1>4, <1>5, <1>6, <1>7, <1>8, <1>9, <1>10, <1>11, <1>12, <1>13, <1>14,
       <1>15, <1>16 DEF Next, HandlerStep

\* Every variable holds a value of its kind, and no handler takes a step
\* without the rows the step needs.
THEOREM BatchTypes == Spec => []TypeOK
  BY TypeInit, TypeStep, PTL DEF Spec

-----------------------------------------------------------------------------
(* Announcements *)

SubmissionHolds(b) == batchStatus[b] \notin {"absent", "draft"}

DecisionHolds(b, s) ==
    IF s \in Final THEN batchStatus[b] = s ELSE batchStatus[b] \in Decisions

\* What a handler is about to publish is true and stays so.
PublishersHold ==
    \A h \in Requests :
        /\ at[h] = "publishSubmission" => SubmissionHolds(batch[h])
        /\ at[h] = "publishReview" => DecisionHolds(batch[h], decision[h])

AnnouncementInv == PublishersHold /\ AnnouncementsHold

\* At first nothing was announced.
LEMMA AnnouncementInit == Init => AnnouncementInv
  BY DEF Init, AnnouncementInv, PublishersHold, AnnouncementsHold

\* Every step keeps what announcements say true.
LEMMA AnnouncementStep == TypeOK /\ AnnouncementInv /\ [Next]_vars => AnnouncementInv'
  <1> SUFFICES ASSUME TypeOK, AnnouncementInv, [Next]_vars PROVE AnnouncementInv'
    OBVIOUS
  <1>adv. \A b \in Batches : Advances(b)
    BY BatchesAdvance
  <1>types. TypeOK'
    BY TypeStep
  \* The handlers that publish next had this step before, or have just read or
  \* written the status.
  <1>1. PublishersHold'
    <2> SUFFICES ASSUME NEW g \in Requests
                 PROVE  /\ at'[g] = "publishSubmission" => SubmissionHolds(batch[g])'
                        /\ at'[g] = "publishReview" => DecisionHolds(batch[g], decision[g])'
      BY DEF PublishersHold
    <2>kept. CASE at'[g] = at[g] /\ batch'[g] = batch[g] /\ decision'[g] = decision[g]
      <3>1. at[g] # "idle" => Advances(batch[g])
        BY <1>adv DEF TypeOK, RequestLocals
      <3>2. at[g] = "publishSubmission" => SubmissionHolds(batch[g])
        BY DEF AnnouncementInv, PublishersHold
      <3>3. at[g] = "publishReview" => DecisionHolds(batch[g], decision[g])
        BY DEF AnnouncementInv, PublishersHold
      <3>4. at[g] = "publishSubmission" => batchStatus'[batch[g]] \notin {"absent", "draft"}
        BY <3>1, <3>2, DecisionsStand DEF SubmissionHolds
      <3>5. at[g] = "publishReview" =>
              IF decision[g] \in Final THEN batchStatus'[batch[g]] = decision[g]
                                       ELSE batchStatus'[batch[g]] \in Decisions
        BY <3>1, <3>3, DecisionsStand DEF DecisionHolds
      <3>6. QED
        BY <2>kept, <3>4, <3>5 DEF SubmissionHolds, DecisionHolds
    <2>quiet. CASE at'[g] \notin {"publishSubmission", "publishReview"}
      BY <2>quiet
    <2>1. ASSUME NEW h \in Requests, SubmitBatch(h) \/ RecheckSubmission(h)
          PROVE  g # h \/ at'[g] # "publishSubmission" \/ SubmissionHolds(batch[g])'
      BY <2>1 DEF SubmitBatch, RecheckSubmission, Goto, End, tableVars, SubmissionHolds, TypeOK,
                  TableTypes, RequestTypes, RequestLocals
    <2>2. ASSUME NEW h \in Requests, ReviewBatch(h) \/ RecheckReview(h)
          PROVE  g # h \/ at'[g] # "publishReview" \/ DecisionHolds(batch[g], decision[g])'
      BY <2>2 DEF ReviewBatch, RecheckReview, Goto, End, tableVars, DecisionHolds, TypeOK,
                  TableTypes, RequestTypes, RequestLocals, Final, Decisions
    <2>3. ASSUME NEW h \in Requests,
                 SubmitBatch(h) \/ RecheckSubmission(h) \/ ReviewBatch(h) \/ RecheckReview(h)
          PROVE  g # h => /\ at'[g] = at[g]
                          /\ batch'[g] = batch[g]
                          /\ decision'[g] = decision[g]
      BY <2>3 DEF SubmitBatch, RecheckSubmission, ReviewBatch, RecheckReview, Goto, End, TypeOK,
                  RequestTypes
    <2>4. ASSUME NEW h \in Requests,
                 \/ SelectItem(h) \/ InsertItem(h) \/ PublishSubmission(h) \/ PublishReview(h)
                 \/ Abort(h)
                 \/ \E a \in Assets, c \in Batches : BeginAddItem(h, a, c)
                 \/ \E c \in Batches : BeginSubmit(h, c)
                 \/ \E c \in Batches, s \in Decisions : BeginReview(h, c, s)
          PROVE  \/ at'[g] \notin {"publishSubmission", "publishReview"}
                 \/ at'[g] = at[g] /\ batch'[g] = batch[g] /\ decision'[g] = decision[g]
      BY <2>4 DEF SelectItem, InsertItem, PublishSubmission, PublishReview, Abort, BeginAddItem,
                  BeginSubmit, BeginReview, Goto, End, TypeOK, RequestTypes
    <2>5. ASSUME UNCHANGED requestVars
          PROVE  at'[g] = at[g] /\ batch'[g] = batch[g] /\ decision'[g] = decision[g]
      BY <2>5 DEF requestVars
    <2>6. ASSUME NEW h \in Requests, SubmitBatch(h) \/ RecheckSubmission(h)
          PROVE  g # h \/ at'[g] # "publishReview"
      BY <2>6 DEF SubmitBatch, RecheckSubmission, Goto, End, TypeOK, RequestTypes
    <2>7. ASSUME NEW h \in Requests, ReviewBatch(h) \/ RecheckReview(h)
          PROVE  g # h \/ at'[g] # "publishSubmission"
      BY <2>7 DEF ReviewBatch, RecheckReview, Goto, End, TypeOK, RequestTypes
    <2>8. \/ \E b \in Batches : CreateBatch(b)
          \/ \E a \in Assets : UpdateMetadata(a) \/ DeleteAsset(a)
          \/ \E l \in Lists, a \in Assets : SaveToList(l, a) \/ RemoveFromList(l, a)
          \/ UNCHANGED vars
          => UNCHANGED requestVars
      BY DEF CreateBatch, UpdateMetadata, DeleteAsset, SaveToList, RemoveFromList, vars
    <2>9. QED
      BY <2>kept, <2>quiet, <2>1, <2>2, <2>3, <2>4, <2>5, <2>6, <2>7, <2>8 DEF Next, HandlerStep
  \* Old announcements stay true, a new one is true already.
  <1>2. AnnouncementsHold'
    <2>1. /\ \A b \in submissions : SubmissionHolds(b)'
          /\ \A d \in decisions : DecisionHolds(d[1], d[2])'
      <3>1. ASSUME NEW b \in submissions PROVE SubmissionHolds(b)'
        <4>1. b \in Batches /\ batchStatus[b] \notin {"absent", "draft"}
          BY DEF AnnouncementInv, AnnouncementsHold, TypeOK, TableTypes
        <4>2. batchStatus'[b] \notin {"absent", "draft"}
          BY <1>adv, <4>1, DecisionsStand
        <4>3. QED
          BY <4>2 DEF SubmissionHolds
      <3>2. ASSUME NEW d \in decisions PROVE DecisionHolds(d[1], d[2])'
        <4>1. /\ d[1] \in Batches
              /\ IF d[2] \in Final THEN batchStatus[d[1]] = d[2]
                                   ELSE batchStatus[d[1]] \in Decisions
          BY DEF AnnouncementInv, AnnouncementsHold, TypeOK, TableTypes
        <4>2. IF d[2] \in Final THEN batchStatus'[d[1]] = d[2]
                                ELSE batchStatus'[d[1]] \in Decisions
          BY <1>adv, <4>1, DecisionsStand
        <4>3. QED
          BY <4>2 DEF DecisionHolds
      <3>3. QED
        BY <3>1, <3>2
    <2>2. CASE UNCHANGED topicVars
      BY <2>1, <2>2 DEF AnnouncementsHold, SubmissionHolds, DecisionHolds, topicVars
    <2>3. ASSUME NEW h \in Requests, PublishSubmission(h) PROVE AnnouncementsHold'
      <3>1. SubmissionHolds(batch[h])
        BY <2>3 DEF PublishSubmission, AnnouncementInv, PublishersHold
      <3>2. /\ submissions' = submissions \cup {batch[h]}
            /\ decisions' = decisions
            /\ batchStatus' = batchStatus
        BY <2>3 DEF PublishSubmission, tableVars
      <3>3. QED
        BY <2>1, <3>1, <3>2 DEF AnnouncementsHold, SubmissionHolds, DecisionHolds
    <2>4. ASSUME NEW h \in Requests, PublishReview(h) PROVE AnnouncementsHold'
      <3>1. DecisionHolds(batch[h], decision[h])
        BY <2>4 DEF PublishReview, AnnouncementInv, PublishersHold
      <3>2. /\ decisions' = decisions \cup {<<batch[h], decision[h]>>}
            /\ submissions' = submissions
            /\ batchStatus' = batchStatus
        BY <2>4 DEF PublishReview, tableVars
      <3>3. QED
        BY <2>1, <3>1, <3>2 DEF AnnouncementsHold, SubmissionHolds, DecisionHolds
    <2>5. ASSUME NEW h \in Requests,
                 \/ SelectItem(h) \/ InsertItem(h) \/ SubmitBatch(h) \/ RecheckSubmission(h)
                 \/ ReviewBatch(h) \/ RecheckReview(h) \/ Abort(h)
                 \/ \E a \in Assets, c \in Batches : BeginAddItem(h, a, c)
                 \/ \E c \in Batches : BeginSubmit(h, c)
                 \/ \E c \in Batches, s \in Decisions : BeginReview(h, c, s)
          PROVE  UNCHANGED topicVars
      BY <2>5 DEF SelectItem, InsertItem, SubmitBatch, RecheckSubmission, ReviewBatch,
                  RecheckReview, Abort, BeginAddItem, BeginSubmit, BeginReview
    <2>6. \/ \E b \in Batches : CreateBatch(b)
          \/ \E a \in Assets : UpdateMetadata(a) \/ DeleteAsset(a)
          \/ \E l \in Lists, a \in Assets : SaveToList(l, a) \/ RemoveFromList(l, a)
          \/ UNCHANGED vars
          => UNCHANGED topicVars
      BY DEF CreateBatch, UpdateMetadata, DeleteAsset, SaveToList, RemoveFromList, vars
    <2>7. QED
      BY <2>2, <2>3, <2>4, <2>5, <2>6 DEF Next, HandlerStep
  <1>3. QED
    BY <1>1, <1>2 DEF AnnouncementInv

\* What the topics say of a batch is true, and the final decision they
\* announce is the one that stands.
THEOREM AnnouncementsAreTrue == Spec => []AnnouncementsHold
  <1>1. AnnouncementInv => AnnouncementsHold
    BY DEF AnnouncementInv
  <1>2. QED
    BY <1>1, TypeInit, TypeStep, AnnouncementInit, AnnouncementStep, PTL DEF Spec

-----------------------------------------------------------------------------
(* Saved assets *)

\* At first nothing is saved.
LEMMA SavedInit == Init => SavedStaysVisible
  BY DEF Init, SavedStaysVisible

\* An asset leaves its batch only by its deletion, and the catalog with it.
LEMMA VisibleUntilDeleted ==
  ASSUME TypeOK, [Next]_vars, NEW a \in Assets
  PROVE  /\ Visible(a) => Visible(a)' \/ a \in deleted'
         /\ a \in deleted => a \in deleted'
  <1>1. ASSUME Visible(a) PROVE batchStatus'[item[a]] = "approved"
    <2>1. item[a] \in Batches
      BY <1>1 DEF Visible, TypeOK, TableTypes
    <2>2. QED
      BY <1>1, <2>1, BatchesAdvance DEF Visible, Advances
  <1>2. CASE UNCHANGED <<deleted, item>>
    BY <1>1, <1>2 DEF Visible
  <1>3. ASSUME NEW h \in Requests, InsertItem(h)
        PROVE  UNCHANGED deleted /\ (Visible(a) => item'[a] = item[a])
    BY <1>3 DEF InsertItem, Visible, TypeOK, TableTypes, RequestLocals
  <1>4. ASSUME NEW b \in Assets, DeleteAsset(b)
        PROVE  /\ deleted' = deleted \cup {b}
               /\ b = a \/ item'[a] = item[a]
    BY <1>4 DEF DeleteAsset, TypeOK, TableTypes
  <1>5. ASSUME NEW h \in Requests,
               \/ SelectItem(h) \/ SubmitBatch(h) \/ RecheckSubmission(h) \/ PublishSubmission(h)
               \/ ReviewBatch(h) \/ RecheckReview(h) \/ PublishReview(h) \/ Abort(h)
               \/ \E b \in Assets, c \in Batches : BeginAddItem(h, b, c)
               \/ \E c \in Batches : BeginSubmit(h, c)
               \/ \E c \in Batches, s \in Decisions : BeginReview(h, c, s)
        PROVE  UNCHANGED <<deleted, item>>
    BY <1>5 DEF SelectItem, SubmitBatch, RecheckSubmission, PublishSubmission, ReviewBatch,
                RecheckReview, PublishReview, Abort, BeginAddItem, BeginSubmit, BeginReview,
                tableVars
  <1>6. \/ \E b \in Batches : CreateBatch(b)
        \/ \E b \in Assets : UpdateMetadata(b)
        \/ \E l \in Lists, b \in Assets : SaveToList(l, b) \/ RemoveFromList(l, b)
        \/ UNCHANGED vars
        => UNCHANGED <<deleted, item>>
    BY DEF CreateBatch, UpdateMetadata, SaveToList, RemoveFromList, vars, tableVars
  <1>7. ASSUME NEW h \in Requests, InsertItem(h) PROVE Visible(a) => Visible(a)'
    BY <1>1, <1>3, <1>7 DEF Visible
  <1>8. ASSUME NEW b \in Assets, DeleteAsset(b) PROVE Visible(a) => Visible(a)' \/ a \in deleted'
    BY <1>1, <1>4, <1>8 DEF Visible
  <1>9. QED
    BY <1>2, <1>3, <1>4, <1>5, <1>6, <1>7, <1>8 DEF Next, HandlerStep

\* Every step keeps what is saved visible.
LEMMA SavedStep == TypeOK /\ SavedStaysVisible /\ [Next]_vars => SavedStaysVisible'
  <1> SUFFICES ASSUME TypeOK, SavedStaysVisible, [Next]_vars,
                      NEW l \in Lists, NEW a \in saved'[l]
               PROVE  Visible(a)' \/ a \in deleted'
    BY DEF SavedStaysVisible, Visible
  <1>1. CASE a \in saved[l]
    <2>1. a \in Assets
      BY <1>1 DEF TypeOK, TableTypes
    <2>2. Visible(a) \/ a \in deleted
      BY <1>1 DEF SavedStaysVisible
    <2>3. QED
      BY <2>1, <2>2, VisibleUntilDeleted
  <1>2. ASSUME NEW m \in Lists, NEW b \in Assets, SaveToList(m, b), a \notin saved[l]
        PROVE  a = b
    BY <1>2 DEF SaveToList, TypeOK, TableTypes
  <1>3. ASSUME NEW m \in Lists, NEW b \in Assets, SaveToList(m, b) PROVE Visible(b)'
    BY <1>3 DEF SaveToList, Visible
  <1>4. ASSUME NEW m \in Lists, NEW b \in Assets, RemoveFromList(m, b) PROVE a \in saved[l]
    BY <1>4 DEF RemoveFromList, TypeOK, TableTypes
  <1>5. ASSUME NEW h \in Requests,
               \/ HandlerStep(h) \/ Abort(h)
               \/ \E b \in Assets, c \in Batches : BeginAddItem(h, b, c)
               \/ \E c \in Batches : BeginSubmit(h, c)
               \/ \E c \in Batches, s \in Decisions : BeginReview(h, c, s)
        PROVE  UNCHANGED saved
    BY <1>5 DEF HandlerStep, SelectItem, InsertItem, SubmitBatch, RecheckSubmission,
                PublishSubmission, ReviewBatch, RecheckReview, PublishReview, Abort, BeginAddItem,
                BeginSubmit, BeginReview, tableVars
  <1>6. \/ \E b \in Batches : CreateBatch(b)
        \/ \E b \in Assets : UpdateMetadata(b) \/ DeleteAsset(b)
        \/ UNCHANGED vars
        => UNCHANGED saved
    BY DEF CreateBatch, UpdateMetadata, DeleteAsset, vars, tableVars
  <1>7. QED
    BY <1>1, <1>2, <1>3, <1>4, <1>5, <1>6 DEF Next

\* What a buyer saved stays in the catalog until it is deleted.
THEOREM SavedAssetsStayVisible == Spec => []SavedStaysVisible
  BY TypeInit, TypeStep, SavedInit, SavedStep, PTL DEF Spec

=============================================================================
