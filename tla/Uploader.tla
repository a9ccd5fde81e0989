------------------------------ MODULE Uploader -------------------------------
(***************************************************************************)
(* BatchUploader and the MediaLibrary beside it: the files a contributor   *)
(* chose, the loop that uploads them one after the other and polls each    *)
(* until its processing ends, and the list of media that is loaded again   *)
(* when an upload announces itself. The media service is taken from the    *)
(* outside: assets appear, are processed, and are reported as they are.    *)
(***************************************************************************)
EXTENDS Naturals, Sequences, FiniteSets, SequencesExt

CONSTANTS
    Files,        \* files a contributor may choose
    Unsupported,  \* those whose type the category does not take
    Assets,       \* assets the media service may create
    Loads,        \* loads of the library open at a time
    MaxPolls,     \* polls of one asset (150 in the code)
    NoAsset

ASSUME UnsupportedAreFiles == Unsupported \subseteq Files
ASSUME FilesAreFinite == IsFiniteSet(Files)
ASSUME NoAssetIsNone == NoAsset \notin Assets
ASSUME PollsAreBounded == MaxPolls \in Nat \ {0}

VARIABLES
    status,    \* media service: status of each asset
    entry,     \* state of each file's entry, or "absent"
    asset,     \* the asset of the entry's last attempt
    queue,     \* entries the running loop still has to take
    step,      \* where the loop is in process(entry), or "none"
    polls,     \* polls made for the entry
    busy,      \* the loop runs and the button is disabled
    load,      \* of each load: "none", "sent" or "read"
    seen,      \* of each load: assets it read as ready
    listed,    \* assets the library shows as ready
    disturbed  \* history: a load failed or overlapped another one

loopVars == <<queue, step, polls, busy>>
libraryVars == <<load, seen, listed, disturbed>>
uploaderVars == <<status, entry, asset, loopVars, libraryVars>>

EntryStates == {"absent", "queued", "uploading", "processing", "ready", "failed"}
AssetStates == {"none", "pending", "processing", "ready", "failed"}

UploaderTypeOK ==
    /\ status \in [Assets -> AssetStates]
    /\ entry \in [Files -> EntryStates]
    /\ asset \in [Files -> Assets \cup {NoAsset}]
    /\ queue \in Seq(Files) /\ IsInjective(queue)
    /\ step \in {"none", "create", "put", "complete", "poll"}
    /\ polls \in 0 .. MaxPolls
    /\ busy \in BOOLEAN
    /\ load \in [Loads -> {"none", "sent", "read"}]
    /\ seen \in [Loads -> SUBSET Assets]
    /\ listed \subseteq Assets
    /\ disturbed \in BOOLEAN

FirstLoad == CHOOSE l \in Loads : TRUE

\* The library loads itself when it is mounted.
UploaderInit ==
    /\ status = [a \in Assets |-> "none"]
    /\ entry = [f \in Files |-> "absent"]
    /\ asset = [f \in Files |-> NoAsset]
    /\ queue = <<>>
    /\ step = "none"
    /\ polls = 0
    /\ busy = FALSE
    /\ load = [l \in Loads |-> IF l = FirstLoad THEN "sent" ELSE "none"]
    /\ seen = [l \in Loads |-> {}]
    /\ listed = {}
    /\ disturbed = FALSE

Current == Head(queue)
NewAsset == CHOOSE a \in Assets : status[a] = "none"
CanCreate == \E a \in Assets : status[a] = "none"
ReadyAssets == {a \in Assets : status[a] = "ready"}

-----------------------------------------------------------------------------
(* The library *)

\* load() is called while others may be under way; the last answer to arrive
\* is the one that is shown.
BeginLoad(l) ==
    /\ load[l] = "none"
    /\ load' = [load EXCEPT ![l] = "sent"]
    /\ disturbed' = (disturbed \/ \E k \in Loads : load[k] # "none")
    /\ UNCHANGED <<seen, listed>>

Refresh(l) == BeginLoad(l) /\ UNCHANGED <<status, entry, asset, loopVars>>

LoadReads(l) ==
    /\ load[l] = "sent"
    /\ load' = [load EXCEPT ![l] = "read"]
    /\ seen' = [seen EXCEPT ![l] = ReadyAssets]
    /\ UNCHANGED <<status, entry, asset, loopVars, listed, disturbed>>

LoadShows(l) ==
    /\ load[l] = "read"
    /\ listed' = seen[l]
    /\ load' = [load EXCEPT ![l] = "none"]
    /\ seen' = [seen EXCEPT ![l] = {}]
    /\ UNCHANGED <<status, entry, asset, loopVars, disturbed>>

LoadFails(l) ==
    /\ load[l] # "none"
    /\ load' = [load EXCEPT ![l] = "none"]
    /\ seen' = [seen EXCEPT ![l] = {}]
    /\ disturbed' = TRUE
    /\ UNCHANGED <<status, entry, asset, loopVars, listed>>

-----------------------------------------------------------------------------
(* The uploader *)

\* An unsupported file is listed as failed, and refused again at each attempt.
Add(f) ==
    /\ entry[f] = "absent"
    /\ entry' = [entry EXCEPT ![f] = IF f \in Unsupported THEN "failed" ELSE "queued"]
    /\ UNCHANGED <<status, asset, loopVars, libraryVars>>

Waiting == {f \in Files : entry[f] \in {"queued", "failed"}}
Chosen == {f \in Files : entry[f] # "absent"}

\* process(entry) begins, for the head of the rest of the queue.
BeginEntry(rest) ==
    /\ queue' = rest
    /\ polls' = 0
    /\ IF rest = <<>>
         THEN busy' = FALSE /\ step' = "none"
         ELSE busy' = TRUE /\ step' = "create"

\* Faulty variant of Start: entries that are done are taken again.
StartAll ==
    /\ ~busy /\ Waiting # {}
    /\ \E order \in SetToAllKPermutations(Chosen) :
        ToSet(order) = Chosen /\ BeginEntry(order)
    /\ UNCHANGED <<status, entry, asset, libraryVars>>

\* The entries are taken as they are at the click, in the order they were
\* added; one that failed is uploaded again from the beginning.
Start ==
    /\ ~busy /\ Waiting # {}
    /\ \E order \in SetToAllKPermutations(Waiting) :
        ToSet(order) = Waiting /\ BeginEntry(order)
    /\ UNCHANGED <<status, entry, asset, libraryVars>>

\* The entry ends in state s and the loop takes the next one.
Conclude(s) ==
    /\ entry' = [entry EXCEPT ![Current] = s]
    /\ BeginEntry(Tail(queue))

\* Any request that is refused or throws ends the entry, whatever the service
\* did before.
EntryFails ==
    /\ step # "none"
    /\ Conclude("failed")
    /\ UNCHANGED <<status, asset, libraryVars>>

\* The upload session: an asset that nobody else will ever ask for.
CreateUpload ==
    /\ step = "create" /\ Current \notin Unsupported /\ CanCreate
    /\ status' = [status EXCEPT ![NewAsset] = "pending"]
    /\ asset' = [asset EXCEPT ![Current] = NewAsset]
    /\ entry' = [entry EXCEPT ![Current] = "uploading"]
    /\ step' = "put"
    /\ UNCHANGED <<queue, polls, busy, libraryVars>>

\* The answer is lost: the asset stays behind and the entry fails.
CreateIsLost ==
    /\ step = "create" /\ Current \notin Unsupported /\ CanCreate
    /\ status' = [status EXCEPT ![NewAsset] = "pending"]
    /\ Conclude("failed")
    /\ UNCHANGED <<asset, libraryVars>>

PutObject ==
    /\ step = "put"
    /\ step' = "complete"
    /\ UNCHANGED <<status, entry, asset, queue, polls, busy, libraryVars>>

CompleteUpload ==
    /\ step = "complete"
    /\ status' = [status EXCEPT ![asset[Current]] = "processing"]
    /\ entry' = [entry EXCEPT ![Current] = "processing"]
    /\ step' = "poll"
    /\ UNCHANGED <<asset, queue, polls, busy, libraryVars>>

\* The poll finds the asset ready: the entry is done and the event makes the
\* library load.
PollReady(l) ==
    /\ step = "poll" /\ status[asset[Current]] = "ready"
    /\ Conclude("ready")
    /\ BeginLoad(l)
    /\ UNCHANGED <<status, asset>>

\* Faulty variant of PollAgain: the count starts over at its limit.
PollEndlessly ==
    /\ step = "poll" /\ status[asset[Current]] = "processing"
    /\ polls' = IF polls = MaxPolls THEN 0 ELSE polls + 1
    /\ UNCHANGED <<status, entry, asset, queue, step, busy, libraryVars>>

PollAgain ==
    /\ step = "poll" /\ status[asset[Current]] = "processing"
    /\ polls < MaxPolls
    /\ polls' = polls + 1
    /\ UNCHANGED <<status, entry, asset, queue, step, busy, libraryVars>>

\* The asset failed, or was still not ready at the last poll.
GiveUp ==
    /\ step = "poll"
    /\ status[asset[Current]] = "failed" \/ polls = MaxPolls
    /\ Conclude("failed")
    /\ UNCHANGED <<status, asset, libraryVars>>

-----------------------------------------------------------------------------
(* The media service *)

Process(a) ==
    /\ status[a] = "processing"
    /\ \E s \in {"ready", "failed"} : status' = [status EXCEPT ![a] = s]
    /\ UNCHANGED <<entry, asset, loopVars, libraryVars>>

\* retry() of the library, or the worker's own next attempt.
RetryProcessing(a) ==
    /\ status[a] = "failed"
    /\ status' = [status EXCEPT ![a] = "processing"]
    /\ UNCHANGED <<entry, asset, loopVars, libraryVars>>

Loop ==
    \/ EntryFails \/ CreateUpload \/ CreateIsLost \/ PutObject \/ CompleteUpload
    \/ PollAgain \/ GiveUp \/ \E l \in Loads : PollReady(l)

UploaderNext ==
    \/ \E f \in Files : Add(f)
    \/ Start \/ Loop
    \/ \E l \in Loads : Refresh(l) \/ LoadReads(l) \/ LoadShows(l) \/ LoadFails(l)
    \/ \E a \in Assets : Process(a) \/ RetryProcessing(a)

-----------------------------------------------------------------------------

\* A file that was uploaded and became ready is never uploaded again by the
\* same list (start).
ReadyStays == [][\A f \in Files : entry[f] = "ready" => entry'[f] = "ready"]_uploaderVars

\* With no load under way, none failed and none overlapped, the library shows
\* every asset that an entry calls ready (the event "media-ready").
LibraryCatchesUp ==
    ~disturbed /\ (\A l \in Loads : load[l] = "none") =>
        \A f \in Files : entry[f] = "ready" => asset[f] \in listed

=============================================================================
