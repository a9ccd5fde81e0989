--------------------------- MODULE ComponentsProofs --------------------------
(***************************************************************************)
(* Proofs about the pages of the web front end and the calls they make,    *)
(* for every number of files, assets, loads, requests and identifiers; and *)
(* the types of all the parts of Components.                               *)
(***************************************************************************)
EXTENDS ServiceProofs


-----------------------------------------------------------------------------
(* Calls: a request has one id, from the caller to the error it throws *)

\* The id under which the service files a request.
FiledAs == IF sent.id \in WellFormedIds THEN sent.id ELSE ServiceId

\* A request has no id before it is identified and the same one ever after; the
\* answer bears what it has by then, and so does an error the client throws.
\* The client never asks what a cookie authenticates, and only a body that is
\* refused is answered before there is an id.
IdsAgree ==
    /\ caller = "idle" => place = "none"
    /\ caller # "other" => sent.route # "cookie"
    /\ place \in {"none", "received", "parsed"} => filed = NoId
    /\ place = "identified" => filed # NoId
    /\ filed # NoId => filed = FiledAs
    /\ place = "answered" =>
          /\ answer.header = filed
          /\ answer.kind = "problem" /\ caller # "other" => answer.said = filed
          /\ sent.parses => filed # NoId
    /\ caller = "reading" => place = "answered"
    /\ outcome.kind = "ApiError" =>
          place = "answered" /\ outcome.header = filed /\ outcome.said = filed

CallInv == CallTypeOK /\ IdsAgree

\* An error is filed under an identifier.
LEMMA FiledIsAnId == CallTypeOK => FiledAs \in Ids /\ FiledAs # NoId
  BY IdsAreDistinct DEF FiledAs, Ids, Supplied

\* A call starts in the invariant.
LEMMA CallStart == CallInit => CallInv
  <1> SUFFICES ASSUME CallInit PROVE CallInv
    OBVIOUS
  <1>1. /\ answer.kind = "none" /\ answer.header = NoId /\ answer.said = NoId
        /\ outcome.kind = "none" /\ NoId \in Ids
    BY DEF CallInit, Nothing, Ids, Supplied
  <1>2. sent \in ClientCalls /\ sent.route # "cookie"
    BY DEF CallInit, ClientCalls, IdentityCalls, Requests, Supplied
  <1>3. answer \in Answers /\ outcome \in Outcomes
    BY <1>1 DEF CallInit, Nothing, Answers, Outcomes
  <1> QED
    BY <1>1, <1>2, <1>3 DEF CallInit, CallInv, CallTypeOK, IdsAgree

\* An answer bears the id of the request.
LEMMA AnswerKeeps ==
    ASSUME CallInv, caller # "idle", place # "answered", NEW kind \in {"value", "empty", "problem", "text"},
           NEW said \in {filed, NoId}, AnswerWith(kind, said),
           kind = "problem" /\ caller # "other" => said = filed,
           sent.parses => filed # NoId
    PROVE  CallInv'
  <1> USE DEF CallInv, AnswerWith
  <1>1. answer' \in Answers /\ answer'.kind = kind /\ answer'.header = filed /\ answer'.said = said
    BY DEF CallTypeOK, Answers, Ids, Supplied
  <1>2. CallTypeOK'
    BY <1>1 DEF CallTypeOK
  <1>3. IdsAgree'
    BY <1>1 DEF CallTypeOK, IdsAgree, FiledAs
  <1> QED
    BY <1>2, <1>3

\* What the client returns or throws leaves the request alone.
LEMMA EndKeepsIds ==
    ASSUME CallInv, NEW kind \in {"value", "empty", "failed", "ApiError"},
           NEW header \in Ids, NEW said \in Ids, EndWith(kind, header, said),
           caller \in {"waiting", "reading"},
           kind = "ApiError" =>
              /\ place = "answered"
              /\ header = filed
              /\ said = filed
    PROVE  CallInv'
  <1> USE DEF CallInv, EndWith
  <1>1. /\ outcome' \in Outcomes /\ outcome'.kind = kind
        /\ outcome'.header = header /\ outcome'.said = said
    BY DEF Outcomes
  <1>2. CallTypeOK'
    BY <1>1 DEF CallTypeOK
  <1>3. IdsAgree'
    BY <1>1 DEF CallTypeOK, IdsAgree, FiledAs
  <1> QED
    BY <1>2, <1>3

\* A rejected call keeps the invariant.
LEMMA RejectedKeeps == CallInv /\ Rejected => CallInv'
  <1> SUFFICES ASSUME CallInv, Rejected PROVE CallInv'
    OBVIOUS
  <1>1. NoId \in Ids /\ answer.header \in Ids
    BY DEF CallInv, CallTypeOK, Answers, Ids, Supplied
  <1>2. CASE caller \in {"waiting", "reading"} /\ EndWith("failed", NoId, NoId)
    BY <1>1, <1>2, EndKeepsIds
  <1>3. CASE caller = "reading" /\ EndWithFallback
    BY <1>1, <1>3, EndKeepsIds DEF EndWithFallback, CallInv, IdsAgree
  <1> QED
    BY <1>2, <1>3 DEF Rejected

\* So does every step of a call.
LEMMA CallStep == CallInv /\ [CallNext]_callVars => CallInv'
  <1> SUFFICES ASSUME CallInv, [CallNext]_callVars PROVE CallInv'
    OBVIOUS
  <1>0. NoId \in Ids /\ answer.header \in Ids /\ answer.said \in Ids
    BY DEF CallInv, CallTypeOK, Answers, Ids, Supplied
  <1>1. ASSUME NEW r \in ClientCalls, Call(r) PROVE CallInv'
    <2>1. sent' \in ClientCalls /\ sent'.route # "cookie"
      BY <1>1, IdsAreDistinct DEF Call, ClientCalls, IdentityCalls, MediaCalls, Requests, Supplied
    <2> QED
      BY <1>1, <2>1 DEF Call, CallInv, CallTypeOK, IdsAgree
  <1>2. ASSUME NEW r \in OtherCalls, CallByOther(r) PROVE CallInv'
    BY <1>2 DEF CallByOther, CallInv, CallTypeOK, IdsAgree
  <1>3. CASE ParseBody
    <2>1. CASE ~sent.parses /\ AnswerWith("problem", filed)
      BY <1>3, <2>1, AnswerKeeps DEF ParseBody, CallInv, IdsAgree
    <2>2. CASE place' = "parsed" /\ UNCHANGED <<caller, timer, sent, filed, answer, outcome>>
      BY <1>3, <2>2 DEF ParseBody, CallInv, CallTypeOK, IdsAgree, FiledAs
    <2> QED
      BY <1>3, <2>1, <2>2 DEF ParseBody
  <1>4. CASE Identify
    <2>1. filed' = FiledAs /\ FiledAs \in Ids /\ FiledAs # NoId /\ place \in {"parsed", "received"}
      BY <1>4, FiledIsAnId DEF Identify, Unidentified, FiledAs, CallInv
    <2> QED
      BY <1>4, <2>1 DEF Identify, CallInv, CallTypeOK, IdsAgree, FiledAs
  <1>5. CASE Limited \/ RefuseOrigin \/ Catch \/ Handle
    <2> filed # NoId /\ caller # "idle" /\ place = "identified"
      BY <1>5 DEF Limited, RefuseOrigin, Catch, Handle, CallInv, IdsAgree
    <2>1. CASE Limited \/ Catch
      BY <2>1, AnswerKeeps DEF Limited, Catch
    <2>2. CASE RefuseOrigin
      <3>1. caller = "other"
        BY <2>2 DEF RefuseOrigin, CallInv, IdsAgree
      <3> QED
        BY <2>2, <3>1, AnswerKeeps DEF RefuseOrigin
    <2>3. CASE Handle
      BY <2>3, AnswerKeeps DEF Handle
    <2> QED
      BY <1>5, <2>1, <2>2, <2>3
  <1>6. CASE HeadersArrive
    <2>1. CASE EndWith("empty", NoId, NoId)
      BY <1>0, <1>6, <2>1, EndKeepsIds DEF HeadersArrive
    <2>2. CASE caller' = "reading" /\ UNCHANGED <<timer, sent, place, filed, answer, outcome>>
      BY <1>6, <2>2 DEF HeadersArrive, CallInv, CallTypeOK, IdsAgree, FiledAs
    <2> QED
      BY <1>6, <2>1, <2>2 DEF HeadersArrive
  <1>7. CASE BodyArrives
    <2>1. CASE EndWith("value", NoId, NoId)
      BY <1>0, <1>7, <2>1, EndKeepsIds DEF BodyArrives
    <2>2. CASE answer.kind = "problem" /\ EndWith("ApiError", answer.header, answer.said)
      BY <1>0, <1>7, <2>2, EndKeepsIds DEF BodyArrives, CallInv, IdsAgree
    <2>3. CASE EndWithFallback
      BY <1>0, <1>7, <2>3, EndKeepsIds DEF BodyArrives, EndWithFallback, CallInv, IdsAgree
    <2> QED
      BY <1>7, <2>1, <2>2, <2>3 DEF BodyArrives
  <1>8. CASE ConnectionBreaks \/ TimeOut
    BY <1>8, RejectedKeeps DEF ConnectionBreaks, TimeOut
  <1>9. CASE UNCHANGED callVars
    BY <1>9 DEF callVars, CallInv, CallTypeOK, IdsAgree, FiledAs
  <1> QED
    BY <1>1, <1>2, <1>3, <1>4, <1>5, <1>6, <1>7, <1>8, <1>9 DEF CallNext

\* An error names the request it belongs to.
LEMMA CallFollows == CallInv => ErrorNamesTheRequest
  BY DEF CallInv, IdsAgree, ErrorNamesTheRequest, FiledAs

\* An ApiError about a body the service can read bears, as its header and in
\* what it says, the id under which the service filed the request, the caller's
\* where it is well formed (createApiClient, RequestContextMiddleware.use,
\* ProblemDetailsFilter.catch).
THEOREM ErrorsNameTheRequest == ComponentsSpec => []ErrorNamesTheRequest
  <1>1. ComponentsInit => CallInv
    BY CallStart DEF ComponentsInit
  <1>2. CallInv /\ [ComponentsNext]_allVars => CallInv'
    BY CallStep, PartsMove
  <1>3. CallInv => ErrorNamesTheRequest
    BY CallFollows
  <1> QED
    BY <1>1, <1>2, <1>3, PTL DEF ComponentsSpec


-----------------------------------------------------------------------------
(* Panels: what a panel does not show yet is on its way to it *)

\* A panel that loads again has one load under way; the answer of a load is
\* the latest list unless a change waits for its own load.
ReloadsInTurn ==
    panel.reloads =>
        /\ \A r, s \in Slots :
              request[r] \in {"load", "loaded"} /\ request[s] \in {"load", "loaded"} => r = s
        /\ \A s \in Slots : request[s] = "loaded" =>
              \/ found[s] = version
              \/ \E r \in Slots : request[r] = "changed"

\* A panel that shows the answer of a change has one request under way, and
\* its answer is the latest list.
AnswersInTurn ==
    ~panel.reloads =>
        /\ \A r, s \in Slots : request[r] # "none" /\ request[s] # "none" => r = s
        /\ \A s \in Slots : request[s] \in {"loaded", "changed"} => found[s] = version

\* What is not shown yet is on its way.
NewsIsOnItsWay ==
    \/ shown = version
    \/ \E s \in Slots : request[s] \in {"load", "loaded", "changed"}

PanelInv ==
    /\ PanelTypeOK
    /\ ~mixed => ReloadsInTurn /\ AnswersInTurn /\ NewsIsOnItsWay

\* A panel starts in the invariant.
LEMMA PanelStart == PanelInit => PanelInv
  <1> SUFFICES ASSUME PanelInit PROVE PanelInv
    OBVIOUS
  <1>1. /\ request \in [Slots -> {"none", "load", "loaded", "change", "changed"}]
        /\ found \in [Slots -> 0 .. version]
    BY DEF PanelInit
  <1>2. PanelTypeOK
    <2>1. version \in 0 .. MaxChanges /\ shown \in 0 .. version
      BY ChangesAreBounded DEF PanelInit
    <2>2. panel \in AllPanels /\ working \in BOOLEAN /\ mixed \in BOOLEAN
          /\ awaited \subseteq {s \in Slots : request[s] \in {"load", "loaded"}}
      BY DEF PanelInit
    <2> QED
      BY <1>1, <2>1, <2>2 DEF PanelTypeOK
  <1> QED
    BY <1>2 DEF PanelInit, PanelInv, ReloadsInTurn, AnswersInTurn, NewsIsOnItsWay

\* Every step of a panel keeps it.
LEMMA PanelStep == PanelInv /\ [PanelNext]_panelVars => PanelInv'
  <1> SUFFICES ASSUME PanelInv, [PanelNext]_panelVars PROVE PanelInv'
    OBVIOUS
  <1> USE ChangesAreBounded DEF PanelInv, PanelTypeOK, Becomes
  <1> DEFINE Turns == ReloadsInTurn /\ AnswersInTurn /\ NewsIsOnItsWay
  <1>1. ASSUME NEW s \in Slots, Reload(s) PROVE PanelInv'
    <2> USE <1>1 DEF Reload
    <2>1. PanelTypeOK'
      OBVIOUS
    <2>2. ~mixed' => Turns'
      BY DEF CrossesLoad, ReloadsInTurn, AnswersInTurn, NewsIsOnItsWay
    <2> QED
      BY <2>1, <2>2
  <1>2. ASSUME NEW s \in Slots, ReadList(s) PROVE PanelInv'
    <2> USE <1>2 DEF ReadList
    <2>1. PanelTypeOK'
      OBVIOUS
    <2>2. ~mixed' => Turns'
      BY DEF ReloadsInTurn, AnswersInTurn, NewsIsOnItsWay
    <2> QED
      BY <2>1, <2>2
  <1>3. ASSUME NEW s \in Slots, ShowList(s) PROVE PanelInv'
    <2> USE <1>3 DEF ShowList, LoadEnds
    <2>1. PanelTypeOK'
      OBVIOUS
    <2>2. ~mixed' => Turns'
      BY DEF ReloadsInTurn, AnswersInTurn, NewsIsOnItsWay
    <2> QED
      BY <2>1, <2>2
  <1>4. ASSUME NEW s \in Slots, LoadThrows(s) PROVE PanelInv'
    BY <1>4 DEF LoadThrows, LoadEnds
  <1>5. ASSUME NEW s \in Slots, Change(s) PROVE PanelInv'
    <2> USE <1>5 DEF Change
    <2>1. PanelTypeOK'
      OBVIOUS
    <2>2. ~mixed' => Turns'
      BY DEF CrossesAny, ReloadsInTurn, AnswersInTurn, NewsIsOnItsWay
    <2> QED
      BY <2>1, <2>2
  <1>6. ASSUME NEW s \in Slots, Apply(s) PROVE PanelInv'
    <2> USE <1>6 DEF Apply
    <2>1. PanelTypeOK'
      <3>1. version' \in 0 .. MaxChanges /\ shown' \in 0 .. version' /\ 0 .. version \subseteq 0 .. version'
        OBVIOUS
      <3>2. request' \in [Slots -> {"none", "load", "loaded", "change", "changed"}]
        OBVIOUS
      <3>3. found' \in [Slots -> 0 .. version']
        BY <3>1
      <3> QED
        BY <3>1, <3>2, <3>3
    <2>2. /\ request'[s] = "changed" /\ found'[s] = version' /\ panel' = panel /\ mixed' = mixed
          /\ \A r \in Slots \ {s} : request'[r] = request[r] /\ found'[r] = found[r]
      OBVIOUS
    <2>3. NewsIsOnItsWay'
      BY <2>2 DEF NewsIsOnItsWay
    <2>4. ~mixed' => ReloadsInTurn'
      <3> SUFFICES ASSUME ReloadsInTurn, panel.reloads PROVE ReloadsInTurn'
        BY <2>2 DEF ReloadsInTurn
      <3>1. \A r \in Slots : request'[r] \in {"load", "loaded"} => request[r] \in {"load", "loaded"}
        BY <2>2
      <3>2. \E r \in Slots : request'[r] = "changed"
        BY <2>2
      <3> HIDE DEF PanelInv
      <3> QED
        BY <3>1, <3>2 DEF ReloadsInTurn
    <2>5. ~mixed' => AnswersInTurn'
      <3> SUFFICES ASSUME AnswersInTurn, ~panel.reloads PROVE AnswersInTurn'
        BY <2>2 DEF AnswersInTurn
      <3>1. \A r \in Slots \ {s} : request[r] = "none" /\ request'[r] = "none"
        BY <2>2 DEF AnswersInTurn
      <3> HIDE DEF PanelInv
      <3> QED
        BY <2>2, <3>1 DEF AnswersInTurn
    <2> QED
      BY <2>1, <2>3, <2>4, <2>5
  <1>7. ASSUME NEW s \in Slots, Changed(s) PROVE PanelInv'
    <2> USE <1>7 DEF Changed
    <2>1. /\ request[s] = "changed" /\ panel' = panel /\ version' = version
          /\ found'[s] = 0 /\ \A r \in Slots \ {s} : request'[r] = request[r] /\ found'[r] = found[r]
      OBVIOUS
    <2>2. CASE panel.reloads
      <3> USE <2>2
      <3>1. PanelTypeOK'
        OBVIOUS
      <3>2. request'[s] = "load"
        OBVIOUS
      <3>3. NewsIsOnItsWay'
        BY <3>2 DEF NewsIsOnItsWay
      <3>4. AnswersInTurn'
        BY <2>1 DEF AnswersInTurn
      <3>5. ~mixed' => ReloadsInTurn'
        BY <2>1, <3>2 DEF ReloadsInTurn, CrossesLoad
      <3> QED
        BY <3>1, <3>3, <3>4, <3>5
    <2>3. CASE ~panel.reloads
      <3> USE <2>3
      <3>1. PanelTypeOK'
        OBVIOUS
      <3>2. request'[s] = "none" /\ shown' = found[s] /\ mixed' = mixed
        OBVIOUS
      <3>3. ~mixed' => NewsIsOnItsWay'
        BY <2>1, <3>2 DEF NewsIsOnItsWay, AnswersInTurn
      <3>4. ~mixed' => AnswersInTurn'
        BY <2>1, <3>2 DEF AnswersInTurn
      <3>5. ReloadsInTurn'
        BY <2>1 DEF ReloadsInTurn
      <3> QED
        BY <3>1, <3>3, <3>4, <3>5
    <2> QED
      BY <2>2, <2>3
  <1>8. ASSUME NEW s \in Slots, Refused(s) PROVE PanelInv'
    <2> USE <1>8 DEF Refused
    <2>1. PanelTypeOK'
      OBVIOUS
    <2>2. ~mixed' => Turns'
      BY DEF ReloadsInTurn, AnswersInTurn, NewsIsOnItsWay
    <2> QED
      BY <2>1, <2>2
  <1>9. ASSUME NEW s \in Slots, ChangeThrows(s) PROVE PanelInv'
    BY <1>9 DEF ChangeThrows
  <1>10. CASE UNCHANGED panelVars
    BY <1>10 DEF panelVars, ReloadsInTurn, AnswersInTurn, NewsIsOnItsWay
  <1> QED
    BY <1>1, <1>2, <1>3, <1>4, <1>5, <1>6, <1>7, <1>8, <1>9, <1>10 DEF PanelNext, Proceed

\* A panel without a load under way shows the last list.
LEMMA PanelFollows == PanelInv => PanelIsCurrent
  BY DEF PanelInv, NewsIsOnItsWay, PanelIsCurrent

-----------------------------------------------------------------------------
(* Uploads: the loop, and the library that loads when one announces itself *)

Uploading == {"put", "complete", "poll"}

\* The loop runs as long as entries are left, and none of these is ready; the
\* one it is at has its asset.
LoopLocals ==
    /\ step = "none" <=> queue = <<>>
    /\ \A f \in ToSet(queue) : entry[f] # "ready"
    /\ step \in Uploading => asset[Current] \in Assets

\* No two entries share an asset, every asset of an entry exists, and one that
\* an entry calls ready is.
AssetsAreOwn ==
    /\ \A f, g \in Files : asset[f] = asset[g] /\ asset[f] \in Assets => f = g
    /\ \A f \in Files : asset[f] \in Assets => status[asset[f]] # "none"
    /\ \A f \in Files : entry[f] = "ready" =>
          asset[f] \in Assets /\ status[asset[f]] = "ready"

\* Undisturbed loads come one at a time: what they read, and what is shown
\* when none is under way, is everything that is ready.
LoadsInTurn ==
    ~disturbed =>
        /\ \A k, l \in Loads : load[k] # "none" /\ load[l] # "none" => k = l
        /\ \A l \in Loads : load[l] = "read" =>
              \A f \in Files : entry[f] = "ready" => asset[f] \in seen[l]
        /\ (\A l \in Loads : load[l] = "none") =>
              \A f \in Files : entry[f] = "ready" => asset[f] \in listed

UploaderInv == UploaderTypeOK /\ LoopLocals /\ AssetsAreOwn /\ LoadsInTurn

-----------------------------------------------------------------------------

\* The orders in which a finite set of entries may be taken are sequences
\* without repetition.
LEMMA OrdersAreInjective ==
  ASSUME NEW S, IsFiniteSet(S), NEW order \in SetToAllKPermutations(S)
  PROVE  order \in Seq(S) /\ IsInjective(order)
  <1>1. PICK D \in SUBSET S : order \in SetToSeqs(D)
    BY DEF SetToAllKPermutations
  <1>2. PICK n \in Nat : n = Cardinality(D)
    BY FS_Subset, FS_CardinalityType
  <1>3. order \in [1 .. n -> D] /\ \A i, j \in 1 .. n : i # j => order[i] # order[j]
    BY <1>1, <1>2 DEF SetToSeqs
  <1>4. order \in Seq(S)
    BY <1>3
  <1> QED
    BY <1>3, <1>4 DEF IsInjective

\* The rest of a sequence without repetition does not hold its head.
LEMMA RestOfQueue ==
  ASSUME NEW S, NEW s \in Seq(S), IsInjective(s), s # <<>>
  PROVE  /\ Head(s) \in S /\ Head(s) \in ToSet(s)
         /\ Tail(s) \in Seq(S) /\ IsInjective(Tail(s))
         /\ ToSet(Tail(s)) \subseteq ToSet(s) \ {Head(s)}
  <1>1. /\ Len(s) \in Nat \ {0} /\ DOMAIN s = 1 .. Len(s) /\ Head(s) = s[1]
        /\ Head(s) \in S
    BY EmptySeq, LenProperties, HeadTailProperties
  <1>2. /\ Tail(s) \in Seq(S) /\ DOMAIN Tail(s) = 1 .. Len(s) - 1
        /\ \A i \in 1 .. Len(s) - 1 : Tail(s)[i] = s[i + 1]
    BY <1>1, HeadTailProperties, LenProperties
  <1> DEFINE t == Tail(s)
  <1> HIDE DEF t
  <1>3. /\ DOMAIN t = 1 .. Len(s) - 1
        /\ \A i \in 1 .. Len(s) - 1 : t[i] = s[i + 1] /\ i + 1 \in 1 .. Len(s) /\ i + 1 # 1
    BY <1>1, <1>2 DEF t
  <1>4. IsInjective(t)
    BY <1>1, <1>3 DEF IsInjective
  <1>5. ToSet(t) \subseteq ToSet(s) \ {Head(s)}
    BY <1>1, <1>3 DEF IsInjective, ToSet
  <1>6. Head(s) \in ToSet(s)
    BY <1>1 DEF ToSet
  <1> QED
    BY <1>1, <1>2, <1>4, <1>5, <1>6 DEF t

\* The loop is at an entry of the list that is not ready.
LEMMA CurrentEntry ==
    ASSUME UploaderInv, step # "none"
    PROVE  /\ Current \in Files /\ entry[Current] # "ready"
           /\ Tail(queue) \in Seq(Files) /\ IsInjective(Tail(queue))
           /\ \A f \in ToSet(Tail(queue)) : f # Current /\ entry[f] # "ready"
  BY RestOfQueue DEF UploaderInv, UploaderTypeOK, LoopLocals, Current

\* A new asset belongs to no file yet.
LEMMA NewAssetIsUnused ==
    ASSUME CanCreate
    PROVE  NewAsset \in Assets /\ status[NewAsset] = "none"
  BY DEF CanCreate, NewAsset

-----------------------------------------------------------------------------

\* What a step of the library does to the loads.
LEMMA BeginLoadKeeps ==
    ASSUME UploaderInv, NEW l \in Loads, BeginLoad(l)
    PROVE  /\ load' \in [Loads -> {"none", "sent", "read"}] /\ load'[l] = "sent"
           /\ disturbed' \in BOOLEAN /\ seen' = seen /\ listed' = listed
           /\ ~disturbed' => \A k \in Loads \ {l} : load'[k] = "none"
           /\ ~disturbed' => ~disturbed
  BY DEF UploaderInv, UploaderTypeOK, BeginLoad

\* The steps of the library leave the uploads alone.
LEMMA LibraryKeeps ==
    ASSUME UploaderInv, NEW l \in Loads,
           Refresh(l) \/ LoadReads(l) \/ LoadShows(l) \/ LoadFails(l)
    PROVE  UploaderInv'
  <1> USE DEF UploaderInv, loopVars
  <1>1. LoopLocals' /\ AssetsAreOwn'
    BY DEF Refresh, LoadReads, LoadShows, LoadFails, LoopLocals, AssetsAreOwn, Current
  <1>2. CASE Refresh(l)
    BY <1>1, <1>2, BeginLoadKeeps DEF Refresh, UploaderTypeOK, LoadsInTurn
  <1>3. CASE LoadReads(l)
    <2>1. ReadyAssets \subseteq Assets /\ \A f \in Files : entry[f] = "ready" => asset[f] \in ReadyAssets
      BY DEF ReadyAssets, AssetsAreOwn
    <2>2. UploaderTypeOK'
      BY <1>3, <2>1 DEF LoadReads, UploaderTypeOK
    <2>3. LoadsInTurn'
      BY <1>3, <2>1 DEF LoadReads, UploaderTypeOK, LoadsInTurn
    <2> QED
      BY <1>1, <2>2, <2>3
  <1>4. CASE LoadShows(l)
    <2>1. UploaderTypeOK'
      BY <1>4 DEF LoadShows, UploaderTypeOK
    <2>2. LoadsInTurn'
      BY <1>4 DEF LoadShows, UploaderTypeOK, LoadsInTurn
    <2> QED
      BY <1>1, <2>1, <2>2
  <1>5. CASE LoadFails(l)
    BY <1>1, <1>5 DEF LoadFails, UploaderTypeOK, LoadsInTurn
  <1> QED
    BY <1>2, <1>3, <1>4, <1>5

\* The loop goes on with the rest of its queue.
LEMMA BeginEntryKeeps ==
    ASSUME UploaderInv, NEW rest \in Seq(Files), IsInjective(rest), BeginEntry(rest),
           \A f \in ToSet(rest) : entry'[f] # "ready"
    PROVE  /\ queue' \in Seq(Files) /\ IsInjective(queue') /\ polls' \in 0 .. MaxPolls
           /\ busy' \in BOOLEAN /\ step' \in {"none", "create"}
           /\ LoopLocals'
  <1>1. queue' = rest /\ polls' = 0 /\ polls' \in 0 .. MaxPolls
    BY PollsAreBounded DEF BeginEntry
  <1>2. busy' \in BOOLEAN /\ step' \in {"none", "create"} /\ (step' = "none" <=> rest = <<>>)
    BY DEF BeginEntry
  <1>3. LoopLocals'
    BY <1>1, <1>2 DEF LoopLocals, Uploading
  <1> QED
    BY <1>1, <1>2, <1>3

\* An entry that ends as failed, whatever became of an asset.
LEMMA ConcludeFailedKeeps ==
    ASSUME UploaderInv, step # "none", Conclude("failed"),
           UNCHANGED <<asset, libraryVars>>,
           \/ UNCHANGED status
           \/ CanCreate /\ status' = [status EXCEPT ![NewAsset] = "pending"]
    PROVE  UploaderInv'
  <1> USE DEF Conclude, libraryVars
  <1>1. /\ Current \in Files /\ entry[Current] # "ready"
        /\ Tail(queue) \in Seq(Files) /\ IsInjective(Tail(queue))
        /\ \A f \in ToSet(Tail(queue)) : f # Current /\ entry[f] # "ready"
    BY CurrentEntry
  <1>2. entry' \in [Files -> EntryStates] /\ \A f \in Files : entry'[f] = "ready" => entry[f] = "ready"
    BY <1>1 DEF UploaderInv, UploaderTypeOK, EntryStates
  <1>3. \A f \in ToSet(Tail(queue)) : f \in Files
    BY <1>1, LenProperties DEF ToSet
  <1>4. \A f \in ToSet(Tail(queue)) : entry'[f] # "ready"
    BY <1>1, <1>2, <1>3
  <1>5. /\ queue' \in Seq(Files) /\ IsInjective(queue') /\ polls' \in 0 .. MaxPolls
        /\ busy' \in BOOLEAN /\ step' \in {"none", "create"}
        /\ LoopLocals'
    BY <1>1, <1>4, BeginEntryKeeps
  <1>6. /\ status' \in [Assets -> AssetStates]
        /\ \A a \in Assets : status[a] # "none" => status'[a] = status[a]
    BY NewAssetIsUnused DEF UploaderInv, UploaderTypeOK, AssetStates
  <1>7. UploaderTypeOK'
    BY <1>2, <1>5, <1>6 DEF UploaderInv, UploaderTypeOK
  <1>8. AssetsAreOwn'
    BY <1>2, <1>6 DEF UploaderInv, AssetsAreOwn
  <1>9. LoadsInTurn'
    BY <1>2 DEF UploaderInv, LoadsInTurn
  <1> QED
    BY <1>5, <1>7, <1>8, <1>9 DEF UploaderInv

\* The upload that announces itself is loaded after it.
LEMMA PollReadyKeeps ==
    ASSUME UploaderInv, NEW l \in Loads, PollReady(l)
    PROVE  UploaderInv'
  <1> USE DEF Conclude, PollReady
  <1>1. /\ Current \in Files /\ entry[Current] # "ready"
        /\ Tail(queue) \in Seq(Files) /\ IsInjective(Tail(queue))
        /\ \A f \in ToSet(Tail(queue)) : f # Current /\ entry[f] # "ready"
    BY CurrentEntry
  <1>2. /\ entry' \in [Files -> EntryStates]
        /\ \A f \in Files : entry'[f] = "ready" => f = Current \/ entry[f] = "ready"
        /\ \A f \in Files \ {Current} : entry'[f] = entry[f]
    BY <1>1 DEF UploaderInv, UploaderTypeOK, EntryStates
  <1>3. \A f \in ToSet(Tail(queue)) : f \in Files
    BY <1>1, LenProperties DEF ToSet
  <1>4. \A f \in ToSet(Tail(queue)) : entry'[f] # "ready"
    BY <1>1, <1>2, <1>3
  <1>5. /\ queue' \in Seq(Files) /\ IsInjective(queue') /\ polls' \in 0 .. MaxPolls
        /\ busy' \in BOOLEAN /\ step' \in {"none", "create"}
        /\ LoopLocals'
    BY <1>1, <1>4, BeginEntryKeeps
  <1>6. /\ load' \in [Loads -> {"none", "sent", "read"}] /\ load'[l] = "sent"
        /\ disturbed' \in BOOLEAN /\ seen' = seen /\ listed' = listed
        /\ ~disturbed' => \A k \in Loads \ {l} : load'[k] = "none"
    BY BeginLoadKeeps
  <1>7. UploaderTypeOK'
    BY <1>2, <1>5, <1>6 DEF UploaderInv, UploaderTypeOK
  <1>8. AssetsAreOwn'
    <2>1. asset[Current] \in Assets /\ status[asset[Current]] = "ready"
      BY DEF UploaderInv, LoopLocals, Uploading
    <2> QED
      BY <1>2, <2>1 DEF UploaderInv, AssetsAreOwn
  <1>9. LoadsInTurn'
    BY <1>6 DEF LoadsInTurn
  <1> QED
    BY <1>5, <1>7, <1>8, <1>9 DEF UploaderInv

\* What the loop does to the entry it is at.
LEMMA LoopKeeps == UploaderInv /\ Loop => UploaderInv'
  <1> SUFFICES ASSUME UploaderInv, Loop PROVE UploaderInv'
    OBVIOUS
  <1>1. CASE EntryFails
    BY <1>1, ConcludeFailedKeeps DEF EntryFails
  <1>2. CASE CreateUpload
    <2> USE <1>2 DEF CreateUpload
    <2>1. /\ Current \in Files /\ entry[Current] # "ready"
          /\ NewAsset \in Assets /\ status[NewAsset] = "none"
      BY CurrentEntry, NewAssetIsUnused
    <2> USE DEF UploaderInv, UploaderTypeOK, libraryVars
    <2>2. /\ status' \in [Assets -> AssetStates] /\ status'[NewAsset] = "pending"
          /\ \A a \in Assets \ {NewAsset} : status'[a] = status[a]
      BY <2>1 DEF AssetStates
    <2>3. /\ asset' \in [Files -> Assets \cup {NoAsset}] /\ asset'[Current] = NewAsset
          /\ \A f \in Files \ {Current} : asset'[f] = asset[f]
      BY <2>1
    <2>4. /\ entry' \in [Files -> EntryStates] /\ entry'[Current] = "uploading"
          /\ \A f \in Files \ {Current} : entry'[f] = entry[f]
      BY <2>1 DEF EntryStates
    <2>5. UploaderTypeOK'
      BY <2>2, <2>3, <2>4
    <2>6. LoopLocals'
      <3>1. queue' = queue /\ queue # <<>> /\ Current' = Current
        BY DEF LoopLocals, Current
      <3>2. \A f \in ToSet(queue) : f \in Files
        BY LenProperties DEF ToSet
      <3>3. \A f \in ToSet(queue) : entry'[f] # "ready"
        BY <2>4, <3>2 DEF LoopLocals
      <3> QED
        BY <2>1, <2>3, <3>1, <3>3 DEF LoopLocals
    <2>7. AssetsAreOwn'
      BY <2>1, <2>2, <2>3, <2>4 DEF AssetsAreOwn
    <2>8. LoadsInTurn'
      BY <2>3, <2>4 DEF LoadsInTurn
    <2> QED
      BY <2>5, <2>6, <2>7, <2>8
  <1>3. CASE CreateIsLost
    BY <1>3, ConcludeFailedKeeps DEF CreateIsLost
  <1>4. CASE PutObject
    BY <1>4 DEF PutObject, UploaderInv, UploaderTypeOK, LoopLocals, AssetsAreOwn, LoadsInTurn,
       libraryVars, Uploading, Current
  <1>5. CASE CompleteUpload
    <2> USE <1>5 DEF CompleteUpload
    <2>1. /\ Current \in Files /\ entry[Current] # "ready"
          /\ asset[Current] \in Assets
      BY CurrentEntry DEF UploaderInv, LoopLocals, Uploading
    <2> USE DEF UploaderInv, UploaderTypeOK, libraryVars
    <2>2. /\ status' \in [Assets -> AssetStates] /\ status'[asset[Current]] = "processing"
          /\ \A a \in Assets \ {asset[Current]} : status'[a] = status[a]
      BY <2>1 DEF AssetStates
    <2>3. /\ entry' \in [Files -> EntryStates] /\ entry'[Current] = "processing"
          /\ \A f \in Files \ {Current} : entry'[f] = entry[f]
      BY <2>1 DEF EntryStates
    <2>4. UploaderTypeOK'
      BY <2>2, <2>3
    <2>5. LoopLocals'
      <3>1. queue' = queue /\ queue # <<>> /\ Current' = Current
        BY DEF LoopLocals, Current
      <3>2. \A f \in ToSet(queue) : f \in Files
        BY LenProperties DEF ToSet
      <3>3. \A f \in ToSet(queue) : entry'[f] # "ready"
        BY <2>3, <3>2 DEF LoopLocals
      <3> QED
        BY <2>1, <3>1, <3>3 DEF LoopLocals
    <2>6. AssetsAreOwn'
      BY <2>1, <2>2, <2>3 DEF AssetsAreOwn
    <2>7. LoadsInTurn'
      BY <2>3 DEF LoadsInTurn
    <2> QED
      BY <2>4, <2>5, <2>6, <2>7
  <1>6. CASE PollAgain
    <2>1. polls' \in 0 .. MaxPolls
      BY <1>6, PollsAreBounded DEF PollAgain, UploaderInv, UploaderTypeOK
    <2> QED
      BY <1>6, <2>1 DEF PollAgain, UploaderInv, UploaderTypeOK, LoopLocals, AssetsAreOwn,
         LoadsInTurn, libraryVars, Current
  <1>7. CASE GiveUp
    BY <1>7, ConcludeFailedKeeps DEF GiveUp
  <1>8. ASSUME NEW l \in Loads, PollReady(l) PROVE UploaderInv'
    BY <1>8, PollReadyKeeps
  <1> QED
    BY <1>1, <1>2, <1>3, <1>4, <1>5, <1>6, <1>7, <1>8 DEF Loop

\* The loop starts with entries that are queued or failed.
LEMMA StartKeeps == UploaderInv /\ Start => UploaderInv'
  <1> SUFFICES ASSUME UploaderInv, Start PROVE UploaderInv'
    OBVIOUS
  <1> USE DEF Start, libraryVars
  <1>1. PICK order \in SetToAllKPermutations(Waiting) : ToSet(order) = Waiting /\ BeginEntry(order)
    OBVIOUS
  <1>2. IsFiniteSet(Waiting)
    BY FilesAreFinite, FS_Subset DEF Waiting
  <1>3. order \in Seq(Waiting) /\ IsInjective(order)
    BY <1>2, OrdersAreInjective
  <1>4. order \in Seq(Files)
    BY <1>3 DEF Waiting
  <1>5. \A f \in ToSet(order) : entry'[f] # "ready"
    BY <1>1 DEF Waiting
  <1>6. /\ queue' \in Seq(Files) /\ IsInjective(queue') /\ polls' \in 0 .. MaxPolls
        /\ busy' \in BOOLEAN /\ step' \in {"none", "create"}
        /\ LoopLocals'
    BY <1>1, <1>3, <1>4, <1>5, BeginEntryKeeps
  <1> QED
    BY <1>6 DEF UploaderInv, UploaderTypeOK, AssetsAreOwn, LoadsInTurn

\* Every step of the uploader keeps its invariant.
LEMMA UploaderStep == UploaderInv /\ [UploaderNext]_uploaderVars => UploaderInv'
  <1> SUFFICES ASSUME UploaderInv, [UploaderNext]_uploaderVars PROVE UploaderInv'
    OBVIOUS
  <1>1. ASSUME NEW f \in Files, Add(f) PROVE UploaderInv'
    <2> USE <1>1 DEF Add, UploaderInv, UploaderTypeOK, loopVars, libraryVars
    <2>1. /\ entry' \in [Files -> EntryStates] /\ entry'[f] # "ready"
          /\ \A g \in Files \ {f} : entry'[g] = entry[g]
      BY DEF EntryStates
    <2>2. \A g \in ToSet(queue) : g \in Files
      BY LenProperties DEF ToSet
    <2>3. LoopLocals'
      BY <2>1, <2>2 DEF LoopLocals, Current
    <2>4. AssetsAreOwn' /\ LoadsInTurn'
      BY <2>1 DEF AssetsAreOwn, LoadsInTurn
    <2> QED
      BY <2>1, <2>3, <2>4
  <1>2. CASE Start
    BY <1>2, StartKeeps
  <1>3. CASE Loop
    BY <1>3, LoopKeeps
  <1>4. ASSUME NEW l \in Loads, Refresh(l) \/ LoadReads(l) \/ LoadShows(l) \/ LoadFails(l)
        PROVE  UploaderInv'
    BY <1>4, LibraryKeeps
  <1>5. ASSUME NEW a \in Assets, Process(a) \/ RetryProcessing(a) PROVE UploaderInv'
    <2> USE DEF UploaderInv, UploaderTypeOK, loopVars, libraryVars
    <2>1. /\ status' \in [Assets -> AssetStates] /\ status[a] \notin {"none", "ready"}
          /\ status'[a] # "none" /\ \A b \in Assets \ {a} : status'[b] = status[b]
      BY <1>5 DEF Process, RetryProcessing, AssetStates
    <2>2. UNCHANGED <<entry, asset, queue, step, polls, busy, load, seen, listed, disturbed>>
      BY <1>5 DEF Process, RetryProcessing
    <2> QED
      BY <2>1, <2>2 DEF LoopLocals, AssetsAreOwn, LoadsInTurn, Current
  <1>6. CASE UNCHANGED uploaderVars
    BY <1>6 DEF uploaderVars, loopVars, libraryVars, UploaderInv, UploaderTypeOK, LoopLocals,
       AssetsAreOwn, LoadsInTurn, Current
  <1> QED
    BY <1>1, <1>2, <1>3, <1>4, <1>5, <1>6 DEF UploaderNext

\* The uploader starts in it.
LEMMA UploaderStart == UploaderInit => UploaderInv
  <1> SUFFICES ASSUME UploaderInit PROVE UploaderInv
    OBVIOUS
  <1> USE DEF UploaderInit
  <1>1. queue \in Seq(Files) /\ IsInjective(queue) /\ ToSet(queue) = {}
    BY DEF IsInjective, ToSet
  <1>2. UploaderTypeOK
    <2>1. /\ status \in [Assets -> AssetStates] /\ entry \in [Files -> EntryStates]
          /\ asset \in [Files -> Assets \cup {NoAsset}]
      BY DEF EntryStates, AssetStates
    <2>2. load \in [Loads -> {"none", "sent", "read"}] /\ seen \in [Loads -> SUBSET Assets]
      OBVIOUS
    <2>3. polls \in 0 .. MaxPolls
      BY PollsAreBounded
    <2>4. busy \in BOOLEAN /\ disturbed \in BOOLEAN
      OBVIOUS
    <2> QED
      BY <1>1, <2>1, <2>2, <2>3, <2>4 DEF UploaderTypeOK
  <1>3. LoopLocals
    BY <1>1 DEF LoopLocals, Uploading
  <1>4. AssetsAreOwn /\ LoadsInTurn
    BY NoAssetIsNone DEF AssetsAreOwn, LoadsInTurn
  <1> QED
    BY <1>2, <1>3, <1>4 DEF UploaderInv

\* With no load under way, the library lists what is ready.
LEMMA UploaderFollows == UploaderInv => LibraryCatchesUp
  BY DEF UploaderInv, LoadsInTurn, LibraryCatchesUp

\* The step of the loop and of the button leave an entry that is ready alone.
LEMMA ReadyStaysStep ==
    UploaderInv /\ UploaderNext => \A f \in Files : entry[f] = "ready" => entry'[f] = "ready"
  <1> SUFFICES ASSUME UploaderInv, UploaderNext, NEW f \in Files, entry[f] = "ready"
               PROVE  entry'[f] = "ready"
    OBVIOUS
  <1> USE DEF UploaderInv, UploaderTypeOK
  <1>1. ASSUME NEW g \in Files, Add(g) PROVE entry'[f] = "ready"
    BY <1>1 DEF Add
  <1>2. CASE Start
    BY <1>2 DEF Start
  <1>3. CASE Loop
    <2>1. step # "none" => f # Current
      BY CurrentEntry
    <2> QED
      BY <1>3, <2>1 DEF Loop, EntryFails, CreateUpload, CreateIsLost, PutObject, CompleteUpload,
         PollAgain, GiveUp, PollReady, Conclude
  <1>4. ASSUME NEW l \in Loads, Refresh(l) \/ LoadReads(l) \/ LoadShows(l) \/ LoadFails(l)
        PROVE  entry'[f] = "ready"
    BY <1>4 DEF Refresh, LoadReads, LoadShows, LoadFails
  <1>5. ASSUME NEW a \in Assets, Process(a) \/ RetryProcessing(a) PROVE entry'[f] = "ready"
    BY <1>5 DEF Process, RetryProcessing
  <1> QED
    BY <1>1, <1>2, <1>3, <1>4, <1>5 DEF UploaderNext

-----------------------------------------------------------------------------
(* The parts together *)

\* With nothing under way, nothing lost and nothing crossed, the library and
\* every panel show what the service has (MediaLibrary, BatchUploader and the
\* panels of the workspaces).
THEOREM PagesCatchUpAlways == ComponentsSpec => []PagesCatchUp
  <1>1. ComponentsInit => UploaderInv /\ PanelInv
    BY UploaderStart, PanelStart DEF ComponentsInit
  <1>2. UploaderInv /\ PanelInv /\ [ComponentsNext]_allVars => UploaderInv' /\ PanelInv'
    BY UploaderStep, PanelStep, PartsMove
  <1>3. UploaderInv /\ PanelInv => PagesCatchUp
    BY UploaderFollows, PanelFollows DEF PagesCatchUp
  <1> QED
    BY <1>1, <1>2, <1>3, PTL DEF ComponentsSpec

\* A file that was uploaded and is ready is never uploaded again by the same
\* list (BatchUploader.start).
THEOREM ReadyFilesStay == ComponentsSpec => ReadyStays
  <1>1. ComponentsInit => UploaderInv
    BY UploaderStart DEF ComponentsInit
  <1>2. UploaderInv /\ [ComponentsNext]_allVars => UploaderInv'
    BY UploaderStep, PartsMove
  <1>3. UploaderInv /\ [ComponentsNext]_allVars =>
           [\A f \in Files : entry[f] = "ready" => entry'[f] = "ready"]_uploaderVars
    BY ReadyStaysStep, PartsMove
  <1> QED
    BY <1>1, <1>2, <1>3, PTL DEF ComponentsSpec, ReadyStays

\* Every part keeps its types, and the settings that leave validateEnvironment
\* work.
THEOREM ComponentsTypes == ComponentsSpec => []ComponentsTypeOK
  <1> DEFINE Inv ==
        /\ UploaderInv /\ PanelInv /\ ServerInv /\ MigrateInv /\ CallInv
        /\ DataInv /\ NoticesAreOut
        /\ part = "environment" => EnvironmentInv
  <1>1. ComponentsInit => Inv
    <2>1. ComponentsInit /\ part = "environment" => EnvironmentInv
      BY DEF ComponentsInit, EnvironmentInv
    <2> QED
      BY <2>1, UploaderStart, PanelStart, ServerStart, MigrateStart, CallStart, DataStarts
         DEF ComponentsInit
  <1>2. Inv /\ [ComponentsNext]_allVars => Inv'
    <2>1. DataInv /\ NoticesAreOut /\ [DataNext]_dataVars => NoticesAreOut'
      BY NoticeStep DEF DataInv
    <2> QED
      BY <2>1, PartsMove, UploaderStep, PanelStep, ServerStep, MigrateStep, CallStep, DataStep,
         EnvironmentStep
  <1>3. Inv => ComponentsTypeOK
    BY DataFollows, EnvironmentFollows
       DEF ComponentsTypeOK, UploaderInv, PanelInv, ServerInv, MigrateInv, CallInv
  <1> QED
    BY <1>1, <1>2, <1>3, PTL DEF ComponentsSpec

=============================================================================
