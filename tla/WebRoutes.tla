----------------------------- MODULE WebRoutes -------------------------------
(***************************************************************************)
(* The server routes of the web application, as far as they touch the      *)
(* browser's session: whether a route can turn a request away before it    *)
(* spends the refresh token, and what it does with the session cookie once *)
(* the token is rotated and the service behind it has answered, or once    *)
(* something failed.                                                       *)
(***************************************************************************)

\* What an answer does with the cookie: "next" stores the rotated token,
\* "clear" removes the cookie, "keep" does not mention it.
Route(work, checksBody, answered, failed) ==
    [work |-> work, checksBody |-> checksBody, answered |-> answered, failed |-> failed]

-----------------------------------------------------------------------------
(* Pages *)

\* requiredRole: the areas of the two roles; every other page is open.
RequiredRole(area) ==
    CASE area = "contributor" -> {"contributor"}
      [] area = "buyer" -> {"buyer"}
      [] OTHER -> {"buyer", "contributor"}

\* proxy: a page of the other role is answered 403, without a cookie, and every
\* failure is taken for an expired session.
PageFor(role, area) ==
    Route("page", FALSE, IF role \in RequiredRole(area) THEN "next" ELSE "keep",
          "clear")

\* The pages the proxy stands before.
Pages == {PageFor(r, a) : r, a \in {"buyer", "contributor"}}

-----------------------------------------------------------------------------
(* API routes in front of the media service *)

\* proxyMedia, and the routes that repeat it: an error is answered without a
\* cookie, also when the token was rotated before it.
Forwarded == Route("request", FALSE, "next", "keep")
\* The body is validated before the token is spent.
Validated == Route("request", TRUE, "next", "keep")

ListMedia == Forwarded
GetMedia == Forwarded
RetryProcessing == Forwarded
CreateUploadSession == Validated
CompleteUpload == Forwarded
UpdateMetadata == Validated
ListReleases == Forwarded
CreateRelease == Validated
CompleteRelease == Forwarded
ListBatches == Forwarded
CreateBatch == Validated
AddBatchItem == Validated
SubmitBatch == Forwarded
ListCollections == Forwarded
CreateCollection == Validated
ChangeCollectionItem == Forwarded
ListFavourites == Forwarded
ChangeFavourite == Forwarded

MediaRoutes ==
    {ListMedia, GetMedia, RetryProcessing, CreateUploadSession, CompleteUpload,
     UpdateMetadata, ListReleases, CreateRelease, CompleteRelease, ListBatches,
     CreateBatch, AddBatchItem, SubmitBatch, ListCollections, CreateCollection,
     ChangeCollectionItem, ListFavourites, ChangeFavourite}

-----------------------------------------------------------------------------
(* API routes in front of the identity service *)

ReadProfile == Forwarded
UpdateProfile == Validated
\* The deletion request clears the cookie whatever the service answered.
DeleteAccount == Route("deletion", FALSE, "clear", "keep")

SignIn == Route("signIn", TRUE, "next", "keep")
\* Signing out clears the cookie, also when the service could not be told.
SignOut == Route("signOut", FALSE, "clear", "clear")

Routes == Pages \cup MediaRoutes \cup {ReadProfile, UpdateProfile, DeleteAccount}

=============================================================================
