# TAMO Images: a TLA+ model of the media platform

This directory specifies the parts of the repository that carry its own
concurrent logic, checks them with TLC on small instances and proves the most
important results with TLAPS. Modelled are

* three parts of `tamo-media-service`: the media pipeline (contributors upload
  originals, workers derive variants, contributors delete what they uploaded),
  batches and their review, and commerce (carts, orders, payments, licensed
  downloads);
* of `tamo-auth-service`: accounts and refresh sessions, and around them the
  limiter with its Redis connection, the readiness check, consent choices, the
  migrations runner and the settings the service starts with;
* of `tamo-web`: what its routes do to the browser's session, the uploader, and
  the panels that list and change something;
* between the two, one HTTP call from the web server's client through the
  middleware chain of the auth service and back.

## 1. The system

| Component | State it keeps | Operations | Interacts with |
|---|---|---|---|
| Upload API (`internal/uploads`) | `media_assets` rows | Create, Complete, Retry, Delete, UpdateMetadata; Get and List read | object store (presigned URLs, Head, Delete), topic `media.uploaded.v1` |
| Release API (`internal/releases`) | `media_releases` rows | Create, Complete; List reads | object store, the asset row it locks |
| Processing worker (`cmd/media-worker`, `internal/processing`) | claim (`status`, `updated_at`), `media_variants` rows | Handle: claim, download, scan, probe, transcode, store, record the outcome, publish | the topics, the object store, the same rows as the API |
| Kafka client (`internal/platform/kafka`) | committed offsets, records in hand | Publish, Consume | the handlers above |
| Object store adapter (`internal/platform/storage`) | private objects, presigned URLs | Put, Get, Head, Delete, Presign | API, worker, browsers |
| Database access (`internal/platform/database`) | PostgreSQL | one method per query or transaction | everything in the media service |
| Batches and review (`internal/batches`) | `media_batches`, `media_batch_items` | Create, AddItem, Submit, Review | assets, topics `media.submitted-for-review.v1`, `media.review-completed.v1` |
| Catalog (`internal/catalog`) | none | Search, Get | approved batches |
| Collections, favourites (`internal/collections`) | buyer tables | create, add, remove | approved assets |
| Commerce (`internal/commerce`, `internal/payments`) | carts, orders, webhook events, entitlements | cart, Checkout, Webhook, Download | Paystack, approved assets |
| Worker pool (`internal/worker`) | admitted jobs | Run | unused by the two programs |
| HTTP router, token verification, configuration | none | request parsing, role checks | the services |
| Migrations (`cmd/migrate`, auth `migrate.ts`) | `schema_migrations` | run pending files, roll the last one back | PostgreSQL |
| Accounts and sessions (`tamo-auth-service/src/auth`) | `users`, one-time tokens, `refresh_sessions`; Redis revocations | register, verify, login, refresh, logout, recover, request deletion | Redis, identity topics, audit rows |
| Limiter, health (`rate-limit.middleware.ts`, `redis.service.ts`, `health.service.ts`) | Redis counters, one connection each to Redis and the brokers, the PostgreSQL pool | count a request, answer a probe | stands before the handlers |
| Consent (`compliance`) | `privacy_notices`, `consent_records` | read the notice, record and read choices | PostgreSQL |
| Configuration (`config/environment.ts`) | none | validate what the process is given | every part of the auth service |
| Web session (`tamo-web/src/lib/auth`, `proxy.ts`, `app/api`) | the browser's cookie, the map of refreshes of each process | rotate the token before every call, forward it | both services |
| API client and request chain (`tamo-web/src/lib/api`, auth `bootstrap.ts`, `common`) | a timeout; the request's correlation id | send a call and read its answer; parse, name, limit, filter a request | the web routes, the handlers of the auth service |
| Web pages (`tamo-web/src/components`) | React state | upload and poll, load, change | the web routes |
| Infrastructure (`tamo-infrastructure`) | none | compose file, topics, buckets | deployment |

What is hard here. API handlers and workers change the same rows and objects
without a common lock: every query is atomic, a handler is not. Events are
delivered at least once and their outcome depends on a claim that ages. A
deletion reads what to erase, erases it and then scrubs the row, three steps
during which everything else goes on. All consumers of a worker process share
one context, so an error about one asset reaches the others. PostgreSQL runs
at READ COMMITTED: two statements of one transaction may see different carts,
and an INSERT chosen by a SELECT may commit after what it selected changed.
A refresh token may be used once, and a page sends several calls at a time with
the same one. A revocation marks the sessions its statement sees, while logins
and rotations add others. One Redis connection serves everybody and is opened
by whoever finds it closed.

What makes each component correct: an upload that was accepted is eventually
processed, and its event is not lost while its status says `uploaded`; an
asset has at most one worker; a ready asset is complete; an outcome is final;
a deletion leaves nothing behind and, once begun, can be finished; an asset
has at most three release forms; a submitted batch is what was checked, and
what the topics announce about it stands; an order's total is the sum of its
items, a checkout makes one order however often it is tried, a payment is
applied once; a family of sessions has at most one that is usable, a revoked
session has no successor, an inactive account gets nothing; a browser does not
lose its session to its own parallel calls; an address or account passes the
limiter no more often than allowed; the schema is what the record says; the
last consent choice counts; an HTTP call ends, and the error it ends with names
the request.

## 2. Modules

| Module | Models | Role |
|---|---|---|
| `MediaAssets` | tables, object store, topics, locals of workers and handlers | state, `Init`, the constants and their assumptions |
| `UploadApi` | `uploads/service.go` and the queries it calls | actions of the upload handlers and of the browser |
| `ReleaseApi` | `releases/service.go` and its queries | actions of the release handlers |
| `ProcessingWorker` | `processing/processor.go`, `kafka.Client.Consume`, `cmd/media-worker` | actions of the workers |
| `MediaPipeline` | the whole pipeline | `Next`, fairness, properties |
| `AssetLifecycle` | what the pipeline promises about one asset | abstract specification, refined by `MediaPipeline` |
| `MediaPipelineProofs` | | types, final outcomes, deleted rows, the release limit, uploads that are not forgotten |
| `WorkerProofs` | | exclusive claims and the refinement of `AssetLifecycle`; ready assets are servable; failed attempts are cleaned |
| `Commerce` | `commerce/service.go`, `payments/paystack.go` and their queries | carts, checkout, webhook, downloads; state, actions and properties |
| `CommerceProofs` | | types, carts and orders, payments |
| `BatchReview` | `batches/service.go`, `collections/service.go` and their queries, what the catalog shows | batches from draft to decision, favourites and collections |
| `BatchProofs` | | types, announcements, saved assets |
| `IdentityTables` | tables, Redis keys and request locals of `auth.service.ts` and `users.repository.ts` | state, `Init`, locks |
| `AccountApi` | registration, verification, recovery, deletion request | actions on the account and its one-time tokens |
| `SessionApi` | login, refresh, logout, logout of all | actions on the refresh sessions |
| `Identity` | all of them | `Next`, properties |
| `IdentityProofs` | | types and the five properties of accounts and sessions |
| `WebRoutes` | `app/api/**/route.ts`, `media-bff.ts`, `proxy.ts` | what each route does with the session cookie |
| `WebSession` | `identity-session.ts`, `media-session.ts` and the browser | one browser, several calls, shared rotations |
| `WebSessionProofs` | | types, the session a browser keeps, the sign-out it completes |
| `Uploader` | `batch-uploader.tsx`, `media-library.tsx` | the upload loop and the list beside it |
| `Panels` | the other components that load and change a list | one machine, with what distinguishes the panels as a record |
| `AuthServer` | `rate-limit.middleware.ts`, `redis.service.ts`, `health.service.ts`, `kafka.service.ts` | connection, limiter, readiness |
| `AccountData` | `privacy.service.ts` | notices, consent choices |
| `Migrate` | `database/migrate.ts` | several runs of up and down |
| `Environment` | `config/environment.ts`, `durationMs` | the settings that leave `validateEnvironment` |
| `ApiCall` | `lib/api/*.ts`, `bootstrap.ts`, `app.module.ts`, the context and origin middlewares, `problem-details.filter.ts` | one HTTP call with its timeout, through the chain of the service |
| `Components` | the seven modules before it | each of them in one instance |
| `ServiceProofs` | | the limiter, consent, migrations, settings |
| `ComponentsProofs` | | HTTP calls, panels, uploads; the types of all components |
| `MCMediaPipeline`, `MCCommerce`, `MCIdentity`, `MCWebSession`, `MCComponents` | | symmetry sets and values of the TLC instances |

`MediaAssets`, `UploadApi`, `ReleaseApi` and `ProcessingWorker` extend each
other and are composed by `MediaPipeline`. `Commerce` and `BatchReview` stand
alone: what they share with the pipeline, the deletion of an asset, is an
action in each of them. `IdentityTables`, `AccountApi`, `SessionApi` and
`Identity` extend each other. `WebSession` sees the identity service as its
clients do: it rotates the last token of a live family and ends the family when
an older one comes. That is what `Identity` does, with one coarsening: a refused
rotation and the end of its family are one step there. The components in
`Components` share no state; a behaviour is about one of them, named by `part`.

### How the model corresponds to the code

* A row column, object or local that no property tells apart is left out. An
  object is `"none"`, `"ok"` (it has the declared size) or `"wrong"`.
* An API handler is a request slot `h`. `requestAt[h]` is the call it makes
  next, and the other `request...` variables are its locals: the asset and
  item it works on and, for a deletion, the keys left to erase. Each query,
  each storage call and each publication is one step. A transaction is one
  step, because it either locks the row it decides on or consists of
  conditional updates of that row.
* A worker `w` is one consumer of the group. `workerAt[w]` is the next call of
  `Processor.Handle` or of `Consume` around it; `workerPut[w]` is `uploadedKeys`;
  `workerOwns[w]` says that the group has not handed its record to another
  consumer. `queued[a]` counts the records about asset `a` that are not
  committed and that no consumer holds.
* `cancelled` holds the workers whose context is cancelled. An error of one
  consumer cancels all consumers of its process (`SharedProcess = TRUE`, the
  goroutines of `main`) or only itself (`FALSE`, several processes). The call
  a cancelled handler makes next fails; a call in flight is ordered before the
  cancellation. A process is started again when its last consumer returned.
* `stale[a]` says that the claim (`updated_at`) is more than five minutes old.
  With `TimelyWorkers = TRUE` a claim does not age while a worker holds it:
  `Handle` gives itself two minutes and its cleanup ten seconds, and the
  deadline bounds everything between claim and outcome except the final
  UPDATE. With `FALSE` a worker may be suspended for any time.
* `MultiStatementExec` says how the connection treats the one `Exec` with three
  statements and an argument in `CompleteMediaDeletion`. `TRUE` (simple
  protocol) runs them; `FALSE` (the default of pgx, which prepares the
  statement) refuses it.
* `faults` counts crashes, rebalances and failed calls up to `MaxFaults`.
  `unpublished`, `erasing` and `uncleaned` are history: they record that a
  publication was not confirmed, that a deletion has begun to erase, and that an
  attempt at an asset ended and left derived objects in the store. An attempt
  does that when its `Put` errs although the object was stored (`MaybeStored`: the
  key is appended to `uploadedKeys` only after `Put` returned nil, so `cleanup` does
  not know it), when a deletion of `cleanup` fails, and when it ends where there is
  no `cleanup`. An attempt that completes has rows for the objects it finds.
* `Commerce` has one buyer, since no query relates two. A statement of a
  transaction is one step; what it wrote stays in the locals `sum`, `items` and
  `cart` of its request until the commit, which is the last statement. A
  request whose step is in `LockingSteps` holds the lock of its cart row, and
  the statements that would wait for it are disabled. Prices are positive and
  fixed per license, so `total` is the set of licensed items that was summed.
  `Abort` is a failed query, a provider that refuses or does not answer, a
  client that goes away and a crash: the transaction is rolled back and its
  locals are gone. The buyer pays in `Charge`, with the right amount or
  another; `MarkOrderPaid` is the whole webhook, one transaction, and may come
  any number of times. The signature check is the assumption that only the
  provider's events arrive.
* `BatchReview` has one contributor. `AddMediaAssetToBatch` is an INSERT ...
  SELECT, in two steps: `SelectItem` is its snapshot, `InsertItem` its insertion
  and commit. The UPDATEs that submit and review a batch lock its row and look
  at it again, so each is one step. `recheckSubmission` and `recheckReview` are
  the query after an UPDATE that matched nothing. `Lists` are favourites and
  collections. `MaxFaults` bounds the handlers that are cut short.
* `Identity` has one account, since no query relates two. A statement is a step;
  what a transaction wrote becomes visible with its last statement, and the rows
  it holds are `SessionLocks`, `TokenLocks` and `UserLocked`. An UPDATE over many
  sessions takes its snapshot in one step (`rows[h]`) and is applied in a later
  one, when nobody else locks those rows: sessions inserted meanwhile are missed,
  as at READ COMMITTED. Two such updates that wait for each other end by
  `DeadlockVictim`. Passwords are named by the recovery token that set them, and
  access tokens are not counted: whoever was sent anything may ask to sign out
  everywhere. Expiry of a session is the choice `LockSession` has; an operator's
  suspension is `Suspend`. `late` and `signedIn` are history.
* `WebSession`: `route[c]` is what call `c` asked for, a record of what the route
  does with the cookie when it is answered and when something fails. A
  rotation is `asking` at the service, `rotated` or `failed` until its promise
  settles, and calls with the same token that arrive in that time are `joined`
  to it. `disturbed` is history: it is set by an event after which the session
  may be lost by what the code does (section 3), and no further call is sent.
* `Uploader` and `Panels`: a request is sent, read by the service and shown in
  three steps, and any may fail in between. `disturbed` and `mixed` are set when a
  request fails or when two are under way of which either may come last. The
  panels differ in whether a change is followed by a load, whether the panel says
  that it is working, what ends that (the answer of the change, any load, or only
  the load that `retry` itself waits for, `awaited`), and whether a thrown request
  does.
* `AuthServer`: `conn` is the status of the ioredis client, `call` where each of the
  calls to Redis is. A call while another caller connects is refused, since
  commands are not queued; a call that finds no connection dials. When Redis
  goes, calls under way were counted or not. A readiness check asks PostgreSQL,
  Redis and the brokers at once: `asked` are those it waits for besides Redis,
  whose call is `call[Ping]`, `allUp` what the answers say so far. `reachable` are
  the dependencies that can be reached; they come and go like Redis.
* `AccountData`: a consent row gets its time when its INSERT starts and is seen
  after its commit; posts run side by side. `Migrate`: the DDL of a file and its
  record are one transaction, and the locks of the DDL let one such transaction
  run at a time. `Environment`: every variable unset and on either side of each of
  its bounds, the others at their defaults, as no check relates two of them
  except the secrets and `NODE_ENV`, which are given in every combination.
* `ApiCall`: `place` is how far the request is in the service, `caller` what the
  client waits for. `filed` is `request.correlationId` (none until the context
  middleware), and the `header` and `said` of an answer are the id in its header
  and in its problem. Every action of the service may also never happen, which
  is a service that falls silent. That the body parsers precede the context
  middleware is how NestJS orders `app.use` and the middlewares of a module. The
  media service is called as well; its outermost handler is `requestContext`.
* Operators that a comment calls a *faulty variant* are no part of the
  specifications: each is what an action would be with a plausible mistake in
  the code, and the property named for it in `PROJECT.json` then fails.

## 3. Runs

| Run | Instance | Shows |
|---|---|---|
| `pipeline_faults` | 2 consumers of one process, 1 handler, 2 kinds, 1 fault, a contributor who tries again; 143k states | `TypeOK`, `ExclusiveClaim`, `ReadyIsServable`, `NoUploadIsForgotten`, `FailedKeepsNoDerivatives`, refinement of `AssetLifecycle`, `QueuedUploadIsClaimed`, `ErasedIsDeleted`; undisturbed `ProcessingSettles`, `ReadyIsAnnounced` |
| `untimely_workers` | 2 workers whose claims age under them, 1 handler, 2 release ids, limit 1; 1.2M states | `SettledIsFinal`, `DeletedKeepsNoRows`, `ReleaseLimitHolds` |
| `lost_claim` | 1 worker, 1 fault | `StaleClaimIsReclaimed` fails |
| `refused_deletion` | no fault, prepared statements | `ErasedIsDeleted` fails |
| `commerce_safety` | 2 requests, 2 licenses, 2 carts, 2 orders, 2 keys, 2 events; 149k states | `CheckoutIsIdempotent`, `ConvertedItemsAreOrdered`, `EntitledIffPaid`, `PaymentsBalance` |
| `charged_for_removed` | 2 assets, 2 requests | `TotalIsForItems` fails |
| `batch_review` | 2 assets, 1 batch, 2 requests, 1 fault, owners who try again; 218k states | `AnnouncementsHold`, `SavedStaysVisible`, `SubmissionIsAnnounced`, `DecisionIsAnnounced` |
| `identity_safety` | 3 refresh tokens, 1 verification token, 1 recovery token, 2 requests, 1 fault; 2.1M states | `TypeOK`, `OneLivePerFamily`, `InactiveIsRefused`, `CachedIsRevoked`, `RevokedHasNoSuccessor`, `StatusAdvances` |
| `reset_race` | 2 requests | `SignedInWithCurrentPassword` fails |
| `web_session` | 3 calls, 1 web process, 2 families of 2 rotations; 584k states | `TypeOK`, `QuietSessionIsLive`, `SignedOutIsEnded` |
| `small_components` | 3 files, 2 assets, 2 loads; 2 requests of a panel; 2 requests and 3 limiter keys; 3 consent posts, 2 notices; 2 migration runs, 3 files; 1 call, 3 ids of a caller; 461k states | `ComponentsTypeOK`, `PagesCatchUp`, `LimitHolds`, `SchemaIsRecorded`, `LatestChoiceWins`, `ErrorNamesTheRequest`, `WaitingEnds`, `ReadyStays`, `ReadinessFollows`, `CallsEnd` |
| `unnamed_problem` | as `small_components` | `ProblemsNameTheRequest` fails |

The types of commerce and batches are proved (section 5) and no run repeats them.

The bounds. The pipeline has one asset: nothing in it relates two, except the
shared process (see below). Two variant kinds make an attempt that stored some
variants and not others; two workers a takeover or a zombie, and one that the
error of the other cancels. One handler races the workers; two handlers that race
each other are what the theorems add, which hold for any number of both and cover
every safety property of the pipeline, and the same instance with a second
handler, where liveness cannot be checked in reasonable time, has no
violation of them either (559k states up to symmetry, 2.3M with two faults). In
`untimely_workers` there is one handler beside the atomic calls that create and
expire releases.
`MaxEvents = 1` bounds the records of an asset that wait in the topic at a time;
more are in the hands of consumers. `ReleaseLimit` is 3 in the code and 1 where
releases are checked, with two release ids, so that the limit is reached.
In commerce two carts, orders and keys are enough for a conversion to meet the
next cart and for two checkouts to compete for one key; two events for a second
charge of a paid order. Faults are bounded because their number is not what
the properties depend on: one fault reaches every intermediate state of a
handler, and the proofs need no bound. Instances of interchangeable ids use
symmetry where no liveness is checked.

Three refresh tokens are a session, its successor and a token that the other
request holds, the fewest with which a replay meets a rotation. With one
verification token a resend has nothing to supersede; with two the run passes
as well (4.9M states), and `IdentityProofs` holds for any number. Several batches
are the subject of `BatchProofs`. In the web session three calls are a rotation, one that
joins it and one that arrives with an older or newer cookie; one process is the
case in which the code can share a rotation (two are discussed below). The
limiter has two requests from two addresses for one account and a limit of one:
the account's key is at its limit while the addresses' are not. `MaxPolls` is 150
in the code and 1 in the run.

Deadlock is checked in the commerce and batch runs. It is not checked where the
system really stops: a pipeline whose only asset is deleted and whose events are
committed, an account that was suspended before it was verified, a browser that
used up `MaxLogins` or was disturbed, and components whose requests are all made.

`ProcessingSettles` and `ReadyIsAnnounced` are about a pipeline that nothing
disturbed: no fault and no cancelled consumer. Within one asset a consumer is
cancelled only after a fault or a deletion. With several assets the deletion of
one while it is processed is enough: `CompleteMediaAssetProcessing` fails, which
cancels the process with everything else it was working on, and those assets
then wait as in `lost_claim`.

`FailedKeepsNoDerivatives` is about the assets that are not in `uncleaned`. The
service's README has the worker remove "partially uploaded derivatives after a
failure" without exception, and there are these: a `Put` that stored its object and
erred all the same, whose key `cleanup` does not have; a deletion of `cleanup` that
fails; a crash; and, also without a fault, a worker that the cancellation meets
at the completion of another asset, which returns without `cleanup` (only the steps
before it run one). What remains beside a `failed` asset then stays until a later
attempt completes, which writes rows for the same keys, or for good. What the
property says is that nothing else leaves objects behind: no overlapping attempt,
takeover, retry or order of cleanup and outcome does.

### Findings

* `lost_claim`. The record of a crashed worker is redelivered at once, its
  claim is fresh, so the claim is refused, which is not an error, so the record
  is committed. When the claim is five minutes old no event is left to use it.
* `refused_deletion`. Where the connection prepares statements, the deletion
  transaction can never commit, after the objects have been erased.
* `charged_for_removed`. `RemoveBuyerCartItem` takes no lock, and the checkout
  sums and copies the cart in two statements: an item removed between the two
  is paid for and not ordered.
* `reset_race`. A login compares the password with the hash it read, which takes
  a while, and then inserts a session. A reset that commits in between has
  selected the sessions to revoke before the insertion, so the session opened
  with the old password stays, against "Sign in again on every device.".
* `unnamed_problem`. `createApplication` puts the body parsers before the context
  middleware: the problem about a body they refuse bears no correlation id,
  neither in its header nor in what it says, and a well-formed id of the caller
  does not return, against the platform contracts on errors and correlation ids
  (`docs/PLATFORM_CONTRACTS.md:19`, `:23`). The problem of a refused origin has the
  header and no `correlationId`. `ErrorNamesTheRequest` holds for what a client is
  told about a body that can be read.

Observed while modelling; the models contain each of these behaviours unless it
says otherwise, and the properties are stated so that they hold all the same:

* The outcome of processing is published after it is committed and without an
  outbox, so a crash between the two loses `media.processed.v1`. A deletion erases
  what the rows name, and a worker's variants have no rows until it completes:
  objects stored after the listing stay behind with the evidence of deletion
  recorded. A batch item chosen while its batch was a draft may be inserted
  after the submission, past the metadata check, or after the deletion of its
  asset, which makes the batch unsubmittable. An asset stays in its first batch
  for good, also when that was rejected. A paid entitlement downloads nothing
  once the contributor deleted the asset.
* A replayed token revokes the family rows its UPDATE sees; a successor that a
  rotation of the last token inserts meanwhile survives. A logout caches the
  presented token, and from then on its replay is refused from Redis without the
  family being revoked. Every rotation extends the expiry to 30 days from
  then, so it is an idle limit and no absolute one. Two resends at once leave two
  open verification tokens. A registration that failed after the account was
  stored is answered 202 when it is repeated, and sends nothing; a resend does.
* The calls of a page that reach the server after their token was rotated and
  settled look like replays and end the family; an answer that arrives late
  stores an older token over a newer one; the 403 page and every call that throws
  behind a route drop the rotated token; a failed logout at the identity service
  is swallowed. These are the causes that set `disturbed` in `WebSession`, and
  without them the two properties hold. Nor do two web processes share rotations;
  the instance and the theorems have one. A process of the model is a module
  instance with a map of refreshes of its own: Next bundles `proxy.ts`, which
  guards the pages, apart from the route handlers, so where the two run in separate
  instances a page and a call that arrive together do not share a rotation
  either, and the assumption of one process then covers the calls of one of them.
* The panels for batches, metadata and profiles say "Saving..." or "Creating..."
  forever after a request that throws (`WaitingEnds` is about those that catch).
  A failed upload starts again from scratch, with a new asset.
* No completion is logged of a request whose body the parsers refuse. The
  search page shows "0 approved assets" and the media page "not found" whatever
  the call threw. A readiness check that fails is answered by the problem filter,
  so its 503 has no `checks`. A profile without a country code cannot be saved
  from the page, which sends the empty field (the last three are not modelled).
* The first request with an account after Redis was (re)connected is answered
  503, because its second call meets the connection being opened. A consent may
  name a notice that was retired since it was read; publishing a notice needs
  the current one retired first, which leaves a moment without any. A rollback
  beside an apply may leave a gap in the migrations. A duration of `0m` passes
  the start-up check, and the tokens it makes are refused by the table's
  constraint (not modelled).

## 4. Fairness

Pipeline. A started handler and a worker holding a record keep running: they
are sequential code, each call returns or fails, and the next call of a worker
whose context is cancelled fails and it returns (weak fairness of either). A
record that stays in a partition is polled even if the consumers are often
busy, since a partition is read in offset order: strong fairness of `Poll` for
each asset. Time passes: `ClaimAges`. `DeletingSpec` adds a contributor who
repeats an interrupted deletion, which needs a free request slot: strong
fairness. Clients are otherwise free to do nothing, and nothing is assumed of
crashes, rebalances and failures.

Components. Requests end: the upload loop and each request of a panel go on
until they are answered or throw (weak fairness of `Loop` and `Proceed`). Somebody
keeps asking whether the auth service is ready, and a connection attempt ends one
way or the other (`Probing`, `Dialling`). A timeout that is set
fires (`TimeOut`, which is `setTimeout`), and no service needs to answer for
`CallsEnd`. Nothing is assumed of the media service,
of Redis, of PostgreSQL or of the brokers, except where `ReadinessFollows` says
that they stay reachable; nor of users, who may do nothing. `MaxPolls` and not fairness is what
ends a loop whose asset is never processed.

Accounts, sessions and the web session have safety properties only: each handler
ends by itself, and what could keep a session alive or end it is in them.

Batches. `RepeatingSpec`: a started handler keeps running (weak fairness of
`HandlerStep`), and a contributor or reviewer who got no answer to a request
that took effect repeats it, for which a slot must be free from time to time:
strong fairness of `SubmitAgain` and `DecideAgain`. That the repetition publishes
is what `recheckSubmission` and `recheckReview` are for.

Commerce has no liveness property: the webhook is one transaction that is
enabled until it succeeded, and what could keep it from succeeding, an event
recorded without effect, is excluded by `PaymentsBalance`.

## 5. Proofs

All proofs hold for any number of assets, workers, handlers, carts, orders,
batches, tokens, requests, calls, logins, limiter keys, files, migrations and posts
and for any `MaxFaults`. The assumptions on the constants say that the
reserved values are no members of the sets and that bounds are numbers.

* **Types.** `TypeCorrect`, `CommerceTypes`, `BatchTypes`. Typing is not
  inductive by itself: a step uses the asset or row that an earlier step of the
  same handler recorded, so the invariants (`TypeInv` in the pipeline,
  `RequestLocals` in the others) add what the locals hold at each step.
* **Claims** (`WorkerProofs`, assuming `TimelyWorkers`). `ClaimInv`: a worker that
  holds a claim works on an asset that is `processing` (or deleted), whose claim
  is not stale, and no other worker does. A takeover needs a stale claim, so it
  cannot find a holder. `ClaimsAreExclusive` follows, and with it
  `PipelineImplementsLifecycle`: initial states map to initial states, and every
  action is a step of `AssetLifecycle` or a stutter.
* **Serving** (`WorkerProofs`, same assumption). `ServeInv` relates `workerPut`, the
  rows and the objects: what an attempt put is in the store as long as it holds
  the claim, so the rows written at its end name stored objects.
* **Failed attempts** (`WorkerProofs`, same assumption). `FailedAttemptsAreCleaned`
  cannot be shown of failed assets alone. `StrayInv` says it of all: a derived
  object belongs to an asset that is ready or deleted or in `uncleaned`, or to the
  worker that stored it, holds the claim and will remove it or say that it left
  it. With `ClaimInv`, nobody holds the claim of a failed asset. Consumers may share
  a process or not: a cancelled one notes what it leaves.
* **Rows** (`MediaPipelineProofs`, no assumption about time). `OutcomesAreFinal`,
  `DeletionRemovesRows` and `ReleaseFormsAreLimited` follow from the guards of the
  conditional updates; `UploadsAreNotForgotten` from `UploadInv`, an uploaded
  asset has an `EventKept`, which is followed through poll, commit, return and
  publication.
* **Carts and orders** (`CommerceProofs`). `CartInv`: one request at a time is in
  `LockingSteps`, its cart is active (or being created and the only one), the
  items it copied are still those of the cart except for removals, and an
  ordered cart is converted. The unlocked `DeleteItem` may shrink the cart, which
  is why `ConvertedItemsAreOrdered` says that nothing is *lost* and
  `TotalIsForItems` fails. `CheckoutsAreIdempotent` and `ConversionLosesNothing`
  follow.
* **Payments** (`CommerceProofs`). `PaymentInv`: a recorded event names a charge,
  together with the two properties it implies, `PaidOrdersEntitle` and
  `PaymentsAreAppliedOnce`.
* **Batches** (`BatchProofs`). A lemma, `BatchesAdvance`, says which status changes
  any step makes; `AnnouncementInv` adds `PublishersHold`, that a handler about to
  publish holds a batch of the status it announces. `AnnouncementsAreTrue` and
  `SavedAssetsStayVisible` follow.
* **Accounts and sessions** (`IdentityProofs`). The types are not inductive and
  neither is any of the properties, since a rotation is granted several steps
  before it is done. The invariant adds: `Foundation`, what the locals of a request
  hold at each step, and that a token drawn for one request is nobody else's;
  `Rotating`, that a request about to rotate holds the lock of a live row alone;
  `FamiliesAreStored`, that a family begins with a stored row; `CacheFollows`, that
  what is in Redis or about to be cached is revoked; `NothingBefore`, that before
  an account exists nobody works on it; and `LateIsRefused`, that a refresh which
  arrived at an inactive account has not passed the second look at it, and the
  account is still inactive. From `Rotating` and the row lock follow
  `OneLivePerFamilyHolds` (a rotation replaces the one live row) and
  `RevokedIsNotRotated`; `StatusOnlyAdvances` needs `NothingBefore`.
* **The web session** (`WebSessionProofs`, assuming `OneProcess`, one web process).
  Both properties are about the moments when no call is under way; `QuietInv` says
  what leads to them. Either one call that signs in, signs out or deletes the
  account is under way, alone, and `EndingOK` says how far it has come; or nobody
  begins or ends a session, and then (`SessionOK`) the browser's family is the
  only live one, its last token is the cookie or the one after it, in the second
  case some call brings that token (`Carries`), and at most one call leads a
  rotation, of the cookie itself. `QuietSessionsAreLive` and `SignedOutAreEnded`
  are `QuietInv` with all calls idle. The assumption is needed: with two processes
  two calls ask for a rotation of the same token, the second is a replay, and
  TLC finds `QuietSessionIsLive` violated. `SessionTypes` needs no assumption.
* **The limiter** (`ServiceProofs`). That a count is the number of requests in its
  window does not bound those that go on, since the counts are told at different
  times. `ServerInv` adds `CountsDiffer`: at most `n` requests of a window were
  told `n` or less, so at most `Limit` were told to go on: `LimitIsKept`.
* **Consent** (`ServiceProofs`). No time is ahead of the number of rows
  (`TimesCount`), so a post that begins after an answer gets a later time than the
  answered one (`EarlierIsOlder`): `LatestChoiceWinsHolds`.
* **Migrations** (`ServiceProofs`). `MigrateInv`: the schema is the set of what is
  recorded, a run that applies files is at most one past the record, and as long
  as no rollback overlapped another run (`InOrder`), the record is an initial
  segment of the files and a rollback is alone with its last entry:
  `SchemaIsRecordedAlways`.
* **Calls, panels and uploads** (`ComponentsProofs`). `CallInv` (`IdsAgree`): a
  request has no id before the context middleware and the same one ever after;
  only a body that is refused is answered before it; and the problem a client
  gets says what its header says: `ErrorsNameTheRequest`. `PanelInv`: what a panel does not show yet is carried by
  a request, and the loads of a panel that reloads come one at a time.
  `UploaderInv`: two entries share no asset, a file that is ready leaves the queue,
  and an undisturbed load reads all that was ready. `PagesCatchUpAlways` follows from
  these two and `ReadyFilesStay` from the second.
* **Settings and types.** `ComponentsTypes` puts the invariants of the seven
  components together. For `Environment` it says that what `validateEnvironment`
  accepts works (`ValidWorks`), by cases over what a deployment may set.

Only model-checked are the liveness properties (`QueuedUploadIsClaimed`,
`ErasedIsDeleted`, `ProcessingSettles`, `ReadyIsAnnounced`, `SubmissionIsAnnounced`,
`DecisionIsAnnounced`, `WaitingEnds`, `ReadinessFollows`, `CallsEnd`), which rest on
fairness and so on `ENABLED`, and the properties that fail. Every invariant and
action property that a passing run checks is proved.

## 6. Not modelled

* Reading handlers (Get, List, Purchases, catalog search and its paging), the
  wording of errors, ownership checks (a request names a row its caller owns),
  media formats and rendition sizes, and several buyers, contributors or
  accounts at once: no query relates two.
* The offsets of a Kafka partition and records that cannot be decoded: a record
  is queued, held or committed, and every record the services write can be
  decoded. Retention of the topics.
* The worker pool and the Redis client of the media service: neither program uses
  them. The HTTP router and the token verifiers: they keep no state. Start-up,
  and the order of shutdown of the API process: what a shutdown does to a request
  is the fault every handler may meet.
* The migrations runner of the media service, a Go program of the same shape as
  the one that is modelled. Data-subject requests and profiles: single
  statements. The retention SQL, run by hand. Rendering, and the web
  routes without a session.
* Time: token lifetimes, idle limits and the limiter's window end at any moment
  the model chooses.
