# Miravelt: verification project

TLA+ models of the backend of Miravelt (a FastAPI service over MongoDB, GridFS,
Milvus and Redis, with a Flutter client), the TLC configurations that check
them on small instances, and proofs that TLAPS checks for every instance.
Paths are relative to the root of the repository.

## 1. The system

| Component | State it keeps | Operations | What is hard |
|---|---|---|---|
| Statement upload (`routers/statements.py`) | statement, job, GridFS file | upload, delete, read | several writes with no transaction; deletes beside the task |
| Statement processing (`statements/statement_service.py`) | the task's locals; statement, job, transactions | `process_statement`, a background task of the same process | dies with the process; interleaves with every request |
| Startup recovery (`app.py`) | none | fail what the last process left | may die half-way itself |
| Transactions (`repositories/transaction_repository.py`) | one row per (user, reference number) | bulk upsert, delete by statement, recategorize | one row is shared by overlapping statements |
| Jobs (`repositories/job_repository.py`, `routers/jobs.py`) | status, stage, percentage | polled by the client | must become final; must not say COMPLETED too early |
| Analytics (`analytics/statement_analytics.py`) | embedded in the statement | computed once | several queries, no snapshot |
| What a statement says (`statements/pdf_parser.py`, `engines/rule_engine.py`, `insights/`) | the result fields of the statement | parse, categorize, reconcile, insights | records lost in silence; a model that answers anything |
| Feedback, retraining (`feedback/`, `tasks/retraining_tasks.py`) | feedback, queue of corrections, categories of rows | correct, count, lock, dispatch | multi-write corrections; two checkers; uploads beside |
| Memory engine (`memory/`, `repositories/profile_repository.py`) | one profile per merchant | encounter, promote, archive sweep | decisions on a stale read |
| Authentication (`routers/auth.py`, `repositories/refresh_token_repository.py`, `frontend/lib/core/network/auth_interceptor.dart`, `admin-dashboard/src/proxy.ts`) | refresh tokens, devices; the clients' storage | register, login, refresh, logout | read-then-revoke; lost answers; killed apps |
| Admin (`routers/admin.py`, `core/retention_manager.py`) | users | disable, delete, change role, clean up | beside logins and refreshes; stale scopes |
| App releases (`repositories/app_release_repository.py`) | releases, one of them latest; APKs | publish | unset, then insert |
| Cache (`core/cache.py`, `routers/analytics.py`) | Redis entries | cache-aside | a clock read twice; stale fill |
| Pipelines (`routers/pipelines.py`, `tasks/`, `milvus/`, `clustering/`, `graphs/`) | patterns, vectors, clusters, graph | profile, sync, cluster, build | long runs over moving data; Milvus comes and goes |
| Explanations (`rag/`, `core/ollama_client.py`) | the Ollama host in use | explain | a host chosen once among hosts that stop and start |
| Request gate (`core/middleware.py`, `core/error_handlers.py`, `core/security.py`) | none | pass, refuse, answer an error | who answers, inside or outside of which layer |
| Pure algorithms (`engines/confidence_engine.py`, `services/`, `features/`) | none | score, resolve | boundary values |

The request handlers and `process_statement` run on one event loop in one
process (`docs/16-known-issues-tech-debt.md` names the constraint); they share
little but the store, and interleave where they await it. A Celery worker runs
the retraining and pipeline tasks in a process of its own, with its own Milvus
client and its own graph. The app polls `GET /jobs/{id}` after an upload and
refreshes its session when an access token expires; the dashboard does the
latter once per page. The knowledge graph is built from the memory states that
encounters write; vectors and clusters from the patterns that profiling writes.

What makes each component correct:

- *statements and jobs*: a job becomes final; COMPLETED means readable results;
  statement and job do not contradict each other; nothing outlives a delete;
  no transaction of a completed statement is lost; its analytics are about its
  transactions.
- *feedback*: a logged correction is applied and queued, and survives.
- *retraining*: a correction is trained on once.
- *memory*: a merchant that is seen often enough is permanent; encounters are
  not lost.
- *authentication*: a refresh token is redeemed at most once; a logout or a
  deletion ends what it says it ends; a client in good standing stays signed in.
- *releases*: exactly one release is the latest, before and after each
  publication, and it can be downloaded.
- *pipelines*: what is derived keeps up with what it is derived from, and a job
  accounts for all it was given; Milvus comes back without a restart.
- *reading, insights, explanations*: what is shown as complete is complete, and
  there is an answer unless what it needs is down.
- *gate*: limits hold whatever the client declares; every error can be traced.

`PROJECT.json` lists the hazards, each at its line, with the properties that
cover it.

## 2. Modules

| Module | What it is |
|---|---|
| `StatementPipeline` | upload, task, delete, crash, restart and startup hook over the store |
| `JobContract` | abstract: what a client that polls a job may rely on |
| `StatementProperties` | the properties of the pipeline and the refinement mapping to `JobContract` |
| `MCStatementPipeline` | the instances that TLC checks |
| `StatementPipelineProofs` | type correctness, no transaction lost, COMPLETED jobs have results, exact analytics, statements in flight are owned |
| `StatementContractProofs` | no job outlives its statement, jobs in flight are owned, deletes are complete; the pipeline implements `JobContract` |
| `Sessions` | accounts, refresh tokens, and the clients that hold them |
| `Administration` | extends it by the endpoints of the administrators; the properties of both and the refinement mapping to `SessionContract` |
| `SessionContract` | abstract: the life of a session |
| `MCSessions` | the instances of the two |
| `SessionsProofs` | proofs about both |
| `MerchantMemory` | encounters, promotion and decay of the merchants' profiles |
| `Knowledge` | extends it by what the batch jobs derive, in two processes, with Milvus |
| `AppReleases` | publication of the app |
| `Corrections` | corrections of categories, the retraining queue, uploads beside them |
| `AnalyticsCache` | the cached analytics that depend on the clock |
| `StatementReading` | from the text of a statement to its rows, totals and insights |
| `Explanations` | `POST /v1/explain` and the choice of the Ollama host |
| `RequestGate` | the middleware, the body limit and the error handlers around a handler |
| `Services` | composes the eight above, from `MerchantMemory` on |
| `MCServices` | its instances |
| `MerchantMemoryProofs`, `CorrectionsProofs`, `AppReleasesProofs` | proofs about each of these modules |
| `FrontProofs` | proofs about `AnalyticsCache`, `RequestGate`, `Explanations` and `StatementReading` |
| `ServicesProofs` | `Services` implements the specification of each part; proofs about `Knowledge` |

Each module of the services has its own specification (`MemorySpec`,
`ReleasesSpec`, ...) and properties; `Services` runs them side by side.

### How the models correspond to the code

`StatementPipeline`: one action is one awaited store operation with the local code up to the next
await. `upload[s]`, `task[s]`, `deletion[s]` are program counters; their
values name the operation that comes next, and the task's are the stages that
`update_progress` writes.

| Code | Model |
|---|---|
| `upload_statement`: validation, `store_pdf`, `create`, `create`, `set_job` + `add_task` | `UploadReject`, `UploadStorePdf`, `UploadCreateStatement`, `UploadCreateJob`, `UploadAccept` |
| `process_statement`: the lookup, the try block, the except block | `TaskFetch`; `TaskMarkProcessing` ... `TaskCompleteJob`; `TaskRaise`, `TaskFailStatement`, `TaskFailJob` |
| an exception outside the try block or within the except block | `TaskEscape` |
| `bulk_upsert`, unordered | `TaskUpsert`, one row at a time in any order |
| `compute` | `TaskTotal` (the first query), `TaskBreakDown` (the later ones) |
| `delete_statement` | `DeleteBegin`, `DeleteTransactions`, `DeleteJobs`, `DeletePdf`, `DeleteStatement` |
| `delete_pdf` swallows an error | `DeletePdfFails` |
| `_fail_interrupted_statement_jobs` | `RecoverFind`, `RecoverFailJob`, `RecoverJobsFailed`, `RecoverFailStatement`, `RecoverDone`, `RecoverRaise` |
| the process dies; Docker starts it again | `Crash`, `Restart` |

Documents are abstracted to what the properties tell apart: a statement to its
status and its analytics, a job to its status and percentage, a transaction to
the statement that owns it, analytics to the sets of rows that its queries saw.
Documents are created once and their ids are never reused, so an upload, its
statement, its job and its file are one element of `Statements`. Sending the
same PDF again is another element with the same `Content`.

Where `StatementPipeline` simplifies:

- A store operation that raises has no effect, except for the bulk write, of
  which any part may be stored. Lost acknowledgements are not modelled.
- `delete_many` is one step; `update_many` of the startup hook goes row by row,
  so that a crash can find it half done.
- The queries of `compute` after the first one are one step. Splitting them
  would add interleavings of the same kind that the two steps have.
- Profiling and embedding touch only the merchant knowledge base and swallow
  their failures; they are boundaries between steps.
- The same statement is deleted by one request at a time (and again after a
  failure). The operations of a delete are idempotent.
- There is one process. Corrections of categories do not touch the ownership of
  rows and are left to `Corrections`.

*`Sessions` and `Administration`.* A request occupies a slot from the moment the
client sends it to the moment the server has answered. `Answer` is the end of a
request together with what the client's code does about it; a client that gave
up (`GiveUp`) or was killed (`Kill`) gets none.

| Code | Model |
|---|---|
| `register`: the look, the insert under the unique index | `RegisterCheck`, `RegisterCreate` |
| `login`: look and checks, device list, tokens | `LoginFind`, `LoginTrack`, `IssuePair` |
| `refresh`: `get_by_hash`, reuse, `get_by_id`, `revoke`, tokens | `RefreshFind`, `RefreshBurn`, `RefreshLoadUser`, `RefreshRotate`, `IssuePair` |
| `logout` | `LogoutRevoke` |
| `_refreshInFlight` of the app; `refreshTokens` of the dashboard | `RefreshSend`: one at a time, or one per page |
| `_doRefresh` fails, `logout` fails: the storage is cleared | `GiveUp` |
| `toggle_user_active`, `update_user_role`, `delete_user` | `SetActive`; `SetRole`; `DeleteUserSessions`, `DeleteUserAccount` |
| `run_full_retention_cleanup` | `RetentionCleanup`: its one effective part |
| the TTL index on `expires_at` | `Expire` |

A token is an index in the order of issue, and belongs to the session of the
login it descends from. Access tokens are reduced to their scope; they stay
usable while they are stored. The variables of `ledger` and `adminVars` are
history: they record the circumstances that a property excepts.

*`MerchantMemory` and `Knowledge`.*

| Code | Model |
|---|---|
| `process_encounter`: atomic increment, later the state | `Encounter`, `set_memory_state` (or `LoseEncounter`) |
| `run_archive_sweep` | `run_archive_sweep`, which ends at the first stale profile |
| `profile_merchant_behavior`: the reads, the upsert | `ProfileRead`, `ProfileWrite`, for one merchant or all |
| the `except` of the loop over all merchants | `ProfileFails`: this merchant is skipped |
| `sync_embeddings`, `_sync_embeddings` | `StartSync`, `InsertVector`, `InsertFails` |
| `run_discovery_pipeline` | `RunClustering`, one step: its Milvus calls are synchronous |
| `build_graph`: clear, reads, adding | `StartBuild`, `BuildRead`, `BuildAdd` |
| `_milvus_reconnect_loop` | `TryConnect`, `ConfirmConnection`, `EnsureCollections` |
| start of server and worker: `connect`, then `ensure_collections` | `StartProcess`, `PrepareCollection`, which may fail on its own |
| their end | `StopProcess` |

Versions stand for contents: `data[m]` counts the additions to a merchant's
transactions, a pattern is the version it was computed from and a vector the
pattern it embeds.

*`AppReleases`*: `Publish` (the checks), `store_apk`, `UnmarkLatest`,
`InsertRelease` or `InsertRefused` are the operations of `publish_release`;
`BreakOff` ends it anywhere.

*`Corrections`*: a correction is one action per store operation:
`submit_feedback` (the row is the caller's own), `lookup_merchant_name` (the row
is read again for its merchant), `SaveFeedback`, `update_category`,
`queue_for_retraining`; it may break off before each. `check_retraining_status`,
`LockPending`, `Dispatch` are a check of the queue, after a correction or by the
beat; `bulk_upsert`, `categorize_transaction`, `delete_for_statement` what
uploads and deletes do to categories. Corrections of several users and
merchants are in progress at once; `update_many` is one step. A row that is
deleted and uploaded again is another document, so a correction remembers that
the one it is about is `gone`; its merchant is then looked up in vain. `decided`,
`fresh` and `before` are history: which correction a row was given last, which
rows an upload wrote since, and which corrections had ended when one came.

*`AnalyticsCache`*: `Hit`, or `Miss`, `Compute`, `Put`, of `cached()` around the
month-over-month trend. Key and answer take the month from the clock at
different times (`NextMonth` may come between). The other cached endpoints have
neither.

*`StatementReading`*: a record of the PDF is the three lines the pattern spans;
`extract_text` lays the records out, wrapped or with a footer between,
`parse_transactions` finds what the pattern matches. `Conclude` is the end of
`process_statement` for one statement by itself: totals, reconciliation,
insights from the model's reply or computed. Here content matters and nothing
is concurrent; in `StatementPipeline` it is the other way round.

*`Explanations`*: the calls of `explain_transaction` in their order, and within
the first and the last of them `resolve_ollama_host`, one host per step. Each
may fail; a failed read of MongoDB ends in a 500.

*`RequestGate`*: one action per layer in the order `app.py` stacks them,
`Receive` per chunk of the body, the key checks, the handler, and the four ways
an error is answered.

*`Services`*: a behaviour exercises one scenario, a set of parts that run
concurrently (below); the state of the others stays as it is. Parts that are
never together share no state.

## 3. Assumptions

*Fairness* (`Fairness`): the event loop resumes every handler and task whose
store operation has answered (weak fairness of `UploadStep`, `TaskStep`,
`DeleteStep` per upload); the startup hook runs before the server answers
(`Recovery`); the container is started again (`restart: always` in
`docker-compose_production.yaml:37`). Clients, crashes and failures are not
fair: nothing has to be uploaded, deleted, or go wrong. A crash disables the
handlers, and `MaxCrashes` bounds the crashes, so liveness is about what happens
once crashes stop.

`Services!Fairness`: the container is started again, and the reconnect loop is a
task of the event loop that sleeps and tries again, for ever
(`app.py:68-75`), so its three steps are weakly fair. Milvus itself is not;
`MilvusRecovers` assumes that it stays up from some time on. No other service
promises progress in the code.

*The client*: two properties need an assumption that the server does not
enforce, each a next-state relation whose deletes are guarded.
`PatientSpec`: a statement is deleted only after the 202 that names it
(`PatientDelete`, `PatientNext`). `TidySpec`: it is deleted only once it is COMPLETED or
FAILED (`TidyDelete`, `TidyNext`). The violation runs show what happens without them.

*The services*: a property excepts the circumstances under which the code does
not give what the property says, by a history variable that is set exactly
there, and reset where the code repairs it (`raced`, `disturbed`, `crossed`,
`mixed`, `fresh`, `lapsed`), so that the repair is part of the property.
`trouble` is not reset: after an app was killed during a refresh or logout, or
logged out beside its own refresh, the server may end all of its user's
sessions. Operations of the driver are atomic and acknowledged; the reference
numbers of a statement's payments are distinct.

## 4. Runs

| Run | Instance | Shows |
|---|---|---|
| `recovery` | 2 uploads, 3 disjoint transactions, 1 crash, `PatientSpec` | types; what is in flight has somebody working on it, whatever the crash interrupted; analytics exact where nothing overlaps |
| `faults` | the same PDF twice, 1 crash, 1 failing operation, deletes at any time | no transaction lost; a COMPLETED job has results |
| `contract` | 1 upload, 3 crashes, 2 failing operations, `FairPatientSpec` | implements `JobContract`; no job outlives its statement; polling ends |
| `cascade` | 2 overlapping uploads, 1 crash, `TidySpec` | a delete that answered left nothing behind |
| `find_delete_race` | 2 overlapping uploads | `CascadeComplete` fails if the task still runs |
| `find_early_delete` | 1 upload, fair, no crash | `PollingEnds` fails for a delete before the 202 |
| `find_recovery_crash` | 2 crashes | `InFlightStatementIsOwned` fails if the startup hook is interrupted |
| `find_overlap` | 2 overlapping uploads | `AnalyticsExact` fails if they are processed at once |
| `sessions` | Ann with a phone and a tablet, Bob at his desk; 2 requests at once, 3 tokens and one mishap or one admin call, or 2 tokens and three calls | sessions end when they should (logout, deletion, alarm) and not otherwise; devices are recorded; an administrator remains; implements `SessionContract` |
| `find_double_refresh` | Bob at his desk, 2 requests, no mishap | `RedeemedOnce` fails for two refreshes of one token |
| `services` | 11 scenarios, below | 20 properties of the services |
| `find_lost_correction` | the corrections of `services` | `QueuedReachesMerchant` fails if the row is deleted before its merchant is looked up |

Scenarios of `services`: encounters beside the sweep; encounters beside graph
builds; three profilings, syncs and clusterings; one of these beside two outages
of Milvus or a process; graph builds beside two outages; and each of releases,
corrections, analytics, reading, explanations and gate by itself. The processes
and Milvus begin as up; where they can stop and start (`links`), as down too.

*Bounds.* Two uploads are what a shared row needs: one that owns it and one that
takes it; a third would repeat the second. Two transactions in a PDF tell a
half-done bulk write from none and from all, and one shared and one private row
tell totals from breakdowns. One crash meets every step of every handler,
and `contract` has three, so that the startup hook is interrupted and the one
after it as well. `faults` gives each PDF one row, as its properties are about
one row at a time, and is symmetric in the uploads, which have the same content
and retain nothing.

Three tokens in `sessions` are a login, its rotation and another login or
rotation, and two slots are enough for one request to come between any two steps
of another, for two refreshes of the dashboard as well. `EitherOr` says which
numbers are explored together. One mishap or one admin call beside three tokens:
what they do together is excepted by the properties anyway (a killed app, a
deletion), and each alone meets every step. Three admin calls beside two tokens,
the fewest with two administrators: Bob promotes Ann, who then logs in, and one
of them demotes the other, who has an access token that still says "admin" or a
call that was accepted before, and demotes the first. So the run meets what
`AnAdminRemains` excepts, and every order of two such calls. In `services`,
thresholds of 2
and 3 and four encounters reach every memory state with two callers in each; two
merchants tell a repaired one from one that is not; versions up to 2 tell a
pattern that is older from one that keeps up; three publications by two
operators overlap and then one runs alone; three of Ann's and Bob's rows share a
merchant and one has none, so that a correction must spread and must stop; two
corrections overtake each other, and an upload and a delete come between any two
of their steps; two
checkers of a threshold of two are one too many; two months and two readers meet
midnight in every step of a request; two payments in three layouts, and replies
of every shape; two hosts with three stops; bodies of up to 5 in a limit of 3,
in chunks of any size.

`CHECK_DEADLOCK FALSE` in every configuration: once every
upload is handled, and the budgets of crashes, tokens, jobs and the like are
spent, the system is idle.

*Mutants.* Next to a definition stands a mutated form of it (its comment begins
with "Mutant of"): a plausible slip in that code, such as a dropped await or a
forgotten status in a query. No action uses them; each is substituted for its
original to see that a property notices.

## 5. What the violation runs show

1. **A delete does not stop the task** (`find_delete_race`). The task's bulk
   write puts back rows with the id of a statement that no longer exists. They
   keep counting in the user's analytics, and no endpoint removes them.
2. **A delete can overtake its upload** (`find_early_delete`). The list shows a
   statement before its job exists. Deleting it then leaves a job that the task,
   finding no statement, never moves.
3. **The startup hook is not restartable** (`find_recovery_crash`). It keeps the
   ids of the statements only in memory after it has failed the jobs. Failing
   the statements first would make it so.
4. **Overlapping statements take rows from each other** (`find_overlap`). A
   statement's analytics are not about all that its PDF lists.

5. **A refresh token can be redeemed twice** (`find_double_refresh`). Two
   requests that both look the token up before either revokes it get a pair
   each: `revoke` does not report whether it changed a document.
   The app sends one refresh at a time; the dashboard sends one per page.
6. **A correction can be queued without reaching its merchant**
   (`find_lost_correction`). The row is read once to check its owner and again
   for its merchant. If its statement is deleted in between, the merchant is
   None: the correction is "applied" to the one row, which is gone, the
   merchant's other rows keep their category, and it is queued for retraining
   all the same. `get_by_id` already has the merchant when it answers.

Found on the way, and not runs because nothing in the repository says otherwise,
or because it is a matter of a single line and not of behaviour.

*Merchant memory*: the archive sweep archives nothing, although
`memory/decay_engine.py:15` says that it does. `get_stale_profiles` leaves an
`ObjectId` in `_id`, which `MerchantProfile` refuses. The endpoint answers 500 as
soon as there is a stale profile, and the Celery task fails.

*Statements*: a crash between the two `mark_completed` lets recovery fail a statement that was
COMPLETED (its job never was); a crash between `store_pdf` and `create` leaves a
file that nothing refers to; a crash between the two `create` leaves a statement
PENDING, without a job; `delete_pdf` swallows errors, so that a delete may leave
the file; `get_by_id` before the try block may raise and leave the job
in flight until the next restart.
A second process on the same database (which `docs/16-known-issues-tech-debt.md:74`
forbids) fails the jobs of the first. The reconciliation compares the parsed
records and not the stored rows, so that two records with one reference number
count twice.

*Sessions*: an app that is killed between the server's rotation and its own save
presents a revoked token when it starts again, and all of its user's sessions
end; so does one that logs out beside its own refresh. A lost answer signs the
app out and leaves a live token nobody holds. A rotated token loses its
`device_id` (`auth.py:209`). An administrator may disable or delete themselves,
and one who was demoted goes on until the access token expires. Every call of
the devices router raises a `TypeError`, as it subscripts a `User`.

*Corrections*: a re-upload undoes a correction, and new transactions of a
corrected merchant get the category of the rules. Records stay `processing` if
the dispatch or the training fails.

*Releases*: a publication that fails between its two last writes leaves no
latest release, two that overlap may leave two, and either leaves its APK.

*Pipelines*: `_milvus_reconnect_loop` ends with an exception if Milvus fails in
`ensure_collections`, with a client and perhaps no collection. The worker never
reconnects. Readers of the graph find it empty during a build. An overtaken
profiling writes an older pattern over a newer one.

*Explanations*: once a host is chosen nothing fails over, although
`.env.example:54` calls the list a failover list. A failure to embed reads as
"No historical behavior found".

*Gate*: the answer to an unhandled exception is written outside of all layers
and has no `x-request-id`, security or CORS header (`app.py:158-160` says that
the last are on every response); its envelope names the id. The default limits of the rate limiter apply to
decorated routes only.

## 6. Proofs

A theorem holds for every value of the constants that satisfies the named
assumptions of its module: any users, rows, hosts, operators, limits and bounds.
Every invariant and every action property that a passing run checks is the statement of
a theorem; the run shows it on a small instance. Where a theorem needs more than
the specification, the hypothesis is part of its statement:

| Theorem | Hypothesis | Why |
|---|---|---|
| `StatementOwned`, `StatementOwnedOnce`, `JobOwned` | `NothingEscapes` at every step | a write that fails outside the try block, or within the except block, leaves the statement or job in flight until the next start; so does one that ends the startup hook |
| `StatementOwned` | `HookFinishes` | a crash between the hook's two updates loses the list of statements (`find_recovery_crash`) |
| `StatementOwnedOnce` | `MaxCrashes <= 1` | then no crash can hit the hook |
| `JobHasStatementCorrect`, `ContractImplemented`, `PollsNeverContradict`, `JobOwned` | `PatientSpec` | `find_early_delete` |
| `CascadeKept` | `TidySpec`; `DeletePdfFails` never happens | `find_delete_race`; `delete_pdf` swallows errors |
| `AdminsRemain` | `Founders # {}` | before `scripts/create_admin.py` has run there is no admin |
| `RedeemedOnceOneByOne` | `OneByOne` at every step | `find_double_refresh` |

`recovery` and `cascade` are bounded accordingly (no failure that escapes, one
crash). Crashes and caught failures are unbounded in all of these theorems but
`StatementOwnedOnce`.

### The pipeline (`StatementPipelineProofs`, `StatementContractProofs`)

- `TypeCorrect`: `Spec => []TypeOK`.
- `StoredCorrect`: `Spec => []StoredBeforeCompleted`. The property does not
  speak of tasks, so it is not inductive. `StoredInv` follows the task from its
  bulk write to the end: what it has upserted is stored or claimed by a delete
  (`Kept`), and a row is owned only by a statement that lists it (`RowsListed`),
  so that a delete takes only what its statement lists. `KeptStable` shows that
  no step takes a kept row away.
- `ResultsCorrect`: `Spec => []ResultsBeforeDone`. `HandlersInv` says where the
  handlers of one upload can be relative to each other (no task before the 202,
  no handler unless the server is up, no ids in the startup hook while it is
  up); `ResultsInv` that a task which is about to complete the job has published
  the results, and that nobody who could fail the statement is left afterwards.
- `ExclusiveExact`: `Spec => []ExclusiveAnalyticsExact`, with faults, crashes
  and deletes. `ExactInv` says of a statement that shares nothing what its task
  has seen at each of its steps: after the bulk write its rows are all there and
  its own (`ExclusiveRowStays`: nobody else lists them), so that the first query
  and the later ones see the same.
- `StatementOwned`, `StatementOwnedOnce`. `HeldInv`: while the server is down or
  in its startup hook, a statement in flight is held by something that outlives
  the crash: a job in flight that the hook has yet to read, or the hook's list.
- `JobHasStatementCorrect`: `PatientSpec => []JobHasStatement`, and
- `ContractImplemented`: `PatientSpec => ImplementsContract`, the refinement of
  `JobContract` with the mapping of `StatementProperties`: `phase` is the job's
  status, `percent` its percentage, `results` the uploads whose statement is
  COMPLETED with analytics. `JobInv` ties the job's status and percentage to the
  steps of its task; `TaskImplements` and `OthersImplement` map each action to a
  step of the contract or to a stutter.
- `PollsNeverContradict`: what follows for the app from the contract alone
  (`ContractSteps`), and so for the pipeline: of two answers the later one does
  not show less progress, a final status stays until the job is deleted, and
  COMPLETED means readable results.
- `JobOwned`: the hook fails every job in flight in its first update, so unlike
  the statement a job survives crashes in the hook; `OwnedInv` adds which jobs
  are still to be failed while the hook runs.
- `CascadeKept`. `CascadeInv` follows a delete of a finished statement: what it
  has removed stays removed, because the only writer of the rows and of the job,
  the task, is over before the delete may begin, and after a crash too.

### Sessions (`SessionsProofs`)

`FormInv` (with it `SessionsTypeCorrect`): requests, storages and sessions only
name tokens of their own client, and a session its first token. Then

- `OneLiveToken`, `LogoutIsFinal`, `ClientStaysSignedIn`, `AlarmIsTrue` from one
  invariant, `CalmInv`, about the clients that were never killed in a refresh or
  logout nor had two at once. None of the four is inductive, and none without
  the others: that rotation leaves one live token needs that no second request
  presents the same session (`Apart`), which needs that a client waits only for
  what it has stored, and gave up the session of what it no longer waits for
  (`InStep`); that a revoked token is never presented needs that the live token
  is the stored or presented one (`Sole`).
  `FadesCalm` does the steps that only end requests and revoke tokens, once.
- `DeletedStaysOut`, `DevicesListed` from `AccountsInv`: a user who was deleted
  in a quiet moment stays quiet, and a login that nothing overlapped knows the
  device list as it is.
- `AdminsRemain`: the caller of a demotion was an admin when it was accepted, and
  is not its target.
- `RedeemedOnceOneByOne`: what `find_double_refresh` refutes for the pages of the
  dashboard is true of clients that have one such request in flight at a time
  and do not die in it, whatever they give up. `NeverBeside` is why: what such
  a client no longer waits for is about a session it has given up.
- `SessionsImplementContract`: the system implements `SessionContract`. The
  mapping (`LifeOf`) calls a session open while one of its tokens is live, renewing
  while there is none but a refresh that found one live has not ended, and over
  otherwise. Every step but `IssuePair` brings no token and lets only those
  refreshes in that find their token live (`BringsNone`), so that it can only close
  sessions (`ClosesOnly`); `IssuePair` begins the session of a login or renews that
  of a refresh (`IssueLives`). This holds of any client, killed or not.

### The services

*Composition* (`ServicesProofs`): `PartsImplemented` shows that `Services!Spec`
implies the specification of each part (every step of the whole is a step of a
part or leaves its variables alone), so that what is proved of a part by itself,
below, holds of it in the composition (`PartsKept`, `ServicesTypeCorrect`).
`Knowledge` has behaviours only within `Services`; its theorems are about
`Services!Spec`.

*Merchant memory* (`MerchantMemoryProofs`): `MemoryHealsCorrect` and
`NeverDemotedCorrect`. `NotAhead` says that neither a profile nor a write that
is due is ever ahead of what the frequency has earned, `DueIsEarned` that
without a race the write that is due is the only one and brings what is earned;
together they make `MemoryInv`, because `MemoryHeals` alone does not look at
callers between their two writes.

*Knowledge* (`ServicesProofs`): `KnowledgeTypeCorrect`, `SyncAccounts`,
`GraphHasOneState`, `PatternsKeepUp`. `KnowledgeInv` consists of
the kinds of values (`DerivedForm`), the jobs and the reconnect loop running only
in processes that are up (`LinksInv`), a sync having each pattern of its snapshot
in one of three places (`SyncInv`), a build holding at most one state per merchant
where it runs alone (`BuildInv`), and a profiling having read no more than there
is and no less than the pattern shows (`ProfilingInv`).

*Corrections* (`CorrectionsProofs`): `CoversMerchantCorrect`, `OwnRowsCorrect`,
`QueuedIsAppliedCorrect`, `TrainedOnceCorrect`, `TrainedOnEnoughCorrect`.
`QueuedIsApplied` names the queued correction itself: a row it is for shows it,
or one that had not ended when it was submitted. It does not speak of the
corrections that were applied and not yet queued, nor of what overtook them, so
it is not inductive. In `IntakeInv`, `Recorded` says what a correction at each
of its steps has written, `Decisive` that a row is decided by a correction that
reached it, and `InForce` that a row which an applied correction reached is decided
by it or by one applied after it, hence by one that had not ended before.
`BatchInv` follows a check of the
queue: what a checker or a training holds is locked and held once (`LockedOnce`),
and a checker nobody ran beside counted and locked a full batch (`SoloOnEnough`,
which needs the theorems on finite sets).

*App releases* (`AppReleasesProofs`): `OneLatestCorrect`,
`DownloadsWorkCorrect`, `PublishedIsFinalCorrect`. In `ReleasesInv`, `OneAtATime`
says that undisturbed there is one publication, `LatestIsNewest` what is latest
between its two writes, `StoredFirst` that a publication past the check of its
APK has it in the store. That a version once published stays what it is
(`PublishedIsFinal`) is proved only: it is what the unique index does.

*Cache, gate, explanations, reading* (`FrontProofs`):

- `AnswersTheQuestionCorrect`. `CacheInv` carries the property back from the
  answers to the entries of the cache and the requests in progress, by the month
  of their keys.
- `WholeBodyCorrect` and `TraceableCorrect`. `GateInv`: what was handed on is
  what arrived until a chunk is refused (`Counted`), a request past the second
  layer has its id and only the handler answers for the handler (`Placed`).
  `NextLayer` and `IdIsAround` are about the order of the stack.
- `ExplainsCorrect`. `ExplainInv`: a question without an excuse has a host that
  answers, the chosen one if there is one (`HostIsUp`), and else one further
  down the list than the search has come (`HostIsAhead`).
- `ReconciledCorrect` and `InsightsCorrect`, from `ReadingInv`: what is persisted
  is made of what was parsed and compared with what was printed. The rest is
  arithmetic over statements of any length. Totals are folds over sets, and the
  provers cannot use an induction theorem that takes an operator; but a set of
  numbers has a least element (`LeastNumber`), and so has a set of finite sets
  (`SubsetInduction`), both by `WFMin` of the library, which takes none. From
  these: the function a fold is made of exists (`SumsExist`), does not depend on
  the order of its elements (`SumRemoves`) nor on the set it was formed in
  (`SumsAgree`), and grows with every positive amount (`SumGrows`). So a side
  whose total is the declared one misses no payment (`NothingMissing`), and a
  statement with a row has an insight about what was spent or received
  (`MoneyMoved`, `SomethingToSay`).

### Only model-checked

`PollingEnds` and `MilvusRecovers`: they are about what fairness makes happen,
which is out of the prover's reach, as is ENABLED. Their safe halves are proved: a
job in flight always has somebody to move it on (`JobOwned`), and never moves
back (`PollsNeverContradict`). What the violation runs refute is true under
the conditions of `CascadeKept`, `StatementOwned`, `ExclusiveExact` and
`RedeemedOnceOneByOne`, and of `QueuedIsAppliedCorrect` (once the merchant was
looked up); `PollingEnds` holds in `contract`.

## 7. Not modelled, and the plan

Not modelled: user interfaces, training and evaluation (no shared state);
the character level of parsing, dates and amounts, the text of prompts, the
counters of the rate limiter (a library's), the confidence wall, the merchant
resolver, anomaly and subscription detection (pure functions of numbers or text
behind endpoints that store nothing), health endpoints and listings (they only
read), the devices router (it always raises), and modules nothing imports
(`core/input_validation.py`, `core/request_signing.py`, `core/audit_logging.py`,
`core/request_context.py`, `core/dlp_redaction.py`). `PROJECT.json` gives the
reason for each part.

Planned theorems: a bound on the steps a task takes, the variant on which the
liveness of polling rests.
