--------------------------- MODULE StatementPipeline ---------------------------
(***************************************************************************)
(* Statement ingestion: the upload handler, the background task that       *)
(* processes the statement, the delete handler and the startup recovery,   *)
(* over the MongoDB collections and the GridFS bucket they share.          *)
(*                                                                         *)
(* One uvicorn process runs every handler on one event loop, so handlers   *)
(* interleave only where they await: each action below is one awaited      *)
(* store operation together with the local code up to the next await.      *)
(* A crash loses every handler and keeps the store.                        *)
(*                                                                         *)
(* An element s of Statements names one upload: its statement document,    *)
(* its job document and its GridFS file, whose generated ids are never     *)
(* reused.  Uploading the same PDF again is another element with the same  *)
(* Content.  A document is "none" before it is inserted and "deleted"      *)
(* after it is removed; the distinction is history the store does not keep.*)
(***************************************************************************)
EXTENDS Naturals

CONSTANTS
  Statements,   \* the uploads
  Refs,         \* (user_id, reference_number), the key a transaction row is upserted on
  Content,      \* Content[s]: the keys of the transactions the PDF of s lists
  Retained,     \* the uploads sent with keep_original_pdf
  NoStatement,  \* the owner of a row that is not stored
  MaxCrashes,   \* bound on process crashes
  MaxFaults     \* bound on operations that raise

ASSUME ContentAssumption == Content \in [Statements -> SUBSET Refs]
ASSUME RetainedAssumption == Retained \subseteq Statements
ASSUME NoStatementAssumption == NoStatement \notin Statements
ASSUME BoundsAssumption == MaxCrashes \in Nat /\ MaxFaults \in Nat

VARIABLES
  server,       \* phase of the process: down, the startup hook's steps, up
  interrupted,  \* statement_ids, local to the startup hook
  statement,    \* processing_status of the statement documents
  linked,       \* statements whose current_job_id is set
  job,          \* status of the job documents
  progress,     \* progress_percent of the job documents
  row,          \* statement_id of the transaction stored under a key
  analytics,    \* the analytics embedded in the statement documents
  pdfs,         \* GridFS files
  upload,       \* where each upload request is
  task,         \* where each background task is
  todo,         \* keys the task's bulk write has still to upsert
  draft,        \* the analytics the task holds in memory
  deletion,     \* where each delete request is
  crashes,
  faults

documents == <<statement, linked, job, progress, row, analytics, pdfs>>
handlers  == <<upload, task, todo, draft, deletion>>
boot      == <<server, interrupted>>
budget    == <<crashes, faults>>
vars      == <<documents, handlers, boot, budget>>

--------------------------------------------------------------------------------
(* The store. *)

Gone     == {"none", "deleted"}
InFlight == {"QUEUED", "RUNNING"}

\* Mutant of UpdateOne: update_one with upsert=True.
UpdateOneUpserting(docs, s, v) == [docs EXCEPT ![s] = v]

\* update_one by _id: a document that is not there is not touched.
UpdateOne(docs, s, v) == [docs EXCEPT ![s] = IF @ \in Gone THEN @ ELSE v]

\* delete_one / delete_many of documents that may not be there.
Remove(docs, s) == [docs EXCEPT ![s] = IF @ \in Gone THEN @ ELSE "deleted"]

SetProgress(s, percent) ==
  progress' = [progress EXCEPT ![s] = IF job[s] \in Gone THEN @ ELSE percent]

RowsOf(s) == {r \in Refs : row[r] = s}

\* What StatementAnalyticsEngine.compute saw: the rows its first query summed
\* and the rows the later queries broke down.
Report   == [present : BOOLEAN, totals : SUBSET Refs, breakdown : SUBSET Refs]
NoReport == [present |-> FALSE, totals |-> {}, breakdown |-> {}]

--------------------------------------------------------------------------------
(* POST /statements/upload *)

UploadSteps == {"stored", "created", "queued"}

\* The filename, the PDF checks and the signature check come before any write.
UploadReject(s) ==
  /\ server = "up" /\ upload[s] = "new"
  /\ upload' = [upload EXCEPT ![s] = "rejected"]
  /\ UNCHANGED <<documents, task, todo, draft, deletion, boot, budget>>

UploadStorePdf(s) ==
  /\ server = "up" /\ upload[s] = "new"
  /\ upload' = [upload EXCEPT ![s] = "stored"]
  /\ pdfs' = pdfs \cup ({s} \cap Retained)
  /\ UNCHANGED <<statement, linked, job, progress, row, analytics>>
  /\ UNCHANGED <<task, todo, draft, deletion, boot, budget>>

UploadCreateStatement(s) ==
  /\ upload[s] = "stored"
  /\ upload' = [upload EXCEPT ![s] = "created"]
  /\ statement' = [statement EXCEPT ![s] = "PENDING"]
  /\ UNCHANGED <<linked, job, progress, row, analytics, pdfs>>
  /\ UNCHANGED <<task, todo, draft, deletion, boot, budget>>

UploadCreateJob(s) ==
  /\ upload[s] = "created"
  /\ upload' = [upload EXCEPT ![s] = "queued"]
  /\ job' = [job EXCEPT ![s] = "QUEUED"]
  /\ UNCHANGED <<statement, linked, progress, row, analytics, pdfs>>
  /\ UNCHANGED <<task, todo, draft, deletion, boot, budget>>

\* set_job, then add_task and the 202 with no await between them.
UploadAccept(s) ==
  /\ upload[s] = "queued"
  /\ upload' = [upload EXCEPT ![s] = "accepted"]
  /\ linked' = IF statement[s] \in Gone THEN linked ELSE linked \cup {s}
  /\ task' = [task EXCEPT ![s] = "scheduled"]
  /\ UNCHANGED <<statement, job, progress, row, analytics, pdfs>>
  /\ UNCHANGED <<todo, draft, deletion, boot, budget>>

\* Any of the four writes raises: 500, and what was written stays.
UploadRaise(s) ==
  /\ upload[s] \in UploadSteps \/ (upload[s] = "new" /\ server = "up")
  /\ faults < MaxFaults
  /\ faults' = faults + 1
  /\ upload' = [upload EXCEPT ![s] = "errored"]
  /\ UNCHANGED <<documents, task, todo, draft, deletion, boot, crashes>>

UploadStep(s) ==
  UploadCreateStatement(s) \/ UploadCreateJob(s) \/ UploadAccept(s)

--------------------------------------------------------------------------------
(* StatementService.process_statement *)

\* The steps inside the try block, in order.
TryBlock == {"fetched", "claimed", "parsing", "categorizing",
             "persisting_transactions", "profiling_merchants",
             "generating_embeddings", "computing_analytics", "totalled",
             "broken_down", "generating_insights", "finishing"}
Handler  == {"failing", "failing_job"}
Alive(s) == task[s] \notin {"idle", "done"}

\* get_by_id, before the try block: a statement that vanished ends the task.
TaskFetch(s) ==
  /\ task[s] = "scheduled"
  /\ task' = [task EXCEPT ![s] = IF statement[s] \in Gone THEN "done" ELSE "fetched"]
  /\ UNCHANGED <<documents, upload, todo, draft, deletion, boot, budget>>

TaskMarkProcessing(s) ==
  /\ task[s] = "fetched"
  /\ task' = [task EXCEPT ![s] = "claimed"]
  /\ statement' = UpdateOne(statement, s, "PROCESSING")
  /\ UNCHANGED <<linked, job, progress, row, analytics, pdfs>>
  /\ UNCHANGED <<upload, todo, draft, deletion, boot, budget>>

\* Mutant of TaskMarkRunning: the statement's status written to the job.
TaskMarkRunningMixedUp(s) ==
  /\ task[s] = "claimed"
  /\ task' = [task EXCEPT ![s] = "parsing"]
  /\ job' = UpdateOne(job, s, "PROCESSING")
  /\ UNCHANGED <<statement, linked, progress, row, analytics, pdfs>>
  /\ UNCHANGED <<upload, todo, draft, deletion, boot, budget>>

TaskMarkRunning(s) ==
  /\ task[s] = "claimed"
  /\ task' = [task EXCEPT ![s] = "parsing"]
  /\ job' = UpdateOne(job, s, "RUNNING")
  /\ UNCHANGED <<statement, linked, progress, row, analytics, pdfs>>
  /\ UNCHANGED <<upload, todo, draft, deletion, boot, budget>>

\* update_progress, after the work of the previous stage is done.
Advance(s, stage, next, percent) ==
  /\ task[s] = stage
  /\ task' = [task EXCEPT ![s] = next]
  /\ SetProgress(s, percent)
  /\ UNCHANGED <<statement, linked, job, row, analytics, pdfs>>
  /\ UNCHANGED <<upload, draft, deletion, boot, budget>>

TaskCategorize(s) ==
  /\ Advance(s, "parsing", "categorizing", 20)
  /\ UNCHANGED todo

TaskPersist(s) ==
  /\ Advance(s, "categorizing", "persisting_transactions", 40)
  /\ todo' = [todo EXCEPT ![s] = Content[s]]

\* One upsert of the unordered bulk write: $set replaces the whole row, its
\* statement_id included, whoever owned it.
TaskUpsert(s, r) ==
  /\ task[s] = "persisting_transactions" /\ r \in todo[s]
  /\ row' = [row EXCEPT ![r] = s]
  /\ todo' = [todo EXCEPT ![s] = @ \ {r}]
  /\ UNCHANGED <<statement, linked, job, progress, analytics, pdfs>>
  /\ UNCHANGED <<upload, task, draft, deletion, boot, budget>>

\* Mutant of TaskProfile: the bulk write is not awaited to its end.
TaskProfileUnawaited(s) ==
  /\ Advance(s, "persisting_transactions", "profiling_merchants", 55)
  /\ UNCHANGED todo

TaskProfile(s) ==
  /\ todo[s] = {}
  /\ Advance(s, "persisting_transactions", "profiling_merchants", 55)
  /\ UNCHANGED todo

\* Profiling and embedding swallow their own failures and write only the
\* merchant knowledge base, which this module leaves out.
TaskEmbed(s) ==
  /\ Advance(s, "profiling_merchants", "generating_embeddings", 70)
  /\ UNCHANGED todo

TaskCompute(s) ==
  /\ Advance(s, "generating_embeddings", "computing_analytics", 85)
  /\ UNCHANGED todo

\* compute: the totals query, and (in one step) the queries after it.
TaskTotal(s) ==
  /\ task[s] = "computing_analytics"
  /\ task' = [task EXCEPT ![s] = "totalled"]
  /\ draft' = [draft EXCEPT ![s] =
       [present |-> FALSE, totals |-> RowsOf(s), breakdown |-> {}]]
  /\ UNCHANGED <<documents, upload, todo, deletion, boot, budget>>

\* Mutant of TaskBreakDown: a query that forgets to match on statement_id.
TaskBreakDownUnmatched(s) ==
  /\ task[s] = "totalled"
  /\ task' = [task EXCEPT ![s] = "broken_down"]
  /\ draft' = [draft EXCEPT ![s] =
       [present |-> TRUE, totals |-> draft[s].totals,
        breakdown |-> {r \in Refs : row[r] # NoStatement}]]
  /\ UNCHANGED <<documents, upload, todo, deletion, boot, budget>>

TaskBreakDown(s) ==
  /\ task[s] = "totalled"
  /\ task' = [task EXCEPT ![s] = "broken_down"]
  /\ draft' = [draft EXCEPT ![s] =
       [present |-> TRUE, totals |-> draft[s].totals, breakdown |-> RowsOf(s)]]
  /\ UNCHANGED <<documents, upload, todo, deletion, boot, budget>>

\* Mutant of TaskInsights: the job is completed without the statement.
TaskInsightsOnly(s) ==
  /\ Advance(s, "broken_down", "finishing", 95)
  /\ UNCHANGED todo

TaskInsights(s) ==
  /\ Advance(s, "broken_down", "generating_insights", 95)
  /\ UNCHANGED todo

TaskCompleteStatement(s) ==
  /\ task[s] = "generating_insights"
  /\ task' = [task EXCEPT ![s] = "finishing"]
  /\ statement' = UpdateOne(statement, s, "COMPLETED")
  /\ analytics' = IF statement[s] \in Gone THEN analytics
                  ELSE [analytics EXCEPT ![s] = draft[s]]
  /\ UNCHANGED <<linked, job, progress, row, pdfs>>
  /\ UNCHANGED <<upload, todo, draft, deletion, boot, budget>>

TaskCompleteJob(s) ==
  /\ task[s] = "finishing"
  /\ task' = [task EXCEPT ![s] = "done"]
  /\ job' = UpdateOne(job, s, "COMPLETED")
  /\ SetProgress(s, 100)
  /\ UNCHANGED <<statement, linked, row, analytics, pdfs>>
  /\ UNCHANGED <<upload, todo, draft, deletion, boot, budget>>

\* Anything in the try block raises, the job's own completion included.
TaskRaise(s) ==
  /\ task[s] \in TryBlock
  /\ faults < MaxFaults
  /\ faults' = faults + 1
  /\ task' = [task EXCEPT ![s] = "failing"]
  /\ todo' = [todo EXCEPT ![s] = {}]
  /\ UNCHANGED <<documents, upload, draft, deletion, boot, crashes>>

TaskFailStatement(s) ==
  /\ task[s] = "failing"
  /\ task' = [task EXCEPT ![s] = "failing_job"]
  /\ statement' = UpdateOne(statement, s, "FAILED")
  /\ UNCHANGED <<linked, job, progress, row, analytics, pdfs>>
  /\ UNCHANGED <<upload, todo, draft, deletion, boot, budget>>

TaskFailJob(s) ==
  /\ task[s] = "failing_job"
  /\ task' = [task EXCEPT ![s] = "done"]
  /\ job' = UpdateOne(job, s, "FAILED")
  /\ UNCHANGED <<statement, linked, progress, row, analytics, pdfs>>
  /\ UNCHANGED <<upload, todo, draft, deletion, boot, budget>>

\* get_by_id, outside the try block, or a write of the except block raises:
\* the task ends with nothing more written.
TaskEscape(s) ==
  /\ task[s] \in {"scheduled"} \cup Handler
  /\ faults < MaxFaults
  /\ faults' = faults + 1
  /\ task' = [task EXCEPT ![s] = "done"]
  /\ UNCHANGED <<documents, upload, todo, draft, deletion, boot, crashes>>

TaskStep(s) ==
  \/ TaskFetch(s) \/ TaskMarkProcessing(s) \/ TaskMarkRunning(s)
  \/ TaskCategorize(s) \/ TaskPersist(s) \/ (\E r \in Refs : TaskUpsert(s, r))
  \/ TaskProfile(s) \/ TaskEmbed(s) \/ TaskCompute(s)
  \/ TaskTotal(s) \/ TaskBreakDown(s) \/ TaskInsights(s)
  \/ TaskCompleteStatement(s) \/ TaskCompleteJob(s)
  \/ TaskFailStatement(s) \/ TaskFailJob(s)

--------------------------------------------------------------------------------
(* DELETE /statements/{id} *)

DeleteSteps == {"transactions", "jobs", "pdf", "statement"}

\* Mutant of DeleteBegin: a delete that is sent again goes on where the first
\* one is thought to have stopped.
DeleteBeginResuming(s) ==
  /\ server = "up" /\ statement[s] \notin Gone
  /\ deletion[s] \in {"none", "broken"}
  /\ deletion' = [deletion EXCEPT ![s] = IF @ = "broken" THEN "pdf" ELSE "transactions"]
  /\ UNCHANGED <<documents, upload, task, todo, draft, boot, budget>>

\* _get_owned_statement answers 404 once the statement is gone.  A delete that
\* broke off may be sent again.
DeleteBegin(s) ==
  /\ server = "up" /\ statement[s] \notin Gone
  /\ deletion[s] \in {"none", "broken"}
  /\ deletion' = [deletion EXCEPT ![s] = "transactions"]
  /\ UNCHANGED <<documents, upload, task, todo, draft, boot, budget>>

DeleteTransactions(s) ==
  /\ deletion[s] = "transactions"
  /\ deletion' = [deletion EXCEPT ![s] = "jobs"]
  /\ row' = [r \in Refs |-> IF row[r] = s THEN NoStatement ELSE row[r]]
  /\ UNCHANGED <<statement, linked, job, progress, analytics, pdfs>>
  /\ UNCHANGED <<upload, task, todo, draft, boot, budget>>

\* Mutant of DeleteJobs: the query matches no job.
DeleteJobsMissing(s) ==
  /\ deletion[s] = "jobs"
  /\ deletion' = [deletion EXCEPT ![s] = "pdf"]
  /\ UNCHANGED <<documents, upload, task, todo, draft, boot, budget>>

DeleteJobs(s) ==
  /\ deletion[s] = "jobs"
  /\ deletion' = [deletion EXCEPT ![s] = "pdf"]
  /\ job' = Remove(job, s)
  /\ UNCHANGED <<statement, linked, progress, row, analytics, pdfs>>
  /\ UNCHANGED <<upload, task, todo, draft, boot, budget>>

DeletePdf(s) ==
  /\ deletion[s] = "pdf"
  /\ deletion' = [deletion EXCEPT ![s] = "statement"]
  /\ pdfs' = pdfs \ {s}
  /\ UNCHANGED <<statement, linked, job, progress, row, analytics>>
  /\ UNCHANGED <<upload, task, todo, draft, boot, budget>>

\* delete_pdf logs a GridFS failure and lets the delete go on.
DeletePdfFails(s) ==
  /\ deletion[s] = "pdf" /\ s \in Retained
  /\ faults < MaxFaults
  /\ faults' = faults + 1
  /\ deletion' = [deletion EXCEPT ![s] = "statement"]
  /\ UNCHANGED <<documents, upload, task, todo, draft, boot, crashes>>

DeleteStatement(s) ==
  /\ deletion[s] = "statement"
  /\ deletion' = [deletion EXCEPT ![s] = "done"]
  /\ statement' = Remove(statement, s)
  /\ linked' = linked \ {s}
  /\ analytics' = [analytics EXCEPT ![s] = NoReport]
  /\ UNCHANGED <<job, progress, row, pdfs>>
  /\ UNCHANGED <<upload, task, todo, draft, boot, budget>>

DeleteRaise(s) ==
  /\ deletion[s] \in DeleteSteps \ {"pdf"}
  /\ faults < MaxFaults
  /\ faults' = faults + 1
  /\ deletion' = [deletion EXCEPT ![s] = "broken"]
  /\ UNCHANGED <<documents, upload, task, todo, draft, boot, crashes>>

DeleteStep(s) ==
  \/ DeleteTransactions(s) \/ DeleteJobs(s) \/ DeletePdf(s) \/ DeleteStatement(s)

--------------------------------------------------------------------------------
(* The process: crash, restart, and the startup hook that runs before the  *)
(* server answers requests.                                                *)

Crash ==
  /\ server # "down" /\ crashes < MaxCrashes
  /\ crashes' = crashes + 1
  /\ server' = "down"
  /\ interrupted' = {}
  /\ upload' = [s \in Statements |-> IF upload[s] \in UploadSteps THEN "lost" ELSE upload[s]]
  /\ task' = [s \in Statements |-> IF task[s] = "idle" THEN "idle" ELSE "done"]
  /\ todo' = [s \in Statements |-> {}]
  /\ draft' = [s \in Statements |-> NoReport]
  /\ deletion' = [s \in Statements |->
                    IF deletion[s] \in DeleteSteps THEN "broken" ELSE deletion[s]]
  /\ UNCHANGED <<documents, faults>>

\* Mutant of Restart: the startup hook is not called.
RestartUnrecovered ==
  /\ server = "down"
  /\ server' = "up"
  /\ UNCHANGED <<documents, handlers, interrupted, budget>>

Restart ==
  /\ server = "down"
  /\ server' = "booting"
  /\ UNCHANGED <<documents, handlers, interrupted, budget>>

\* Mutant of Interrupted: the query forgets the queued jobs.
InterruptedRunning(s) == job[s] = "RUNNING"

\* What fail_interrupted_statement_jobs queries for.
Interrupted(s) == job[s] \in InFlight

\* The ids of the statements whose job is still queued or running.
RecoverFind ==
  /\ server = "booting"
  /\ server' = "failing_jobs"
  /\ interrupted' = {s \in Statements : Interrupted(s)}
  /\ UNCHANGED <<documents, handlers, budget>>

\* update_many, which a crash may leave half done.
RecoverFailJob(s) ==
  /\ server = "failing_jobs" /\ Interrupted(s)
  /\ job' = UpdateOne(job, s, "FAILED")
  /\ UNCHANGED <<statement, linked, progress, row, analytics, pdfs>>
  /\ UNCHANGED <<handlers, boot, budget>>

RecoverJobsFailed ==
  /\ server = "failing_jobs"
  /\ \A s \in Statements : ~Interrupted(s)
  /\ server' = "failing_statements"
  /\ UNCHANGED <<documents, handlers, interrupted, budget>>

\* Mutant of RecoverFailStatement: only the job is failed.
RecoverForgetStatement(s) ==
  /\ server = "failing_statements" /\ s \in interrupted
  /\ interrupted' = interrupted \ {s}
  /\ UNCHANGED <<documents, handlers, server, budget>>

RecoverFailStatement(s) ==
  /\ server = "failing_statements" /\ s \in interrupted
  /\ interrupted' = interrupted \ {s}
  /\ statement' = UpdateOne(statement, s, "FAILED")
  /\ UNCHANGED <<linked, job, progress, row, analytics, pdfs>>
  /\ UNCHANGED <<handlers, server, budget>>

RecoverDone ==
  /\ server = "failing_statements" /\ interrupted = {}
  /\ server' = "up"
  /\ UNCHANGED <<documents, handlers, interrupted, budget>>

\* Any of the three raises: logged, and startup goes on without the rest.
RecoverRaise ==
  /\ server \in {"booting", "failing_jobs", "failing_statements"}
  /\ faults < MaxFaults
  /\ faults' = faults + 1
  /\ server' = "up"
  /\ interrupted' = {}
  /\ UNCHANGED <<documents, handlers, crashes>>

Recovery ==
  \/ RecoverFind \/ RecoverJobsFailed \/ RecoverDone
  \/ \E s \in Statements : RecoverFailJob(s) \/ RecoverFailStatement(s)

--------------------------------------------------------------------------------

Init ==
  /\ server = "up" /\ interrupted = {}
  /\ statement = [s \in Statements |-> "none"]
  /\ linked = {}
  /\ job = [s \in Statements |-> "none"]
  /\ progress = [s \in Statements |-> 0]
  /\ row = [r \in Refs |-> NoStatement]
  /\ analytics = [s \in Statements |-> NoReport]
  /\ pdfs = {}
  /\ upload = [s \in Statements |-> "new"]
  /\ task = [s \in Statements |-> "idle"]
  /\ todo = [s \in Statements |-> {}]
  /\ draft = [s \in Statements |-> NoReport]
  /\ deletion = [s \in Statements |-> "none"]
  /\ crashes = 0 /\ faults = 0

Upload(s) == UploadReject(s) \/ UploadStorePdf(s)

FaultStep(s) ==
  \/ UploadRaise(s) \/ TaskRaise(s) \/ TaskEscape(s)
  \/ DeletePdfFails(s) \/ DeleteRaise(s)

ServerStep(s) == UploadStep(s) \/ TaskStep(s) \/ DeleteStep(s) \/ FaultStep(s)

ProcessStep == Crash \/ Restart \/ Recovery \/ RecoverRaise

Next ==
  \/ \E s \in Statements : Upload(s) \/ DeleteBegin(s) \/ ServerStep(s)
  \/ ProcessStep

Spec == Init /\ [][Next]_vars

(***************************************************************************)
(* Fairness: the event loop runs every handler that can run, the startup   *)
(* hook finishes, and whoever operates the server starts it again.  Nobody *)
(* has to upload, delete, crash or fail.                                   *)
(***************************************************************************)
Fairness ==
  /\ WF_vars(Restart) /\ WF_vars(Recovery)
  /\ \A s \in Statements :
       WF_vars(UploadStep(s)) /\ WF_vars(TaskStep(s)) /\ WF_vars(DeleteStep(s))

FairSpec == Spec /\ Fairness

(***************************************************************************)
(* Assumptions on the client, for the properties that need one: it deletes *)
(* a statement only after the 202 that names it, or only once it is        *)
(* COMPLETED or FAILED.                                                    *)
(***************************************************************************)
PatientDelete(s) == upload[s] = "accepted" /\ DeleteBegin(s)

PatientNext ==
  \/ \E s \in Statements : Upload(s) \/ PatientDelete(s) \/ ServerStep(s)
  \/ ProcessStep

TidyDelete(s) == statement[s] \in {"COMPLETED", "FAILED"} /\ PatientDelete(s)

TidyNext ==
  \/ \E s \in Statements : Upload(s) \/ TidyDelete(s) \/ ServerStep(s)
  \/ ProcessStep

PatientSpec     == Init /\ [][PatientNext]_vars
FairPatientSpec == PatientSpec /\ Fairness
TidySpec        == Init /\ [][TidyNext]_vars

================================================================================
