------------------------ MODULE StatementPipelineProofs ------------------------
(***************************************************************************)
(* Theorems about StatementPipeline, for every set of statements, every    *)
(* content and every bound on crashes and faults.                          *)
(***************************************************************************)
EXTENDS StatementProperties, TLAPS

(***************************************************************************)
(* Type correctness.                                                       *)
(***************************************************************************)

LEMMA InitTypeOK == Init => TypeOK
BY NoStatementAssumption, BoundsAssumption
   DEF Init, TypeOK, Gone, InFlight, Report, NoReport, UploadSteps, TryBlock, Handler, DeleteSteps

LEMMA UploadTypeOK ==
  ASSUME TypeOK, NEW s \in Statements,
         UploadReject(s) \/ UploadStorePdf(s) \/ UploadStep(s) \/ UploadRaise(s)
  PROVE  TypeOK'
<1> USE BoundsAssumption, RetainedAssumption DEF TypeOK, Gone, InFlight, UploadSteps,
        TryBlock, Handler, DeleteSteps, documents, handlers, boot, budget
<1>1. CASE UploadReject(s)
  BY <1>1 DEF UploadReject
<1>2. CASE UploadStorePdf(s)
  BY <1>2 DEF UploadStorePdf
<1>3. CASE UploadCreateStatement(s)
  BY <1>3 DEF UploadCreateStatement
<1>4. CASE UploadCreateJob(s)
  BY <1>4 DEF UploadCreateJob
<1>5. CASE UploadAccept(s)
  BY <1>5 DEF UploadAccept
<1>6. CASE UploadRaise(s)
  BY <1>6 DEF UploadRaise
<1>7. QED
  BY <1>1, <1>2, <1>3, <1>4, <1>5, <1>6 DEF UploadStep

LEMMA TaskTypeOK ==
  ASSUME TypeOK, NEW s \in Statements,
         TaskStep(s) \/ TaskRaise(s) \/ TaskEscape(s)
  PROVE  TypeOK'
<1> USE BoundsAssumption DEF TypeOK, Gone, InFlight, UploadSteps, TryBlock, Handler,
        DeleteSteps, documents, handlers, boot, budget
<1>1. CASE TaskFetch(s)
  BY <1>1 DEF TaskFetch
<1>2. CASE TaskMarkProcessing(s)
  BY <1>2 DEF TaskMarkProcessing, UpdateOne
<1>3. CASE TaskMarkRunning(s)
  BY <1>3 DEF TaskMarkRunning, UpdateOne
<1>4. CASE TaskCategorize(s)
  BY <1>4 DEF TaskCategorize, Advance, SetProgress
<1>5. CASE TaskPersist(s)
  <2>1. Content[s] \in SUBSET Refs
    BY ContentAssumption
  <2>2. todo' \in [Statements -> SUBSET Refs]
    BY <1>5, <2>1 DEF TaskPersist
  <2>3. QED
    BY <1>5, <2>2 DEF TaskPersist, Advance, SetProgress
<1>6. CASE TaskProfile(s)
  BY <1>6 DEF TaskProfile, Advance, SetProgress
<1>7. CASE TaskEmbed(s)
  BY <1>7 DEF TaskEmbed, Advance, SetProgress
<1>8. CASE TaskCompute(s)
  BY <1>8 DEF TaskCompute, Advance, SetProgress
<1>9. CASE TaskInsights(s)
  BY <1>9 DEF TaskInsights, Advance, SetProgress
<1>10. CASE \E r \in Refs : TaskUpsert(s, r)
  BY <1>10 DEF TaskUpsert
<1>11. CASE TaskTotal(s)
  <2>1. RowsOf(s) \in SUBSET Refs /\ draft[s] \in Report
    BY DEF RowsOf
  <2>2. [present |-> FALSE, totals |-> RowsOf(s), breakdown |-> {}] \in Report
    BY <2>1 DEF Report
  <2>3. draft' \in [Statements -> Report]
    BY <1>11, <2>2 DEF TaskTotal
  <2>4. QED
    BY <1>11, <2>3 DEF TaskTotal
<1>12. CASE TaskBreakDown(s)
  <2>1. RowsOf(s) \in SUBSET Refs /\ draft[s] \in Report
    BY DEF RowsOf
  <2>2. [present |-> TRUE, totals |-> draft[s].totals, breakdown |-> RowsOf(s)] \in Report
    BY <2>1 DEF Report
  <2>3. draft' \in [Statements -> Report]
    BY <1>12, <2>2 DEF TaskBreakDown
  <2>4. QED
    BY <1>12, <2>3 DEF TaskBreakDown
<1>13. CASE TaskCompleteStatement(s)
  BY <1>13 DEF TaskCompleteStatement, UpdateOne
<1>14. CASE TaskCompleteJob(s)
  BY <1>14 DEF TaskCompleteJob, UpdateOne, SetProgress
<1>15. CASE TaskFailStatement(s)
  BY <1>15 DEF TaskFailStatement, UpdateOne
<1>16. CASE TaskFailJob(s)
  BY <1>16 DEF TaskFailJob, UpdateOne
<1>17. CASE TaskRaise(s)
  BY <1>17 DEF TaskRaise
<1>18. CASE TaskEscape(s)
  BY <1>18 DEF TaskEscape
<1>19. QED
  BY <1>1, <1>2, <1>3, <1>4, <1>5, <1>6, <1>7, <1>8, <1>9, <1>10, <1>11, <1>12, <1>13, <1>14, <1>15, <1>16, <1>17, <1>18 DEF TaskStep

LEMMA DeleteTypeOK ==
  ASSUME TypeOK, NEW s \in Statements,
         DeleteBegin(s) \/ DeleteStep(s) \/ DeletePdfFails(s) \/ DeleteRaise(s)
  PROVE  TypeOK'
<1> USE BoundsAssumption DEF TypeOK, Gone, InFlight, UploadSteps, TryBlock, Handler,
        DeleteSteps, documents, handlers, boot, budget
<1>1. CASE DeleteBegin(s)
  BY <1>1 DEF DeleteBegin
<1>2. CASE DeleteTransactions(s)
  BY <1>2 DEF DeleteTransactions
<1>3. CASE DeleteJobs(s)
  BY <1>3 DEF DeleteJobs, Remove
<1>4. CASE DeletePdf(s)
  BY <1>4 DEF DeletePdf
<1>5. CASE DeletePdfFails(s)
  BY <1>5 DEF DeletePdfFails
<1>6. CASE DeleteStatement(s)
  BY <1>6 DEF DeleteStatement, Remove, NoReport, Report
<1>7. CASE DeleteRaise(s)
  BY <1>7 DEF DeleteRaise
<1>8. QED
  BY <1>1, <1>2, <1>3, <1>4, <1>5, <1>6, <1>7 DEF DeleteStep

LEMMA ProcessTypeOK ==
  ASSUME TypeOK, Crash \/ Restart \/ Recovery \/ RecoverRaise
  PROVE  TypeOK'
<1> USE BoundsAssumption DEF TypeOK, Gone, InFlight, UploadSteps, TryBlock, Handler,
        DeleteSteps, documents, handlers, boot, budget
<1>1. CASE Crash
  BY <1>1 DEF Crash, NoReport, Report
<1>2. CASE Restart
  BY <1>2 DEF Restart
<1>3. CASE RecoverFind
  BY <1>3 DEF RecoverFind, Interrupted
<1>4. CASE \E s \in Statements : RecoverFailJob(s)
  BY <1>4 DEF RecoverFailJob, Interrupted, UpdateOne
<1>5. CASE RecoverJobsFailed
  BY <1>5 DEF RecoverJobsFailed
<1>6. CASE \E s \in Statements : RecoverFailStatement(s)
  BY <1>6 DEF RecoverFailStatement, UpdateOne
<1>7. CASE RecoverDone
  BY <1>7 DEF RecoverDone
<1>8. CASE RecoverRaise
  BY <1>8 DEF RecoverRaise
<1>9. QED
  BY <1>1, <1>2, <1>3, <1>4, <1>5, <1>6, <1>7, <1>8 DEF Recovery

LEMMA NextTypeOK == TypeOK /\ [Next]_vars => TypeOK'
<1> SUFFICES ASSUME TypeOK, [Next]_vars
             PROVE  TypeOK'
  OBVIOUS
<1>1. CASE Next
  BY <1>1, UploadTypeOK, TaskTypeOK, DeleteTypeOK, ProcessTypeOK
     DEF Next, Upload, ServerStep, ProcessStep, FaultStep
<1>2. CASE UNCHANGED vars
  BY <1>2 DEF vars, documents, handlers, boot, budget, TypeOK
<1>3. QED
  BY <1>1, <1>2

\* Every variable keeps its type: the documents only ever hold the statuses of
\* models/schemas.py and every handler stays at one of its steps.
THEOREM TypeCorrect == Spec => []TypeOK
BY InitTypeOK, NextTypeOK, PTL DEF Spec

--------------------------------------------------------------------------------
(***************************************************************************)
(* No stored transaction is lost.                                          *)
(*                                                                         *)
(* StoredBeforeCompleted is not inductive: nothing in it says that a task  *)
(* about to complete its statement has its transactions stored.  The       *)
(* strengthening follows the task from its bulk write to the end: what it  *)
(* has upserted stays stored unless a delete takes it, and a delete of     *)
(* statement d takes only rows that d lists.                               *)
(***************************************************************************)

Kept(r) == row[r] # NoStatement \/ \E d \in Statements : r \in Content[d] /\ Deleted(d)

\* The steps after the bulk write has ended without an error.
Persisted == {"profiling_merchants", "generating_embeddings", "computing_analytics",
              "totalled", "broken_down", "generating_insights", "finishing"}

RowsListed == \A r \in Refs : row[r] # NoStatement => r \in Content[row[r]]

StoredPart(s) ==
  /\ todo[s] \subseteq Content[s]
  /\ task[s] = "persisting_transactions" => \A r \in Content[s] \ todo[s] : Kept(r)
  /\ task[s] \in Persisted \/ statement[s] = "COMPLETED" => \A r \in Content[s] : Kept(r)

StoredInv == RowsListed /\ \A s \in Statements : StoredPart(s)

LEMMA InitStored == Init => StoredInv
BY DEF Init, StoredInv, StoredPart, RowsListed, Persisted

\* Only TaskUpsert and DeleteTransactions write rows, and no step takes back
\* that a delete was started.
LEMMA RowsChange ==
  ASSUME TypeOK, [Next]_vars
  PROVE  /\ \A d \in Statements : Deleted(d) => Deleted(d)'
         /\ \/ row' = row
            \/ \E s \in Statements, r \in Refs : TaskUpsert(s, r)
            \/ \E s \in Statements : DeleteTransactions(s)
<1> USE DEF documents, handlers, TypeOK, Deleted
<1>1. CASE \E s \in Statements : Upload(s) \/ DeleteBegin(s)
  BY <1>1 DEF Upload, UploadReject, UploadStorePdf, DeleteBegin
<1>2. CASE \E s \in Statements : UploadStep(s)
  BY <1>2 DEF UploadStep, UploadCreateStatement, UploadCreateJob, UploadAccept
<1>3. CASE \E s \in Statements : TaskStep(s)
  BY <1>3 DEF TaskStep, TaskFetch, TaskMarkProcessing, TaskMarkRunning, Advance,
     TaskCategorize, TaskPersist, TaskUpsert, TaskProfile, TaskEmbed, TaskCompute,
     TaskTotal, TaskBreakDown, TaskInsights, TaskCompleteStatement, TaskCompleteJob,
     TaskFailStatement, TaskFailJob
<1>4. CASE \E s \in Statements : DeleteStep(s)
  BY <1>4 DEF DeleteStep, DeleteTransactions, DeleteJobs, DeletePdf, DeleteStatement
<1>5. CASE \E s \in Statements : FaultStep(s)
  BY <1>5 DEF FaultStep, UploadRaise, TaskRaise, TaskEscape, DeletePdfFails, DeleteRaise
<1>6. CASE Crash
  BY <1>6 DEF Crash, DeleteSteps
<1>7. CASE Restart \/ Recovery \/ RecoverRaise
  BY <1>7 DEF Restart, Recovery, RecoverRaise, RecoverFind, RecoverFailJob, Interrupted,
     RecoverJobsFailed, RecoverFailStatement, RecoverDone
<1>8. CASE UNCHANGED vars
  BY <1>8 DEF vars
<1>9. QED
  BY <1>1, <1>2, <1>3, <1>4, <1>5, <1>6, <1>7, <1>8 DEF Next, ServerStep, ProcessStep

\* A row that is stored, or that a delete has claimed, stays so.
LEMMA KeptStable ==
  ASSUME TypeOK, StoredInv, [Next]_vars
  PROVE  RowsListed' /\ \A r \in Refs : Kept(r) => Kept(r)'
<1>1. CASE row' = row
  BY <1>1, RowsChange DEF StoredInv, RowsListed, Kept
<1>2. ASSUME NEW s \in Statements, NEW q \in Refs, TaskUpsert(s, q)
      PROVE  RowsListed' /\ \A r \in Refs : Kept(r) => Kept(r)'
  <2>1. row' = [row EXCEPT ![q] = s] /\ q \in Content[s]
    BY <1>2 DEF TaskUpsert, StoredInv, StoredPart
  <2>2. RowsListed'
    BY <2>1 DEF StoredInv, RowsListed, TypeOK
  <2>3. \A r \in Refs : row[r] # NoStatement => row'[r] # NoStatement
    BY <2>1, NoStatementAssumption DEF TypeOK
  <2>4. QED
    BY <2>2, <2>3, RowsChange DEF Kept
<1>3. ASSUME NEW s \in Statements, DeleteTransactions(s)
      PROVE  RowsListed' /\ \A r \in Refs : Kept(r) => Kept(r)'
  <2>1. Deleted(s)' /\ row' = [r \in Refs |-> IF row[r] = s THEN NoStatement ELSE row[r]]
    BY <1>3 DEF DeleteTransactions, Deleted, TypeOK
  <2>2. RowsListed'
    BY <2>1 DEF StoredInv, RowsListed, TypeOK
  <2>3. ASSUME NEW r \in Refs, Kept(r)
        PROVE  Kept(r)'
    <3>1. CASE row[r] = s
      BY <3>1, <2>1, NoStatementAssumption DEF StoredInv, RowsListed, Kept
    <3>2. CASE row[r] # s
      BY <3>2, <2>1, <2>3, RowsChange DEF Kept
    <3>3. QED
      BY <3>1, <3>2
  <2>4. QED
    BY <2>2, <2>3
<1>4. QED
  BY <1>1, <1>2, <1>3, RowsChange

\* A step of its own task keeps StoredPart(s): the task starts its bulk write,
\* upserts a row, ends the write with nothing left to do, or goes on after it.
LEMMA StoredPartTask ==
  ASSUME TypeOK, NEW s \in Statements, StoredPart(s), [Next]_vars, TaskStep(s),
         \A r \in Refs : Kept(r) => Kept(r)'
  PROVE  StoredPart(s)'
<1> USE ContentAssumption DEF TypeOK, StoredPart, Persisted, documents, handlers
<1>1. CASE TaskFetch(s)
  BY <1>1 DEF TaskFetch
<1>2. CASE TaskMarkProcessing(s)
  BY <1>2 DEF TaskMarkProcessing, UpdateOne
<1>3. CASE TaskMarkRunning(s)
  BY <1>3 DEF TaskMarkRunning
<1>4. CASE TaskCategorize(s)
  BY <1>4 DEF TaskCategorize, Advance
<1>5. CASE TaskPersist(s)
  BY <1>5 DEF TaskPersist, Advance
<1>6. ASSUME NEW q \in Refs, TaskUpsert(s, q)
      PROVE  StoredPart(s)'
  <2>1. Kept(q)'
    BY <1>6, NoStatementAssumption DEF TaskUpsert, Kept
  <2>2. QED
    BY <1>6, <2>1 DEF TaskUpsert
<1>7. CASE TaskProfile(s)
  BY <1>7 DEF TaskProfile, Advance
<1>8. CASE TaskEmbed(s)
  BY <1>8 DEF TaskEmbed, Advance
<1>9. CASE TaskCompute(s)
  BY <1>9 DEF TaskCompute, Advance
<1>10. CASE TaskTotal(s)
  BY <1>10 DEF TaskTotal
<1>11. CASE TaskBreakDown(s)
  BY <1>11 DEF TaskBreakDown
<1>12. CASE TaskInsights(s)
  BY <1>12 DEF TaskInsights, Advance
<1>13. CASE TaskCompleteStatement(s)
  BY <1>13 DEF TaskCompleteStatement, UpdateOne
<1>14. CASE TaskCompleteJob(s)
  BY <1>14 DEF TaskCompleteJob
<1>15. CASE TaskFailStatement(s)
  BY <1>15 DEF TaskFailStatement, UpdateOne
<1>16. CASE TaskFailJob(s)
  BY <1>16 DEF TaskFailJob
<1>17. QED
  BY <1>1, <1>2, <1>3, <1>4, <1>5, <1>6, <1>7, <1>8, <1>9, <1>10, <1>11, <1>12, <1>13, <1>14, <1>15, <1>16 DEF TaskStep

\* Every other step leaves the task of s, what it has still to upsert and a
\* COMPLETED status as they are, or ends the task.
LEMMA StoredPartOthers ==
  ASSUME TypeOK, NEW s \in Statements, StoredPart(s), [Next]_vars, ~TaskStep(s),
         \A r \in Refs : Kept(r) => Kept(r)'
  PROVE  StoredPart(s)'
<1>1. SUFFICES
        /\ todo'[s] = todo[s] \/ todo'[s] = {}
        /\ \/ task'[s] = task[s] /\ todo'[s] = todo[s]
           \/ task'[s] \notin Persisted \cup {"persisting_transactions"}
        /\ statement'[s] = "COMPLETED" => statement[s] = "COMPLETED"
  BY ContentAssumption DEF StoredPart, TypeOK
<1> USE DEF TypeOK, Persisted, documents, handlers
<1>2. CASE \E t \in Statements : Upload(t) \/ DeleteBegin(t)
  BY <1>2 DEF Upload, UploadReject, UploadStorePdf, DeleteBegin
<1>3. CASE \E t \in Statements : UploadStep(t)
  BY <1>3 DEF UploadStep, UploadCreateStatement, UploadCreateJob, UploadAccept
<1>4. CASE \E t \in Statements \ {s} : TaskStep(t)
  BY <1>4 DEF TaskStep, TaskFetch, TaskMarkProcessing, TaskMarkRunning, Advance,
     TaskCategorize, TaskPersist, TaskUpsert, TaskProfile, TaskEmbed, TaskCompute,
     TaskTotal, TaskBreakDown, TaskInsights, TaskCompleteStatement, TaskCompleteJob,
     TaskFailStatement, TaskFailJob, UpdateOne
<1>5. CASE \E t \in Statements : DeleteStep(t)
  BY <1>5 DEF DeleteStep, DeleteTransactions, DeleteJobs, DeletePdf, DeleteStatement, Remove
<1>6. CASE \E t \in Statements : FaultStep(t)
  BY <1>6 DEF FaultStep, UploadRaise, TaskRaise, TaskEscape, DeletePdfFails, DeleteRaise
<1>7. CASE Crash
  BY <1>7 DEF Crash
<1>8. CASE Restart \/ Recovery \/ RecoverRaise
  BY <1>8 DEF Restart, Recovery, RecoverRaise, RecoverFind, RecoverFailJob, Interrupted,
     RecoverJobsFailed, RecoverFailStatement, RecoverDone, UpdateOne
<1>9. CASE UNCHANGED vars
  BY <1>9 DEF vars
<1>10. QED
  BY <1>2, <1>3, <1>4, <1>5, <1>6, <1>7, <1>8, <1>9 DEF Next, ServerStep, ProcessStep

LEMMA NextStored == TypeOK /\ StoredInv /\ [Next]_vars => StoredInv'
BY KeptStable, StoredPartTask, StoredPartOthers DEF StoredInv

LEMMA StoredInvImplies == TypeOK /\ StoredInv => StoredBeforeCompleted
BY DEF StoredInv, StoredPart, StoredBeforeCompleted, Kept

\* Whatever crashes, failed writes, deletes and overlapping uploads do, every
\* transaction of a COMPLETED statement is stored until a statement that lists
\* it is deleted.
THEOREM StoredCorrect == Spec => []StoredBeforeCompleted
<1>1. Spec => [](TypeOK /\ StoredInv)
  BY InitTypeOK, NextTypeOK, InitStored, NextStored, PTL DEF Spec
<1>2. QED
  BY <1>1, StoredInvImplies, PTL

(***************************************************************************)
(* A COMPLETED job has results.                                            *)
(*                                                                         *)
(* The strengthening says where the handlers of one statement can be       *)
(* relative to each other and to its documents (an upload in progress has  *)
(* no task, a task has a statement, a process that is not up has no        *)
(* handlers), so that no later step can fail the statement of a COMPLETED  *)
(* job: the task is over, and the startup hook does not hold its id.       *)
(***************************************************************************)

HandlersPart(s) ==
  /\ upload[s] \in {"new", "stored"} => statement[s] = "none"
  /\ upload[s] \in {"new", "stored", "created"} => job[s] = "none"
  /\ upload[s] \in {"created", "queued", "accepted"} => statement[s] # "none"
  /\ task[s] # "idle" => upload[s] = "accepted"
  /\ server # "up" => ~Alive(s) /\ upload[s] \notin UploadSteps
  /\ server = "up" => s \notin interrupted

HandlersInv == \A s \in Statements : HandlersPart(s)

ResultsPart(s) ==
  /\ task[s] \in {"broken_down", "generating_insights"} => draft[s].present
  /\ task[s] = "finishing" => s \in Readable \/ statement[s] = "deleted"
  /\ job[s] = "COMPLETED" => /\ s \in Readable \/ statement[s] = "deleted"
                             /\ task[s] = "done" /\ s \notin interrupted

ResultsInv == \A s \in Statements : ResultsPart(s)

LEMMA InitHandlers == Init => HandlersInv /\ ResultsInv
BY DEF Init, HandlersInv, HandlersPart, ResultsInv, ResultsPart, Alive, UploadSteps

\* The request handlers and the task only run while the server is up.
LEMMA HandlersNext == TypeOK /\ HandlersInv /\ [Next]_vars => HandlersInv'
<1> SUFFICES ASSUME TypeOK, HandlersInv, [Next]_vars, NEW s \in Statements
             PROVE  HandlersPart(s)'
  BY DEF HandlersInv
<1>0. HandlersPart(s)
  BY DEF HandlersInv
<1> USE <1>0 DEF TypeOK, HandlersPart, Alive, UploadSteps, TryBlock, Handler, Gone, InFlight,
        documents, handlers, boot, budget
<1>1. CASE \E t \in Statements : Upload(t) \/ DeleteBegin(t)
  BY <1>1 DEF Upload, UploadReject, UploadStorePdf, DeleteBegin
<1>2. CASE \E t \in Statements : UploadStep(t)
  BY <1>2 DEF UploadStep, UploadCreateStatement, UploadCreateJob, UploadAccept, HandlersInv
<1>3. CASE \E t \in Statements : TaskStep(t)
  BY <1>3 DEF TaskStep, TaskFetch, TaskMarkProcessing, TaskMarkRunning, Advance,
     TaskCategorize, TaskPersist, TaskUpsert, TaskProfile, TaskEmbed, TaskCompute,
     TaskTotal, TaskBreakDown, TaskInsights, TaskCompleteStatement, TaskCompleteJob,
     TaskFailStatement, TaskFailJob, UpdateOne
<1>4. CASE \E t \in Statements : DeleteStep(t)
  BY <1>4 DEF DeleteStep, DeleteTransactions, DeleteJobs, DeletePdf, DeleteStatement, Remove
<1>5. CASE \E t \in Statements : FaultStep(t)
  BY <1>5 DEF FaultStep, UploadRaise, TaskRaise, TaskEscape, DeletePdfFails, DeleteRaise
<1>6. CASE Crash
  BY <1>6 DEF Crash
<1>7. CASE Restart \/ RecoverFind \/ RecoverJobsFailed \/ RecoverDone \/ RecoverRaise
  BY <1>7 DEF Restart, RecoverFind, RecoverJobsFailed, RecoverDone, RecoverRaise, Interrupted
<1>8. CASE \E t \in Statements : RecoverFailJob(t) \/ RecoverFailStatement(t)
  BY <1>8 DEF RecoverFailJob, Interrupted, RecoverFailStatement, UpdateOne
<1>9. CASE UNCHANGED vars
  BY <1>9 DEF vars
<1>10. QED
  BY <1>1, <1>2, <1>3, <1>4, <1>5, <1>6, <1>7, <1>8, <1>9 DEF Next, ServerStep, ProcessStep, Recovery

\* A step of the task of s: it is the only one that may complete the job, and
\* it does so after it has published the results.
LEMMA ResultsTask ==
  ASSUME TypeOK, HandlersInv, NEW s \in Statements, ResultsPart(s), TaskStep(s)
  PROVE  ResultsPart(s)'
<1>0. HandlersPart(s)
  BY DEF HandlersInv
<1>1. server = "up" /\ s \notin interrupted /\ statement[s] # "none" /\ job[s] # "COMPLETED"
  BY <1>0 DEF HandlersPart, ResultsPart, TaskStep, TaskFetch, TaskMarkProcessing,
     TaskMarkRunning, Advance, TaskCategorize, TaskPersist, TaskUpsert, TaskProfile,
     TaskEmbed, TaskCompute, TaskTotal, TaskBreakDown, TaskInsights,
     TaskCompleteStatement, TaskCompleteJob, TaskFailStatement, TaskFailJob, Alive
<1> USE <1>1 DEF TypeOK, ResultsPart, Readable, Gone, InFlight, documents, handlers, boot
<1>2. CASE TaskFetch(s)
  BY <1>2 DEF TaskFetch
<1>3. CASE TaskMarkProcessing(s)
  BY <1>3 DEF TaskMarkProcessing
<1>4. CASE TaskMarkRunning(s)
  BY <1>4 DEF TaskMarkRunning, UpdateOne
<1>5. CASE \/ TaskCategorize(s) \/ TaskPersist(s) \/ TaskProfile(s)
           \/ TaskEmbed(s) \/ TaskCompute(s)
  BY <1>5 DEF TaskCategorize, TaskPersist, TaskProfile, TaskEmbed, TaskCompute, Advance
<1>6. CASE \E r \in Refs : TaskUpsert(s, r)
  BY <1>6 DEF TaskUpsert
<1>7. CASE TaskTotal(s)
  BY <1>7 DEF TaskTotal
<1>8. CASE TaskBreakDown(s)
  BY <1>8 DEF TaskBreakDown
<1>9. CASE TaskInsights(s)
  BY <1>9 DEF TaskInsights, Advance
<1>10. CASE TaskCompleteStatement(s)
  BY <1>10 DEF TaskCompleteStatement, UpdateOne
<1>11. CASE TaskCompleteJob(s)
  BY <1>11 DEF TaskCompleteJob, UpdateOne
<1>12. CASE TaskFailStatement(s)
  BY <1>12 DEF TaskFailStatement
<1>13. CASE TaskFailJob(s)
  BY <1>13 DEF TaskFailJob, UpdateOne
<1>14. QED
  BY <1>2, <1>3, <1>4, <1>5, <1>6, <1>7, <1>8, <1>9, <1>10, <1>11, <1>12, <1>13 DEF TaskStep

\* Every other step: none of them completes a job, and none of them fails the
\* statement of a job that is COMPLETED or about to be.
LEMMA ResultsOthers ==
  ASSUME TypeOK, HandlersInv, NEW s \in Statements, ResultsPart(s), [Next]_vars, ~TaskStep(s)
  PROVE  ResultsPart(s)'
<1>0. HandlersPart(s)
  BY DEF HandlersInv
<1> USE <1>0 DEF TypeOK, ResultsPart, HandlersPart, Readable, Alive, UploadSteps, Gone, InFlight,
        documents, handlers, boot, budget
<1>1. CASE \E t \in Statements : Upload(t) \/ DeleteBegin(t)
  BY <1>1 DEF Upload, UploadReject, UploadStorePdf, DeleteBegin
<1>2. CASE \E t \in Statements : UploadStep(t)
  BY <1>2 DEF UploadStep, UploadCreateStatement, UploadCreateJob, UploadAccept
<1>3. CASE \E t \in Statements \ {s} : TaskStep(t)
  BY <1>3 DEF TaskStep, TaskFetch, TaskMarkProcessing, TaskMarkRunning, Advance,
     TaskCategorize, TaskPersist, TaskUpsert, TaskProfile, TaskEmbed, TaskCompute,
     TaskTotal, TaskBreakDown, TaskInsights, TaskCompleteStatement, TaskCompleteJob,
     TaskFailStatement, TaskFailJob, UpdateOne
<1>4. CASE \E t \in Statements : DeleteStep(t)
  BY <1>4 DEF DeleteStep, DeleteTransactions, DeleteJobs, DeletePdf, DeleteStatement, Remove
<1>5. CASE \E t \in Statements : FaultStep(t)
  BY <1>5 DEF FaultStep, UploadRaise, TaskRaise, TaskEscape, DeletePdfFails, DeleteRaise,
     TryBlock, Handler
<1>6. CASE Crash
  BY <1>6 DEF Crash
<1>7. CASE Restart \/ RecoverFind \/ RecoverJobsFailed \/ RecoverDone \/ RecoverRaise
  BY <1>7 DEF Restart, RecoverFind, RecoverJobsFailed, RecoverDone, RecoverRaise, Interrupted
<1>8. CASE \E t \in Statements : RecoverFailJob(t) \/ RecoverFailStatement(t)
  BY <1>8 DEF RecoverFailJob, Interrupted, RecoverFailStatement, UpdateOne
<1>9. CASE UNCHANGED vars
  BY <1>9 DEF vars
<1>10. QED
  BY <1>1, <1>2, <1>3, <1>4, <1>5, <1>6, <1>7, <1>8, <1>9 DEF Next, ServerStep, ProcessStep, Recovery

LEMMA ResultsNext == TypeOK /\ HandlersInv /\ ResultsInv /\ [Next]_vars => ResultsInv'
BY ResultsTask, ResultsOthers DEF ResultsInv

LEMMA ResultsInvImplies == ResultsInv => ResultsBeforeDone
BY DEF ResultsInv, ResultsPart, ResultsBeforeDone

\* Whatever crashes, failures, deletes and restarts do, a job that says
\* COMPLETED has a COMPLETED statement with its analytics, or that statement
\* was deleted.
THEOREM ResultsCorrect == Spec => []ResultsBeforeDone
<1>1. Spec => [](TypeOK /\ HandlersInv /\ ResultsInv)
  BY InitTypeOK, NextTypeOK, InitHandlers, HandlersNext, ResultsNext, PTL DEF Spec
<1>2. QED
  BY <1>1, ResultsInvImplies, PTL

--------------------------------------------------------------------------------
(***************************************************************************)
(* The analytics of a statement that overlaps no other are exact.          *)
(*                                                                         *)
(* A row of an exclusive statement can only be taken by its own delete, so *)
(* what the task has upserted is still there when it sums it, when it      *)
(* breaks it down, and ever after: the strengthening follows the rows and  *)
(* the draft from the bulk write to the embedded analytics.                *)
(***************************************************************************)

\* The steps at which the draft holds the first query's rows, and all queries' rows.
Summed   == {"totalled", "broken_down", "generating_insights"}
Reported == {"broken_down", "generating_insights"}

ExactPart(s) ==
  /\ task[s] = "persisting_transactions" => \A r \in Content[s] \ todo[s] : row[r] = s
  /\ task[s] \in Persisted \/ statement[s] = "COMPLETED" => \A r \in Content[s] : row[r] = s
  /\ task[s] \in Summed => draft[s].totals = Content[s]
  /\ task[s] \in Reported => draft[s].breakdown = Content[s]
  /\ statement[s] = "COMPLETED" =>
       analytics[s].totals = Content[s] /\ analytics[s].breakdown = Content[s]

ExactInv == \A s \in Statements : Exclusive(s) /\ ~Deleted(s) => ExactPart(s)

LEMMA InitExact == Init => ExactInv
BY DEF Init, ExactInv, ExactPart, Persisted, Summed, Reported

\* A stored statement's rows are among the transactions it lists.
LEMMA AllStored ==
  ASSUME StoredInv, NEW s \in Statements, \A r \in Content[s] : row[r] = s
  PROVE  RowsOf(s) = Content[s]
<1>1. Content[s] \subseteq Refs
  BY ContentAssumption
<1>2. ASSUME NEW r \in RowsOf(s) PROVE r \in Content[s]
  BY <1>2, NoStatementAssumption DEF RowsOf, StoredInv, RowsListed
<1>3. ASSUME NEW r \in Content[s] PROVE r \in RowsOf(s)
  BY <1>1, <1>3 DEF RowsOf
<1> QED
  BY <1>2, <1>3

\* Neither another upload's upsert nor another statement's delete reaches a row of
\* an exclusive statement.
LEMMA ExclusiveRowStays ==
  ASSUME TypeOK, StoredInv, [Next]_vars, NEW s \in Statements, Exclusive(s), ~Deleted(s)',
         NEW r \in Content[s], row[r] = s
  PROVE  row'[r] = s
<1>0. r \in Refs /\ Content[s] \subseteq Refs
  BY ContentAssumption
<1>1. CASE row' = row
  BY <1>1
<1>2. ASSUME NEW t \in Statements, NEW q \in Refs, TaskUpsert(t, q)
      PROVE  row'[r] = s
  <2>1. row' = [row EXCEPT ![q] = t] /\ q \in Content[t]
    BY <1>2 DEF TaskUpsert, StoredInv, StoredPart
  <2>2. t # s => q # r
    BY <2>1 DEF Exclusive
  <2> QED
    BY <1>0, <2>1, <2>2 DEF TypeOK
<1>3. ASSUME NEW t \in Statements, DeleteTransactions(t)
      PROVE  row'[r] = s
  <2>1. t # s
    BY <1>3 DEF DeleteTransactions, Deleted, TypeOK
  <2> QED
    BY <1>0, <1>3, <2>1 DEF DeleteTransactions
<1> QED
  BY <1>1, <1>2, <1>3, RowsChange

\* A step of its own task.
LEMMA ExactTask ==
  ASSUME TypeOK, StoredInv, NEW s \in Statements, ExactPart(s), TaskStep(s),
         \A r \in Content[s] : row[r] = s => row'[r] = s
  PROVE  ExactPart(s)'
<1>0. Content[s] \subseteq Refs /\ StoredPart(s)
  BY ContentAssumption DEF StoredInv
<1> USE <1>0 DEF TypeOK, ExactPart, Persisted, Summed, Reported, documents, handlers
<1>1. CASE TaskFetch(s)
  BY <1>1 DEF TaskFetch
<1>2. CASE TaskMarkProcessing(s)
  BY <1>2 DEF TaskMarkProcessing, UpdateOne
<1>3. CASE TaskMarkRunning(s)
  BY <1>3 DEF TaskMarkRunning
<1>4. CASE TaskCategorize(s)
  BY <1>4 DEF TaskCategorize, Advance
<1>5. CASE TaskPersist(s)
  BY <1>5 DEF TaskPersist, Advance
<1>6. ASSUME NEW q \in Refs, TaskUpsert(s, q)
      PROVE  ExactPart(s)'
  <2>1. row'[q] = s
    BY <1>6 DEF TaskUpsert
  <2> QED
    BY <1>6, <2>1 DEF TaskUpsert
<1>7. CASE TaskProfile(s)
  BY <1>7 DEF TaskProfile, Advance
<1>8. CASE TaskEmbed(s) \/ TaskCompute(s) \/ TaskInsights(s)
  BY <1>8 DEF TaskEmbed, TaskCompute, TaskInsights, Advance
<1>9. CASE TaskTotal(s)
  <2>1. RowsOf(s) = Content[s]
    BY <1>9, AllStored DEF TaskTotal
  <2> QED
    BY <1>9, <2>1 DEF TaskTotal
<1>10. CASE TaskBreakDown(s)
  <2>1. RowsOf(s) = Content[s]
    BY <1>10, AllStored DEF TaskBreakDown
  <2>2. draft'[s].totals = Content[s] /\ draft'[s].breakdown = Content[s]
    BY <1>10, <2>1 DEF TaskBreakDown
  <2> QED
    BY <1>10, <2>2 DEF TaskBreakDown
<1>11. CASE TaskCompleteStatement(s)
  BY <1>11 DEF TaskCompleteStatement, UpdateOne, Gone
<1>12. CASE TaskCompleteJob(s) \/ TaskFailJob(s)
  BY <1>12 DEF TaskCompleteJob, TaskFailJob
<1>13. CASE TaskFailStatement(s)
  BY <1>13 DEF TaskFailStatement, UpdateOne
<1> QED
  BY <1>1, <1>2, <1>3, <1>4, <1>5, <1>6, <1>7, <1>8, <1>9, <1>10, <1>11, <1>12, <1>13 DEF TaskStep

\* Every other step leaves the task of s and its draft as they are, or ends the
\* task; and nothing but the task writes the analytics of a statement that is not
\* being deleted.
LEMMA ExactOthers ==
  ASSUME TypeOK, NEW s \in Statements, ExactPart(s), [Next]_vars, ~TaskStep(s), ~Deleted(s)',
         \A r \in Content[s] : row[r] = s => row'[r] = s
  PROVE  ExactPart(s)'
<1>1. SUFFICES
        /\ \/ task'[s] = task[s] /\ todo'[s] = todo[s] /\ draft'[s] = draft[s]
           \/ task'[s] \notin Persisted \cup Summed \cup {"persisting_transactions"}
        /\ statement'[s] = "COMPLETED" => statement[s] = "COMPLETED"
        /\ analytics'[s] = analytics[s]
  BY DEF ExactPart, Summed, Reported
<1> USE DEF TypeOK, Persisted, Summed, Deleted, documents, handlers
<1>2. CASE \E t \in Statements : Upload(t) \/ DeleteBegin(t)
  BY <1>2 DEF Upload, UploadReject, UploadStorePdf, DeleteBegin
<1>3. CASE \E t \in Statements : UploadStep(t)
  BY <1>3 DEF UploadStep, UploadCreateStatement, UploadCreateJob, UploadAccept
<1>4. CASE \E t \in Statements \ {s} : TaskStep(t)
  BY <1>4 DEF TaskStep, TaskFetch, TaskMarkProcessing, TaskMarkRunning, Advance,
     TaskCategorize, TaskPersist, TaskUpsert, TaskProfile, TaskEmbed, TaskCompute,
     TaskTotal, TaskBreakDown, TaskInsights, TaskCompleteStatement, TaskCompleteJob,
     TaskFailStatement, TaskFailJob, UpdateOne
<1>5. CASE \E t \in Statements : DeleteStep(t)
  BY <1>5 DEF DeleteStep, DeleteTransactions, DeleteJobs, DeletePdf, DeleteStatement, Remove
<1>6. CASE \E t \in Statements : FaultStep(t)
  BY <1>6 DEF FaultStep, UploadRaise, TaskRaise, TaskEscape, DeletePdfFails, DeleteRaise
<1>7. CASE Crash
  BY <1>7 DEF Crash
<1>8. CASE Restart \/ Recovery \/ RecoverRaise
  BY <1>8 DEF Restart, Recovery, RecoverRaise, RecoverFind, RecoverFailJob, Interrupted,
     RecoverJobsFailed, RecoverFailStatement, RecoverDone, UpdateOne
<1>9. CASE UNCHANGED vars
  BY <1>9 DEF vars
<1> QED
  BY <1>2, <1>3, <1>4, <1>5, <1>6, <1>7, <1>8, <1>9 DEF Next, ServerStep, ProcessStep

LEMMA NextExact == TypeOK /\ StoredInv /\ ExactInv /\ [Next]_vars => ExactInv'
<1> SUFFICES ASSUME TypeOK, StoredInv, ExactInv, [Next]_vars,
                    NEW s \in Statements, Exclusive(s), ~Deleted(s)'
             PROVE  ExactPart(s)'
  BY DEF ExactInv, Exclusive
<1>1. ExactPart(s)
  BY RowsChange DEF ExactInv
<1>2. \A r \in Content[s] : row[r] = s => row'[r] = s
  BY ExclusiveRowStays
<1> QED
  BY <1>1, <1>2, ExactTask, ExactOthers

\* Whatever crashes, fails or is deleted beside it, the analytics of a COMPLETED
\* statement that shares no transaction with another upload are about exactly the
\* transactions it lists, and those are stored under it.
THEOREM ExclusiveExact == Spec => []ExclusiveAnalyticsExact
<1>1. Spec => [](TypeOK /\ StoredInv /\ ExactInv)
  BY InitTypeOK, NextTypeOK, InitStored, NextStored, InitExact, NextExact, PTL DEF Spec
<1>2. StoredInv /\ ExactInv => ExclusiveAnalyticsExact
  BY AllStored DEF ExactInv, ExactPart, ExclusiveAnalyticsExact
<1> QED
  BY <1>1, <1>2, PTL

--------------------------------------------------------------------------------
(***************************************************************************)
(* No accepted statement is pending or processing for ever.                *)
(*                                                                         *)
(* Two things can lose one: a failure that nothing catches, and a crash in *)
(* the middle of the startup hook, which has then failed the job it finds  *)
(* the statement by.  Without them the strengthening follows a statement   *)
(* from hand to hand: its task while the server is up, its job until the   *)
(* hook has read it, the hook's list of ids until its document is written. *)
(***************************************************************************)

\* No write fails that the code neither retries nor records: an exception that
\* escapes the task, that abandons a created job, or that ends the startup hook.
NothingEscapes ==
  /\ ~RecoverRaise
  /\ \A s \in Statements : ~TaskEscape(s) /\ ~(upload[s] = "queued" /\ UploadRaise(s))

\* No crash hits the startup hook between its first update and its last.
HookFinishes == server \in {"failing_jobs", "failing_statements"} => server' # "down"

Unsettled(s) == statement[s] \in {"PENDING", "PROCESSING"} /\ upload[s] = "accepted"

HeldPart(s) ==
  ~Deleted(s) =>
    /\ upload[s] = "queued" \/ Alive(s) => job[s] \in InFlight
    /\ task[s] = "failing_job" => ~Unsettled(s)
    /\ Unsettled(s) =>
         \/ (server = "up" /\ Alive(s))
         \/ (server \in {"down", "booting"} /\ job[s] \in InFlight)
         \/ (server \in {"failing_jobs", "failing_statements"} /\ s \in interrupted)

HeldInv == \A s \in Statements : HeldPart(s)

LEMMA InitHeld == Init => HeldInv
BY DEF Init, HeldInv, HeldPart, Unsettled, Alive

\* A step of its own task: it ends with both documents moved on.
LEMMA HeldTask ==
  ASSUME TypeOK, HandlersInv, ResultsInv, NEW s \in Statements, HeldPart(s), TaskStep(s)
  PROVE  HeldPart(s)'
<1>0. HandlersPart(s) /\ ResultsPart(s)
  BY DEF HandlersInv, ResultsInv
<1>1. server = "up" /\ upload[s] = "accepted" /\ statement[s] # "none" /\ Alive(s)
      /\ server' = server /\ upload' = upload /\ deletion' = deletion
  BY <1>0 DEF HandlersPart, handlers, boot, Alive, TaskStep, TaskFetch, TaskMarkProcessing,
     TaskMarkRunning, Advance, TaskCategorize, TaskPersist, TaskUpsert, TaskProfile,
     TaskEmbed, TaskCompute, TaskTotal, TaskBreakDown, TaskInsights,
     TaskCompleteStatement, TaskCompleteJob, TaskFailStatement, TaskFailJob
<1> USE <1>0, <1>1 DEF TypeOK, HeldPart, Unsettled, Deleted, Alive, Gone, InFlight, documents
<1>2. CASE TaskFetch(s)
  BY <1>2 DEF TaskFetch
<1>3. CASE TaskMarkProcessing(s)
  BY <1>3 DEF TaskMarkProcessing, UpdateOne
<1>4. CASE TaskMarkRunning(s)
  BY <1>4 DEF TaskMarkRunning, UpdateOne
<1>5. CASE \/ TaskCategorize(s) \/ TaskPersist(s) \/ TaskProfile(s) \/ TaskEmbed(s)
           \/ TaskCompute(s) \/ TaskInsights(s)
  BY <1>5 DEF TaskCategorize, TaskPersist, TaskProfile, TaskEmbed, TaskCompute, TaskInsights, Advance
<1>6. CASE \E r \in Refs : TaskUpsert(s, r)
  BY <1>6 DEF TaskUpsert
<1>7. CASE TaskTotal(s) \/ TaskBreakDown(s)
  BY <1>7 DEF TaskTotal, TaskBreakDown
<1>8. CASE TaskCompleteStatement(s)
  BY <1>8 DEF TaskCompleteStatement, UpdateOne
<1>9. CASE TaskCompleteJob(s)
  BY <1>9 DEF TaskCompleteJob, ResultsPart, Readable
<1>10. CASE TaskFailStatement(s)
  BY <1>10 DEF TaskFailStatement, UpdateOne
<1>11. CASE TaskFailJob(s)
  BY <1>11 DEF TaskFailJob
<1> QED
  BY <1>2, <1>3, <1>4, <1>5, <1>6, <1>7, <1>8, <1>9, <1>10, <1>11 DEF TaskStep

\* Every other step: a crash or a start of the hook passes the statement on, and no
\* failure drops it.
LEMMA HeldOthers ==
  ASSUME TypeOK, HandlersInv, NEW s \in Statements, HeldPart(s), [Next]_vars, ~TaskStep(s),
         NothingEscapes, HookFinishes
  PROVE  HeldPart(s)'
<1>0. HandlersPart(s)
  BY DEF HandlersInv
<1> USE <1>0 DEF TypeOK, HeldPart, HandlersPart, Unsettled, Deleted, Alive, UploadSteps, Gone,
        InFlight, documents, handlers, boot, budget
<1>1. CASE \E t \in Statements : Upload(t) \/ DeleteBegin(t)
  BY <1>1 DEF Upload, UploadReject, UploadStorePdf, DeleteBegin
<1>2. CASE \E t \in Statements : UploadStep(t)
  BY <1>2 DEF UploadStep, UploadCreateStatement, UploadCreateJob, UploadAccept
<1>3. CASE \E t \in Statements \ {s} : TaskStep(t)
  BY <1>3 DEF TaskStep, TaskFetch, TaskMarkProcessing, TaskMarkRunning, Advance,
     TaskCategorize, TaskPersist, TaskUpsert, TaskProfile, TaskEmbed, TaskCompute,
     TaskTotal, TaskBreakDown, TaskInsights, TaskCompleteStatement, TaskCompleteJob,
     TaskFailStatement, TaskFailJob, UpdateOne
<1>4. CASE \E t \in Statements : DeleteStep(t)
  BY <1>4 DEF DeleteStep, DeleteTransactions, DeleteJobs, DeletePdf, DeleteStatement, Remove
<1>5. CASE \E t \in Statements : FaultStep(t)
  BY <1>5 DEF NothingEscapes, FaultStep, UploadRaise, TaskRaise, TaskEscape, DeletePdfFails,
     DeleteRaise, TryBlock, Handler
<1>6. CASE Crash
  BY <1>6 DEF Crash, HookFinishes
<1>7. CASE Restart \/ RecoverFind \/ RecoverJobsFailed \/ RecoverDone
  BY <1>7 DEF Restart, RecoverFind, RecoverJobsFailed, RecoverDone, Interrupted
<1>8. CASE \E t \in Statements : RecoverFailJob(t) \/ RecoverFailStatement(t)
  BY <1>8 DEF RecoverFailJob, Interrupted, RecoverFailStatement, UpdateOne
<1>9. CASE UNCHANGED vars
  BY <1>9 DEF vars
<1> QED
  BY <1>1, <1>2, <1>3, <1>4, <1>5, <1>6, <1>7, <1>8, <1>9
     DEF Next, ServerStep, ProcessStep, Recovery, NothingEscapes

LEMMA NextHeld ==
  /\ TypeOK /\ HandlersInv /\ ResultsInv /\ HeldInv
  /\ [Next]_vars /\ [NothingEscapes /\ HookFinishes]_vars
  => HeldInv'
<1> SUFFICES ASSUME TypeOK, HandlersInv, ResultsInv, HeldInv, [Next]_vars,
                    [NothingEscapes /\ HookFinishes]_vars, NEW s \in Statements
             PROVE  HeldPart(s)'
  BY DEF HeldInv
<1>1. HeldPart(s)
  BY DEF HeldInv
<1>2. CASE UNCHANGED vars
  BY <1>1, <1>2 DEF vars, documents, handlers, boot, HeldPart, Unsettled, Deleted, Alive
<1>3. CASE NothingEscapes /\ HookFinishes
  BY <1>1, <1>3, HeldTask, HeldOthers
<1> QED
  BY <1>2, <1>3

LEMMA HeldImplies == HandlersInv /\ HeldInv => InFlightStatementIsOwned
BY DEF HeldInv, HeldPart, Unsettled, InFlightStatementIsOwned

\* While the server answers requests, an accepted statement that nobody deletes is
\* pending or processing only while its task runs: after any number of crashes
\* and caught failures, unless a failure escapes or a crash hits the startup hook.
THEOREM StatementOwned ==
  Spec /\ [][NothingEscapes /\ HookFinishes]_vars => []InFlightStatementIsOwned
<1>1. Spec => [](TypeOK /\ HandlersInv /\ ResultsInv)
  BY InitTypeOK, NextTypeOK, InitHandlers, HandlersNext, ResultsNext, PTL DEF Spec
<1>2. Spec /\ [][NothingEscapes /\ HookFinishes]_vars => []HeldInv
  BY <1>1, InitHeld, NextHeld, PTL DEF Spec
<1> QED
  BY <1>1, <1>2, HeldImplies, PTL

\* Only the process steps move the server or count a crash.
LEMMA ServerPhase ==
  ASSUME [Next]_vars, ~ProcessStep
  PROVE  server' = server /\ crashes' = crashes
<1> USE DEF boot, budget
<1>1. CASE \E s \in Statements : Upload(s) \/ DeleteBegin(s) \/ UploadStep(s) \/ DeleteStep(s)
  BY <1>1 DEF Upload, UploadReject, UploadStorePdf, DeleteBegin, UploadStep,
     UploadCreateStatement, UploadCreateJob, UploadAccept, DeleteStep, DeleteTransactions,
     DeleteJobs, DeletePdf, DeleteStatement
<1>2. CASE \E s \in Statements : TaskStep(s)
  BY <1>2 DEF TaskStep, TaskFetch, TaskMarkProcessing, TaskMarkRunning, Advance,
     TaskCategorize, TaskPersist, TaskUpsert, TaskProfile, TaskEmbed, TaskCompute,
     TaskTotal, TaskBreakDown, TaskInsights, TaskCompleteStatement, TaskCompleteJob,
     TaskFailStatement, TaskFailJob
<1>3. CASE \E s \in Statements : FaultStep(s)
  BY <1>3 DEF FaultStep, UploadRaise, TaskRaise, TaskEscape, DeletePdfFails, DeleteRaise
<1>4. CASE UNCHANGED vars
  BY <1>4 DEF vars
<1> QED
  BY <1>1, <1>2, <1>3, <1>4 DEF Next, ServerStep

\* One crash cannot hit the startup hook: it takes a crash to run it.
LEMMA FirstCrash == MaxCrashes <= 1 /\ Spec => [][HookFinishes]_vars
<1> SUFFICES ASSUME MaxCrashes <= 1 PROVE Spec => [][HookFinishes]_vars
  OBVIOUS
<1> DEFINE Fresh == TypeOK /\ (crashes = 0 => server = "up")
<1>1. Init => Fresh
  BY InitTypeOK DEF Init
<1>2. Fresh /\ [Next]_vars => Fresh'
  <2> SUFFICES ASSUME Fresh, [Next]_vars PROVE (crashes = 0 => server = "up")'
    BY NextTypeOK
  <2>1. CASE Crash
    BY <2>1 DEF Crash, TypeOK
  <2>2. CASE Restart \/ Recovery \/ RecoverRaise
    BY <2>2 DEF Restart, Recovery, RecoverRaise, RecoverFind, RecoverFailJob,
       RecoverJobsFailed, RecoverFailStatement, RecoverDone, boot, budget
  <2>3. CASE ~ProcessStep
    BY <2>3, ServerPhase DEF budget
  <2> QED
    BY <2>1, <2>2, <2>3 DEF ProcessStep
<1>3. Fresh /\ [Next]_vars => [HookFinishes]_vars
  <2> SUFFICES ASSUME Fresh, Next PROVE HookFinishes
    OBVIOUS
  <2>1. CASE Crash
    BY <2>1, BoundsAssumption DEF Crash, HookFinishes, TypeOK
  <2>2. CASE Restart \/ Recovery \/ RecoverRaise
    BY <2>2 DEF Restart, Recovery, RecoverRaise, RecoverFind, RecoverFailJob, boot,
       RecoverJobsFailed, RecoverFailStatement, RecoverDone, HookFinishes
  <2>3. CASE ~ProcessStep
    BY <2>3, ServerPhase DEF HookFinishes
  <2> QED
    BY <2>1, <2>2, <2>3 DEF ProcessStep
<1> QED
  BY <1>1, <1>2, <1>3, PTL DEF Spec

\* The same for a process that crashes at most once, whenever that is.
THEOREM StatementOwnedOnce ==
  MaxCrashes <= 1 /\ Spec /\ [][NothingEscapes]_vars => []InFlightStatementIsOwned
<1>1. [][NothingEscapes]_vars /\ [][HookFinishes]_vars => [][NothingEscapes /\ HookFinishes]_vars
  <2>1. [NothingEscapes]_vars /\ [HookFinishes]_vars => [NothingEscapes /\ HookFinishes]_vars
    OBVIOUS
  <2> QED
    BY <2>1, PTL
<1> QED
  BY <1>1, FirstCrash, StatementOwned, PTL

================================================================================
