------------------------ MODULE StatementContractProofs ------------------------
(***************************************************************************)
(* The pipeline implements the polling contract, for clients that delete a *)
(* statement only after the 202 that names it, and no job outlives its     *)
(* statement.                                                              *)
(***************************************************************************)
EXTENDS StatementPipelineProofs

(***************************************************************************)
(* The strengthening says which statuses the job document of s can have at *)
(* each step of its handlers: only deletes touch it besides the task and   *)
(* the startup hook, a delete removes it before the statement, and the     *)
(* percentages of the stages ascend.                                       *)
(***************************************************************************)

\* The percentage that the job has not exceeded when its task is at a step.
Reached(step) ==
  CASE step = "categorizing"            -> 20
    [] step = "persisting_transactions" -> 40
    [] step = "profiling_merchants"     -> 55
    [] step = "generating_embeddings"   -> 70
    [] step \in {"computing_analytics", "totalled", "broken_down"} -> 85
    [] step \in {"generating_insights", "finishing"} -> 95
    [] OTHER -> 0

JobPart(s) ==
  /\ Deleted(s) => upload[s] = "accepted"
  /\ upload[s] \in {"new", "stored", "created", "queued"} => progress[s] = 0
  /\ upload[s] = "queued" => job[s] = "QUEUED"
  /\ upload[s] = "accepted" => job[s] # "none"
  /\ statement[s] = "none" => job[s] = "none"
  /\ statement[s] = "deleted" => Deleted(s)
  /\ deletion[s] \in {"pdf", "statement", "done"} \/ statement[s] = "deleted" => job[s] \in Gone
  /\ task[s] \in {"scheduled", "fetched", "claimed"} => job[s] \in {"QUEUED", "deleted"}
  /\ task[s] \in TryBlock \ {"fetched", "claimed"} => job[s] \in {"RUNNING", "deleted"}
  /\ task[s] \in TryBlock => progress[s] <= Reached(task[s])
  /\ task[s] = "scheduled" => progress[s] = 0
  /\ task[s] \in Handler => job[s] \in InFlight \cup {"deleted"}

JobInv == \A s \in Statements : JobPart(s)

LEMMA PatientNextIsNext == PatientNext => Next
BY DEF PatientNext, PatientDelete, Next

LEMMA InitJob == Init => JobInv
<1> SUFFICES ASSUME Init, NEW s \in Statements
             PROVE  JobPart(s)
  BY DEF JobInv
<1>1. /\ upload[s] = "new" /\ statement[s] = "none" /\ job[s] = "none" /\ progress[s] = 0
      /\ task[s] = "idle" /\ deletion[s] = "none"
  BY DEF Init
<1>2. QED
  BY <1>1 DEF JobPart, Deleted, Gone, TryBlock, Handler

\* A step of the task of s: the statuses of its job follow the steps, and each
\* progress update raises the percentage.
LEMMA JobTask ==
  ASSUME TypeOK, HandlersInv, NEW s \in Statements, JobPart(s), TaskStep(s)
  PROVE  JobPart(s)'
<1>0. HandlersPart(s)
  BY DEF HandlersInv
<1>1. upload[s] = "accepted" /\ job[s] # "none" /\ upload'[s] = upload[s]
      /\ deletion' = deletion /\ (Deleted(s) <=> Deleted(s)')
  BY <1>0 DEF HandlersPart, JobPart, Deleted, handlers, TaskStep, TaskFetch, TaskMarkProcessing,
     TaskMarkRunning, Advance, TaskCategorize, TaskPersist, TaskUpsert, TaskProfile,
     TaskEmbed, TaskCompute, TaskTotal, TaskBreakDown, TaskInsights,
     TaskCompleteStatement, TaskCompleteJob, TaskFailStatement, TaskFailJob
<1> USE <1>1 DEF TypeOK, JobPart, Gone, InFlight, TryBlock, Handler, Reached, documents
<1>2. CASE TaskFetch(s)
  BY <1>2 DEF TaskFetch
<1>3. CASE TaskMarkProcessing(s)
  BY <1>3 DEF TaskMarkProcessing, UpdateOne
<1>4. CASE TaskMarkRunning(s)
  BY <1>4 DEF TaskMarkRunning, UpdateOne
<1>5. CASE TaskCategorize(s)
  BY <1>5 DEF TaskCategorize, Advance, SetProgress
<1>6. CASE TaskPersist(s)
  <2>1. Advance(s, "categorizing", "persisting_transactions", 40)
    BY <1>6 DEF TaskPersist
  <2>2. QED
    BY <2>1 DEF Advance, SetProgress
<1>7. CASE \E r \in Refs : TaskUpsert(s, r)
  BY <1>7 DEF TaskUpsert
<1>8. CASE TaskProfile(s)
  BY <1>8 DEF TaskProfile, Advance, SetProgress
<1>9. CASE TaskEmbed(s)
  BY <1>9 DEF TaskEmbed, Advance, SetProgress
<1>10. CASE TaskCompute(s)
  BY <1>10 DEF TaskCompute, Advance, SetProgress
<1>11. CASE TaskTotal(s)
  BY <1>11 DEF TaskTotal
<1>12. CASE TaskBreakDown(s)
  BY <1>12 DEF TaskBreakDown
<1>13. CASE TaskInsights(s)
  BY <1>13 DEF TaskInsights, Advance, SetProgress
<1>14. CASE TaskCompleteStatement(s)
  BY <1>14 DEF TaskCompleteStatement, UpdateOne
<1>15. CASE TaskCompleteJob(s)
  BY <1>15 DEF TaskCompleteJob, UpdateOne
<1>16. CASE TaskFailStatement(s)
  BY <1>16 DEF TaskFailStatement, UpdateOne
<1>17. CASE TaskFailJob(s)
  BY <1>17 DEF TaskFailJob, UpdateOne
<1>18. QED
  BY <1>2, <1>3, <1>4, <1>5, <1>6, <1>7, <1>8, <1>9, <1>10, <1>11, <1>12, <1>13, <1>14, <1>15, <1>16, <1>17 DEF TaskStep

\* Every other step.
LEMMA JobOthers ==
  ASSUME TypeOK, HandlersInv, NEW s \in Statements, JobPart(s), [PatientNext]_vars, ~TaskStep(s)
  PROVE  JobPart(s)'
<1>0. HandlersPart(s)
  BY DEF HandlersInv
<1> USE <1>0 DEF TypeOK, JobPart, HandlersPart, Deleted, Alive, UploadSteps, Gone, InFlight,
        TryBlock, Handler, Reached, documents, handlers, boot, budget
<1>1. CASE \E t \in Statements : Upload(t) \/ PatientDelete(t)
  BY <1>1 DEF Upload, UploadReject, UploadStorePdf, PatientDelete, DeleteBegin
<1>2. CASE \E t \in Statements : UploadStep(t)
  <2>1. CASE \E t \in Statements : UploadCreateStatement(t)
    BY <2>1 DEF UploadCreateStatement
  <2>2. CASE \E t \in Statements : UploadCreateJob(t)
    BY <2>2 DEF UploadCreateJob
  <2>3. CASE \E t \in Statements : UploadAccept(t)
    BY <2>3 DEF UploadAccept
  <2>4. QED
    BY <1>2, <2>1, <2>2, <2>3 DEF UploadStep
<1>3. CASE \E t \in Statements \ {s} : TaskStep(t)
  BY <1>3 DEF TaskStep, TaskFetch, TaskMarkProcessing, TaskMarkRunning, Advance,
     TaskCategorize, TaskPersist, TaskUpsert, TaskProfile, TaskEmbed, TaskCompute,
     TaskTotal, TaskBreakDown, TaskInsights, TaskCompleteStatement, TaskCompleteJob,
     TaskFailStatement, TaskFailJob, UpdateOne, SetProgress
<1>4. CASE \E t \in Statements : DeleteStep(t)
  BY <1>4 DEF DeleteStep, DeleteTransactions, DeleteJobs, DeletePdf, DeleteStatement, Remove
<1>5. CASE \E t \in Statements : FaultStep(t)
  BY <1>5 DEF FaultStep, UploadRaise, TaskRaise, TaskEscape, DeletePdfFails, DeleteRaise, DeleteSteps
<1>6. CASE Crash
  BY <1>6 DEF Crash, DeleteSteps
<1>7. CASE Restart \/ RecoverFind \/ RecoverJobsFailed \/ RecoverDone \/ RecoverRaise
  BY <1>7 DEF Restart, RecoverFind, RecoverJobsFailed, RecoverDone, RecoverRaise
<1>8. CASE \E t \in Statements : RecoverFailJob(t) \/ RecoverFailStatement(t)
  BY <1>8 DEF RecoverFailJob, Interrupted, RecoverFailStatement, UpdateOne
<1>9. CASE UNCHANGED vars
  BY <1>9 DEF vars
<1>10. QED
  BY <1>1, <1>2, <1>3, <1>4, <1>5, <1>6, <1>7, <1>8, <1>9 DEF PatientNext, ServerStep, ProcessStep, Recovery

LEMMA NextJob == TypeOK /\ HandlersInv /\ JobInv /\ [PatientNext]_vars => JobInv'
BY JobTask, JobOthers DEF JobInv

ContractInv == TypeOK /\ HandlersInv /\ ResultsInv /\ JobInv

LEMMA PatientInvariant == PatientSpec => []ContractInv
<1>1. Init => ContractInv
  BY InitTypeOK, InitHandlers, InitJob DEF ContractInv
<1>2. ContractInv /\ [PatientNext]_vars => ContractInv'
  <2>1. [PatientNext]_vars => [Next]_vars
    BY PatientNextIsNext
  <2>2. QED
    BY <2>1, NextTypeOK, HandlersNext, ResultsNext, NextJob DEF ContractInv
<1>3. QED
  BY <1>1, <1>2, PTL DEF PatientSpec

\* No job can be polled whose statement is not there any more, as long as a
\* client deletes a statement only after its upload was accepted.
THEOREM JobHasStatementCorrect == PatientSpec => []JobHasStatement
<1>1. ContractInv => JobHasStatement
  BY DEF ContractInv, HandlersInv, HandlersPart, JobInv, JobPart, JobHasStatement, TypeOK, Gone,
     UploadSteps
<1>2. QED
  BY <1>1, PatientInvariant, PTL

--------------------------------------------------------------------------------
(***************************************************************************)
(* Refinement: every step of the pipeline is a step of JobContract or      *)
(* leaves what the client can see as it is.                                *)
(***************************************************************************)

Visible == <<job, progress, Readable>>

\* The task publishes the results before it completes the job, and withdraws
\* them only from a job that is not COMPLETED.
LEMMA TaskImplements ==
  ASSUME ContractInv, NEW s \in Statements, TaskStep(s)
  PROVE  Contract!Next \/ UNCHANGED Visible
<1>1. HandlersPart(s) /\ ResultsPart(s) /\ JobPart(s) /\ TypeOK
  BY DEF ContractInv, HandlersInv, ResultsInv, JobInv
<1>2. ASSUME NEW stage, NEW next, NEW percent \in 1 .. 99, Advance(s, stage, next, percent),
             stage \in TryBlock \ {"fetched", "claimed"}, Reached(stage) < percent
      PROVE  Contract!Progress(s) \/ UNCHANGED Visible
  <2>1. statement' = statement /\ analytics' = analytics /\ job' = job /\ Readable' = Readable
    BY <1>2 DEF Advance, Readable
  <2>2. progress[s] < percent /\ job[s] \in {"RUNNING", "deleted"}
    BY <1>1, <1>2 DEF Advance, JobPart, TypeOK, TryBlock, Reached
  <2>3. QED
    BY <1>1, <1>2, <2>1, <2>2 DEF Advance, SetProgress, Contract!Progress, Visible, TypeOK, Gone
<1>3. CASE TaskFetch(s) \/ (\E r \in Refs : TaskUpsert(s, r)) \/ TaskTotal(s) \/ TaskBreakDown(s)
  BY <1>3 DEF TaskFetch, TaskUpsert, TaskTotal, TaskBreakDown, documents, Visible, Readable
<1>4. CASE TaskMarkProcessing(s)
  <2>1. Readable' = Readable \ {s} \/ Readable' = Readable
    BY <1>1, <1>4 DEF TaskMarkProcessing, UpdateOne, Readable, TypeOK
  <2>2. Contract!Withdraw(s) \/ UNCHANGED Visible
    BY <1>1, <1>4, <2>1 DEF TaskMarkProcessing, Contract!Withdraw, Visible, JobPart
  <2>3. QED
    BY <2>2 DEF Contract!Next
<1>5. CASE TaskMarkRunning(s)
  <2>1. Contract!Start(s) \/ UNCHANGED Visible
    BY <1>1, <1>5 DEF TaskMarkRunning, UpdateOne, Contract!Start, Visible, Readable, JobPart,
       TypeOK, Gone
  <2>2. QED
    BY <2>1 DEF Contract!Next
<1>6. CASE \/ TaskCategorize(s) \/ TaskPersist(s) \/ TaskProfile(s) \/ TaskEmbed(s)
           \/ TaskCompute(s) \/ TaskInsights(s)
  <2>1. \/ Advance(s, "parsing", "categorizing", 20)
        \/ Advance(s, "categorizing", "persisting_transactions", 40)
        \/ Advance(s, "persisting_transactions", "profiling_merchants", 55)
        \/ Advance(s, "profiling_merchants", "generating_embeddings", 70)
        \/ Advance(s, "generating_embeddings", "computing_analytics", 85)
        \/ Advance(s, "broken_down", "generating_insights", 95)
    BY <1>6 DEF TaskCategorize, TaskPersist, TaskProfile, TaskEmbed, TaskCompute, TaskInsights
  <2>2. Contract!Progress(s) \/ UNCHANGED Visible
    BY <1>2, <2>1 DEF TryBlock, Reached
  <2>3. QED
    BY <2>2 DEF Contract!Next
<1>7. CASE TaskCompleteStatement(s)
  <2>1. Readable' = Readable \cup {s} \/ UNCHANGED Visible
    BY <1>1, <1>7 DEF TaskCompleteStatement, UpdateOne, Readable, Visible, ResultsPart, TypeOK
  <2>2. Contract!Publish(s) \/ UNCHANGED Visible
    BY <1>1, <1>7, <2>1 DEF TaskCompleteStatement, Contract!Publish, JobPart, TryBlock
  <2>3. QED
    BY <2>2 DEF Contract!Next
<1>8. CASE TaskCompleteJob(s)
  <2>1. job[s] = "RUNNING" => s \in Readable
    BY <1>1, <1>8 DEF TaskCompleteJob, ResultsPart, JobPart, Gone
  <2>2. Contract!Complete(s) \/ UNCHANGED Visible
    BY <1>1, <1>8, <2>1 DEF TaskCompleteJob, UpdateOne, SetProgress, Contract!Complete, Visible,
       Readable, JobPart, TypeOK, TryBlock, Gone
  <2>3. QED
    BY <2>2 DEF Contract!Next
<1>9. CASE TaskFailStatement(s)
  <2>1. Readable' = Readable \ {s} \/ Readable' = Readable
    BY <1>1, <1>9 DEF TaskFailStatement, UpdateOne, Readable, TypeOK
  <2>2. Contract!Withdraw(s) \/ UNCHANGED Visible
    BY <1>1, <1>9, <2>1 DEF TaskFailStatement, Contract!Withdraw, Visible, JobPart, Handler, InFlight
  <2>3. QED
    BY <2>2 DEF Contract!Next
<1>10. CASE TaskFailJob(s)
  <2>1. Contract!Fail(s) \/ UNCHANGED Visible
    BY <1>1, <1>10 DEF TaskFailJob, UpdateOne, Contract!Fail, Visible, Readable, JobPart, TypeOK,
       Handler, InFlight, Gone
  <2>2. QED
    BY <2>1 DEF Contract!Next
<1>11. QED
  BY <1>3, <1>4, <1>5, <1>6, <1>7, <1>8, <1>9, <1>10 DEF TaskStep

\* The upload submits the job; a delete removes it before it withdraws the
\* results; the startup hook fails a job that is in flight, and withdraws
\* results of none that is COMPLETED.
LEMMA OthersImplement ==
  ASSUME ContractInv, PatientNext, \A s \in Statements : ~TaskStep(s)
  PROVE  Contract!Next \/ UNCHANGED Visible
<1>1. TypeOK /\ \A s \in Statements : HandlersPart(s) /\ ResultsPart(s) /\ JobPart(s)
  BY DEF ContractInv, HandlersInv, ResultsInv, JobInv
<1>2. CASE \E s \in Statements : Upload(s) \/ PatientDelete(s) \/ FaultStep(s)
  BY <1>2 DEF Upload, UploadReject, UploadStorePdf, PatientDelete, DeleteBegin, FaultStep, UploadRaise,
     TaskRaise, TaskEscape, DeletePdfFails, DeleteRaise, documents, Visible, Readable
<1>3. ASSUME NEW s \in Statements, UploadStep(s)
      PROVE  Contract!Next \/ UNCHANGED Visible
  <2>1. CASE UploadCreateStatement(s)
    BY <1>1, <2>1 DEF UploadCreateStatement, HandlersPart, Visible, Readable, TypeOK
  <2>2. CASE UploadCreateJob(s)
    <3>1. Contract!Submit(s)
      BY <1>1, <2>2 DEF UploadCreateJob, HandlersPart, Contract!Submit, Readable
    <3>2. QED
      BY <3>1 DEF Contract!Next
  <2>3. CASE UploadAccept(s)
    BY <2>3 DEF UploadAccept, Visible, Readable
  <2>4. QED
    BY <1>3, <2>1, <2>2, <2>3 DEF UploadStep
<1>4. ASSUME NEW s \in Statements, DeleteStep(s)
      PROVE  Contract!Next \/ UNCHANGED Visible
  <2>1. CASE DeleteTransactions(s) \/ DeletePdf(s)
    BY <2>1 DEF DeleteTransactions, DeletePdf, Visible, Readable
  <2>2. CASE DeleteJobs(s)
    <3>1. Contract!Delete(s) \/ UNCHANGED Visible
      BY <1>1, <2>2 DEF DeleteJobs, Remove, Contract!Delete, Visible, Readable, TypeOK, Gone
    <3>2. QED
      BY <3>1 DEF Contract!Next
  <2>3. CASE DeleteStatement(s)
    <3>1. Readable' = Readable \ {s}
      BY <1>1, <2>3 DEF DeleteStatement, Remove, Readable, NoReport, TypeOK, Gone
    <3>2. Contract!Withdraw(s)
      BY <1>1, <2>3, <3>1 DEF DeleteStatement, Contract!Withdraw, JobPart, Gone
    <3>3. QED
      BY <3>2 DEF Contract!Next
  <2>4. QED
    BY <1>4, <2>1, <2>2, <2>3 DEF DeleteStep
<1>5. CASE Crash \/ Restart \/ RecoverFind \/ RecoverJobsFailed \/ RecoverDone \/ RecoverRaise
  BY <1>5 DEF Crash, Restart, RecoverFind, RecoverJobsFailed, RecoverDone, RecoverRaise,
     documents, Visible, Readable
<1>6. ASSUME NEW s \in Statements, RecoverFailJob(s)
      PROVE  Contract!Next \/ UNCHANGED Visible
  <2>1. Contract!Fail(s)
    BY <1>1, <1>6 DEF RecoverFailJob, Interrupted, UpdateOne, Contract!Fail, Readable, TypeOK,
       InFlight, Gone
  <2>2. QED
    BY <2>1 DEF Contract!Next
<1>7. ASSUME NEW s \in Statements, RecoverFailStatement(s)
      PROVE  Contract!Next \/ UNCHANGED Visible
  <2>1. Readable' = Readable \ {s} \/ Readable' = Readable
    BY <1>1, <1>7 DEF RecoverFailStatement, UpdateOne, Readable, TypeOK
  <2>2. Contract!Withdraw(s) \/ UNCHANGED Visible
    BY <1>1, <1>7, <2>1 DEF RecoverFailStatement, Contract!Withdraw, Visible, ResultsPart
  <2>3. QED
    BY <2>2 DEF Contract!Next
<1>8. QED
  BY <1>2, <1>3, <1>4, <1>5, <1>6, <1>7 DEF PatientNext, ServerStep, ProcessStep, Recovery

\* For clients that delete a statement only after its upload was accepted, the
\* pipeline implements the polling contract: whatever crashes and fails, a job
\* moves only from QUEUED through RUNNING to COMPLETED or FAILED, its percentage
\* only grows, and it is COMPLETED only while its results can be read.
THEOREM ContractImplemented == PatientSpec => ImplementsContract
<1>1. Init => Contract!Init
  BY DEF Init, Contract!Init, Readable
<1>2. ContractInv /\ [PatientNext]_vars => [Contract!Next]_(Contract!contract)
  <2> SUFFICES ASSUME ContractInv, [PatientNext]_vars
               PROVE  Contract!Next \/ UNCHANGED Visible
    BY DEF Contract!contract, Visible
  <2>1. CASE PatientNext
    BY <2>1, TaskImplements, OthersImplement
  <2>2. CASE UNCHANGED vars
    BY <2>2 DEF vars, documents, Visible, Readable
  <2>3. QED
    BY <2>1, <2>2
<1>3. QED
  BY <1>1, <1>2, PatientInvariant, PTL
     DEF PatientSpec, ImplementsContract, Contract!Spec

--------------------------------------------------------------------------------
(***************************************************************************)
(* What the contract is worth to the app (JobsRepository.poll in           *)
(* jobs_repository.dart), whatever the server does behind it.              *)
(***************************************************************************)

Final    == {"COMPLETED", "FAILED"}
Statuses == {"none", "deleted"} \cup InFlight \cup Final

\* What a client may conclude from one answer and the contract.
Promised ==
  /\ job \in [Statements -> Statuses] /\ progress \in [Statements -> 0 .. 100]
  /\ \A s \in Statements : job[s] = "COMPLETED" => s \in Readable

\* ... and from two, the second of which came later.
NeverBack ==
  \A s \in Statements :
    /\ progress[s] <= progress'[s]
    /\ job[s] # "none" => job'[s] # "none"
    /\ job[s] # "QUEUED" => job'[s] # "QUEUED" \/ job[s] = "none"
    /\ job[s] \in Final => job'[s] \in {job[s], "deleted"}
    /\ job[s] = "deleted" => job'[s] = "deleted"

LEMMA ContractSteps ==
  ASSUME Promised, [Contract!Next]_(Contract!contract)
  PROVE  Promised' /\ NeverBack
<1>1. CASE UNCHANGED Contract!contract
  BY <1>1 DEF Contract!contract, Promised, NeverBack
<1>2. ASSUME NEW j \in Statements, NEW x \in Statuses,
             job' = [job EXCEPT ![j] = x], UNCHANGED progress, UNCHANGED Readable,
             /\ x # "none" /\ x # "COMPLETED" /\ (x = "QUEUED" => job[j] = "none")
             /\ (job[j] \in Final \cup {"deleted"} => x = "deleted")
      PROVE  Promised' /\ NeverBack
  BY <1>2 DEF Promised, NeverBack
<1>3. ASSUME NEW j \in Statements, Contract!Submit(j) \/ Contract!Start(j) \/ Contract!Fail(j)
                                    \/ Contract!Delete(j)
      PROVE  Promised' /\ NeverBack
  BY <1>2, <1>3 DEF Contract!Submit, Contract!Start, Contract!Fail, Contract!Delete, Statuses,
     InFlight, Final
<1>4. ASSUME NEW j \in Statements, Contract!Progress(j) PROVE Promised' /\ NeverBack
  BY <1>4 DEF Contract!Progress, Promised, NeverBack
<1>5. ASSUME NEW j \in Statements, Contract!Publish(j) \/ Contract!Withdraw(j)
      PROVE  Promised' /\ NeverBack
  BY <1>5 DEF Contract!Publish, Contract!Withdraw, Promised, NeverBack
<1>6. ASSUME NEW j \in Statements, Contract!Complete(j) PROVE Promised' /\ NeverBack
  BY <1>6 DEF Contract!Complete, Promised, NeverBack, Statuses, Final
<1> QED
  BY <1>1, <1>3, <1>4, <1>5, <1>6 DEF Contract!Next

\* Two answers of GET /jobs/{id} never contradict each other: the percentage does
\* not fall, a COMPLETED or FAILED job stays what it is until it is deleted and does
\* not return, and COMPLETED means that the results can be read.  This follows from
\* the contract alone, whatever crashes and fails in the pipeline.
THEOREM PollsNeverContradict == PatientSpec => []Promised /\ [][NeverBack]_vars
<1>1. Contract!Init => Promised
  BY DEF Contract!Init, Promised, Statuses
<1>2. Contract!Spec => []Promised /\ [][NeverBack]_(Contract!contract)
  <2>1. Promised /\ [Contract!Next]_(Contract!contract) => Promised'
    BY ContractSteps
  <2>2. Promised /\ [Contract!Next]_(Contract!contract) => [NeverBack]_(Contract!contract)
    BY ContractSteps
  <2> QED
    BY <1>1, <2>1, <2>2, PTL DEF Contract!Spec
<1>3. Promised /\ [NeverBack]_(Contract!contract) => [NeverBack]_vars
  BY DEF Contract!contract, Promised, NeverBack
<1> QED
  BY <1>2, <1>3, ContractImplemented, PTL DEF ImplementsContract

--------------------------------------------------------------------------------
(***************************************************************************)
(* No job is left QUEUED or RUNNING with nobody to move it on.             *)
(*                                                                         *)
(* The startup hook fails what a crash left in flight before the server    *)
(* answers, and the task leaves the job only COMPLETED, FAILED or deleted; *)
(* crashes may hit anything, the hook included, because the hook finds     *)
(* jobs by their own status.                                               *)
(***************************************************************************)

OwnedPart(s) ==
  /\ (server = "up" /\ job[s] \in InFlight) => (upload[s] \in UploadSteps \/ Alive(s))
  /\ server = "failing_statements" => job[s] \notin InFlight

OwnedInv == \A s \in Statements : OwnedPart(s)

LEMMA InitOwned == Init => OwnedInv
BY DEF Init, OwnedInv, OwnedPart, InFlight

LEMMA OwnedStep ==
  ASSUME ContractInv, NEW s \in Statements, OwnedPart(s), [PatientNext]_vars, NothingEscapes
  PROVE  OwnedPart(s)'
<1>0. TypeOK /\ HandlersPart(s) /\ JobPart(s)
  BY DEF ContractInv, HandlersInv, JobInv
<1> USE <1>0 DEF TypeOK, OwnedPart, HandlersPart, Alive, UploadSteps, Gone, InFlight,
        documents, handlers, boot, budget
<1>1. CASE \E t \in Statements : Upload(t) \/ PatientDelete(t)
  BY <1>1 DEF Upload, UploadReject, UploadStorePdf, PatientDelete, DeleteBegin
<1>2. CASE \E t \in Statements : UploadStep(t)
  BY <1>2 DEF UploadStep, UploadCreateStatement, UploadCreateJob, UploadAccept
<1>3. CASE TaskStep(s)
  <2>1. CASE TaskFetch(s)
    BY <2>1 DEF TaskFetch, JobPart, Deleted
  <2>2. CASE TaskCompleteJob(s) \/ TaskFailJob(s)
    BY <2>2 DEF TaskCompleteJob, TaskFailJob, UpdateOne
  <2>3. CASE TaskMarkProcessing(s) \/ TaskMarkRunning(s) \/ TaskFailStatement(s)
    BY <2>3 DEF TaskMarkProcessing, TaskMarkRunning, TaskFailStatement, UpdateOne
  <2>4. CASE \/ TaskCategorize(s) \/ TaskPersist(s) \/ TaskProfile(s) \/ TaskEmbed(s)
             \/ TaskCompute(s) \/ TaskInsights(s)
    BY <2>4 DEF TaskCategorize, TaskPersist, TaskProfile, TaskEmbed, TaskCompute,
       TaskInsights, Advance
  <2>5. CASE \/ TaskTotal(s) \/ TaskBreakDown(s) \/ TaskCompleteStatement(s)
             \/ \E r \in Refs : TaskUpsert(s, r)
    BY <2>5 DEF TaskTotal, TaskBreakDown, TaskCompleteStatement, TaskUpsert
  <2> QED
    BY <1>3, <2>1, <2>2, <2>3, <2>4, <2>5 DEF TaskStep
<1>4. CASE \E t \in Statements \ {s} : TaskStep(t)
  BY <1>4 DEF TaskStep, TaskFetch, TaskMarkProcessing, TaskMarkRunning, Advance,
     TaskCategorize, TaskPersist, TaskUpsert, TaskProfile, TaskEmbed, TaskCompute,
     TaskTotal, TaskBreakDown, TaskInsights, TaskCompleteStatement, TaskCompleteJob,
     TaskFailStatement, TaskFailJob, UpdateOne
<1>5. CASE \E t \in Statements : DeleteStep(t)
  BY <1>5 DEF DeleteStep, DeleteTransactions, DeleteJobs, DeletePdf, DeleteStatement, Remove
<1>6. CASE \E t \in Statements : FaultStep(t)
  BY <1>6 DEF NothingEscapes, FaultStep, UploadRaise, TaskRaise, TaskEscape, DeletePdfFails,
     DeleteRaise, TryBlock, Handler
<1>7. CASE Crash
  BY <1>7 DEF Crash
<1>8. CASE Restart \/ RecoverFind \/ RecoverJobsFailed \/ RecoverDone
  BY <1>8 DEF Restart, RecoverFind, RecoverJobsFailed, RecoverDone, Interrupted
<1>9. CASE \E t \in Statements : RecoverFailJob(t) \/ RecoverFailStatement(t)
  BY <1>9 DEF RecoverFailJob, Interrupted, RecoverFailStatement, UpdateOne
<1>10. CASE UNCHANGED vars
  BY <1>10 DEF vars
<1> QED
  BY <1>1, <1>2, <1>3, <1>4, <1>5, <1>6, <1>7, <1>8, <1>9, <1>10
     DEF PatientNext, ServerStep, ProcessStep, Recovery, NothingEscapes

\* While the server answers requests a QUEUED or RUNNING job has an upload or a task
\* that will move it on, after any number of crashes, wherever they hit, and any
\* number of caught failures.
THEOREM JobOwned == PatientSpec /\ [][NothingEscapes]_vars => []InFlightJobIsOwned
<1>1. ContractInv /\ OwnedInv /\ [PatientNext]_vars /\ [NothingEscapes]_vars => OwnedInv'
  <2> SUFFICES ASSUME ContractInv, OwnedInv, [PatientNext]_vars, [NothingEscapes]_vars,
                      NEW s \in Statements
               PROVE  OwnedPart(s)'
    BY DEF OwnedInv
  <2>1. CASE UNCHANGED vars
    BY <2>1 DEF vars, documents, handlers, boot, OwnedInv, OwnedPart, Alive
  <2> QED
    BY <2>1, OwnedStep DEF OwnedInv
<1>2. OwnedInv => InFlightJobIsOwned
  BY DEF OwnedInv, OwnedPart, InFlightJobIsOwned
<1> QED
  BY <1>1, <1>2, InitOwned, PatientInvariant, PTL DEF PatientSpec

--------------------------------------------------------------------------------
(***************************************************************************)
(* A finished delete leaves nothing behind.                                *)
(*                                                                         *)
(* A client that deletes a statement only once it is COMPLETED or FAILED   *)
(* finds its task past its last upsert, so no row comes back once the      *)
(* delete has removed them; a delete that breaks off and is sent again     *)
(* starts over.  The one thing that is forgiven is a GridFS failure.       *)
(***************************************************************************)

\* The steps after the task has written its last row.
Settled == {"finishing", "failing", "failing_job", "done"}

CascadePart(s) ==
  /\ upload[s] \in {"created", "queued"} => statement[s] = "PENDING"
  /\ upload[s] = "accepted" => task[s] # "idle"
  /\ Deleted(s) => upload[s] = "accepted" /\ task[s] \in Settled
  /\ statement[s] \in {"COMPLETED", "FAILED"} /\ upload[s] = "accepted" => task[s] \in Settled
  /\ deletion[s] \in {"jobs", "pdf", "statement", "done"} => RowsOf(s) = {}
  /\ deletion[s] \in {"pdf", "statement", "done"} => job[s] \in Gone
  /\ deletion[s] \in {"statement", "done"} => s \notin pdfs
  /\ deletion[s] = "done" => statement[s] = "deleted"

CascadeInv == \A s \in Statements : CascadePart(s)

LEMMA TidyNextIsNext == TidyNext => PatientNext
BY DEF TidyNext, TidyDelete, PatientNext

LEMMA InitCascade == Init => CascadeInv
BY DEF Init, CascadeInv, CascadePart, Deleted

\* Rows come to s only from its own task, while it writes them.
LEMMA NoRowsCome ==
  ASSUME TypeOK, NEW s \in Statements, [Next]_vars, RowsOf(s) = {},
         task[s] # "persisting_transactions"
  PROVE  RowsOf(s)' = {}
<1>1. CASE row' = row
  BY <1>1 DEF RowsOf
<1>2. ASSUME NEW t \in Statements, NEW q \in Refs, TaskUpsert(t, q)
      PROVE  RowsOf(s)' = {}
  <2>1. t # s /\ row' = [row EXCEPT ![q] = t]
    BY <1>2 DEF TaskUpsert
  <2> QED
    BY <2>1 DEF RowsOf, TypeOK
<1>3. ASSUME NEW t \in Statements, DeleteTransactions(t)
      PROVE  RowsOf(s)' = {}
  BY <1>3, NoStatementAssumption DEF DeleteTransactions, RowsOf
<1> QED
  BY <1>1, <1>2, <1>3, RowsChange

LEMMA CascadeStep ==
  ASSUME ContractInv, NEW s \in Statements, CascadePart(s), [TidyNext]_vars,
         \A t \in Statements : ~DeletePdfFails(t)
  PROVE  CascadePart(s)'
<1>0. TypeOK /\ HandlersPart(s) /\ JobPart(s) /\ [Next]_vars
  BY TidyNextIsNext, PatientNextIsNext DEF ContractInv, HandlersInv, JobInv
<1>1. deletion[s] \in {"jobs", "pdf", "statement", "done"} => RowsOf(s)' = {}
  BY <1>0, NoRowsCome DEF CascadePart, Deleted, Settled
<1> USE <1>0, <1>1 DEF TypeOK, HandlersPart, CascadePart, Settled, Deleted, Alive, UploadSteps,
        Gone, InFlight, TryBlock, Handler, DeleteSteps, documents, handlers, boot, budget
<1>2. CASE \E t \in Statements : Upload(t) \/ TidyDelete(t)
  BY <1>2 DEF Upload, UploadReject, UploadStorePdf, TidyDelete, PatientDelete, DeleteBegin
<1>3. CASE \E t \in Statements : UploadStep(t)
  BY <1>3 DEF UploadStep, UploadCreateStatement, UploadCreateJob, UploadAccept
<1>4. CASE \E t \in Statements : TaskStep(t)
  BY <1>4 DEF TaskStep, TaskFetch, TaskMarkProcessing, TaskMarkRunning, Advance,
     TaskCategorize, TaskPersist, TaskUpsert, TaskProfile, TaskEmbed, TaskCompute,
     TaskTotal, TaskBreakDown, TaskInsights, TaskCompleteStatement, TaskCompleteJob,
     TaskFailStatement, TaskFailJob, UpdateOne
<1>5. ASSUME NEW t \in Statements, DeleteTransactions(t) PROVE CascadePart(s)'
  <2>1. t = s => RowsOf(s)' = {}
    BY <1>5, NoStatementAssumption DEF DeleteTransactions, RowsOf
  <2> QED
    BY <1>5, <2>1 DEF DeleteTransactions
<1>6. CASE \E t \in Statements : DeleteJobs(t) \/ DeletePdf(t) \/ DeleteStatement(t)
  BY <1>6 DEF DeleteJobs, DeletePdf, DeleteStatement, Remove
<1>7. CASE \E t \in Statements : FaultStep(t)
  BY <1>7 DEF FaultStep, UploadRaise, TaskRaise, TaskEscape, DeleteRaise
<1>8. CASE Crash
  BY <1>8 DEF Crash
<1>9. CASE Restart \/ RecoverFind \/ RecoverJobsFailed \/ RecoverDone \/ RecoverRaise
  BY <1>9 DEF Restart, RecoverFind, RecoverJobsFailed, RecoverDone, RecoverRaise
<1>10. CASE \E t \in Statements : RecoverFailJob(t) \/ RecoverFailStatement(t)
  BY <1>10 DEF RecoverFailJob, Interrupted, RecoverFailStatement, UpdateOne
<1>11. CASE UNCHANGED vars
  BY <1>11 DEF vars, RowsOf
<1> QED
  BY <1>2, <1>3, <1>4, <1>5, <1>6, <1>7, <1>8, <1>9, <1>10, <1>11
     DEF TidyNext, ServerStep, DeleteStep, ProcessStep, Recovery

\* Where clients delete only what is COMPLETED or FAILED, a delete that answered
\* 204 has left no statement, no job, no PDF and no transaction behind, and none
\* comes back: after any crashes, retries and failures other than the GridFS
\* failure that delete_pdf swallows.
THEOREM CascadeKept ==
  TidySpec /\ [][\A s \in Statements : ~DeletePdfFails(s)]_vars => []CascadeComplete
<1>1. TidySpec => []ContractInv
  <2>1. [TidyNext]_vars => [PatientNext]_vars
    BY TidyNextIsNext
  <2> QED
    BY <2>1, PatientInvariant, PTL DEF TidySpec, PatientSpec
<1>2. ContractInv /\ CascadeInv /\ [TidyNext]_vars
        /\ [\A s \in Statements : ~DeletePdfFails(s)]_vars => CascadeInv'
  <2> SUFFICES ASSUME ContractInv, CascadeInv, [TidyNext]_vars,
                      [\A s \in Statements : ~DeletePdfFails(s)]_vars, NEW s \in Statements
               PROVE  CascadePart(s)'
    BY DEF CascadeInv
  <2>1. CASE UNCHANGED vars
    BY <2>1 DEF vars, documents, handlers, boot, CascadeInv, CascadePart, Deleted, RowsOf
  <2> QED
    BY <2>1, CascadeStep DEF CascadeInv
<1>3. CascadeInv => CascadeComplete
  BY DEF CascadeInv, CascadePart, CascadeComplete
<1> QED
  BY <1>1, <1>2, <1>3, InitCascade, PTL DEF TidySpec

================================================================================
