------------------------------ MODULE JobContract ------------------------------
(***************************************************************************)
(* What a client that polls GET /jobs/{id} may rely on, whatever the       *)
(* server does behind it: a job goes from QUEUED through RUNNING to        *)
(* COMPLETED or FAILED and then stays there until it is deleted, its       *)
(* percentage only grows, and a COMPLETED job has results to read.         *)
(***************************************************************************)
EXTENDS Naturals

CONSTANT Jobs

VARIABLES
  phase,    \* what GET /jobs/{id} answers: the status, or a 404
  percent,  \* progress_percent
  results   \* the jobs whose analytics and insights can be read

contract == <<phase, percent, results>>

Init ==
  /\ phase = [j \in Jobs |-> "none"]
  /\ percent = [j \in Jobs |-> 0]
  /\ results = {}

Submit(j) ==
  /\ phase[j] = "none"
  /\ phase' = [phase EXCEPT ![j] = "QUEUED"]
  /\ UNCHANGED <<percent, results>>

Start(j) ==
  /\ phase[j] = "QUEUED"
  /\ phase' = [phase EXCEPT ![j] = "RUNNING"]
  /\ UNCHANGED <<percent, results>>

Progress(j) ==
  /\ phase[j] = "RUNNING"
  /\ \E p \in 1 .. 99 : percent[j] < p /\ percent' = [percent EXCEPT ![j] = p]
  /\ UNCHANGED <<phase, results>>

\* The results may still appear after somebody deleted the job.
Publish(j) ==
  /\ phase[j] \in {"RUNNING", "deleted"}
  /\ results' = results \cup {j}
  /\ UNCHANGED <<phase, percent>>

Complete(j) ==
  /\ phase[j] = "RUNNING" /\ j \in results
  /\ phase' = [phase EXCEPT ![j] = "COMPLETED"]
  /\ percent' = [percent EXCEPT ![j] = 100]
  /\ UNCHANGED results

Fail(j) ==
  /\ phase[j] \in {"QUEUED", "RUNNING"}
  /\ phase' = [phase EXCEPT ![j] = "FAILED"]
  /\ UNCHANGED <<percent, results>>

\* Results may be withdrawn, but never under a job that says COMPLETED.
Withdraw(j) ==
  /\ phase[j] # "COMPLETED"
  /\ results' = results \ {j}
  /\ UNCHANGED <<phase, percent>>

Delete(j) ==
  /\ phase[j] \notin {"none", "deleted"}
  /\ phase' = [phase EXCEPT ![j] = "deleted"]
  /\ UNCHANGED <<percent, results>>

Next == \E j \in Jobs :
  \/ Submit(j) \/ Start(j) \/ Progress(j) \/ Publish(j)
  \/ Complete(j) \/ Fail(j) \/ Withdraw(j) \/ Delete(j)

Spec == Init /\ [][Next]_contract
================================================================================
