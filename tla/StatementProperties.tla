-------------------------- MODULE StatementProperties --------------------------
(***************************************************************************)
(* What StatementPipeline must guarantee: its type, its safety invariants, *)
(* its action properties, the polling contract it implements, and the      *)
(* progress it owes a polling client.                                      *)
(***************************************************************************)
EXTENDS StatementPipeline

Readable == {s \in Statements : statement[s] = "COMPLETED" /\ analytics[s].present}

Contract == INSTANCE JobContract
  WITH Jobs <- Statements, phase <- job, percent <- progress, results <- Readable

\* No other upload lists any transaction s lists.
Exclusive(s) == \A t \in Statements \ {s} : Content[s] \cap Content[t] = {}

\* A delete of s was started at some time, whether or not it finished.
Deleted(s) == deletion[s] # "none"

--------------------------------------------------------------------------------

\* The documents, the handlers' locals and the bounds have their types.
TypeOK ==
  /\ server \in {"up", "down", "booting", "failing_jobs", "failing_statements"}
  /\ interrupted \subseteq Statements
  /\ statement \in [Statements -> Gone \cup {"PENDING", "PROCESSING", "COMPLETED", "FAILED"}]
  /\ linked \subseteq Statements
  /\ job \in [Statements -> Gone \cup InFlight \cup {"COMPLETED", "FAILED"}]
  /\ progress \in [Statements -> 0 .. 100]
  /\ row \in [Refs -> Statements \cup {NoStatement}]
  /\ analytics \in [Statements -> Report]
  /\ pdfs \subseteq Retained
  /\ upload \in [Statements -> UploadSteps \cup {"new", "rejected", "accepted", "errored", "lost"}]
  /\ task \in [Statements -> TryBlock \cup Handler \cup {"idle", "scheduled", "done"}]
  /\ todo \in [Statements -> SUBSET Refs]
  /\ draft \in [Statements -> Report]
  /\ deletion \in [Statements -> DeleteSteps \cup {"none", "broken", "done"}]
  /\ crashes \in 0 .. MaxCrashes /\ faults \in 0 .. MaxFaults

\* Every transaction a COMPLETED statement lists is stored, under that
\* statement or under an overlapping one, unless a delete of a statement that
\* lists it was started: no crash, failed bulk write or overlapping upload may
\* lose one.  (bulk_upsert before mark_completed, upserts that only rewrite.)
StoredBeforeCompleted ==
  \A s \in Statements : statement[s] = "COMPLETED" =>
    \A r \in Content[s] :
      row[r] # NoStatement \/ \E d \in Statements : r \in Content[d] /\ Deleted(d)

\* A client that saw its job COMPLETED can read the results: the statement is
\* COMPLETED with its analytics embedded, or was deleted since.  Neither the
\* except block nor the startup hook ever fails the statement of a COMPLETED
\* job.
ResultsBeforeDone ==
  \A s \in Statements : job[s] = "COMPLETED" => s \in Readable \/ statement[s] = "deleted"

\* No job outlives its statement: the delete handler removes the jobs first,
\* so a job that can still be polled always has a statement to show.
JobHasStatement ==
  \A s \in Statements : job[s] \notin Gone => statement[s] \notin Gone

\* While the server answers requests, a QUEUED or RUNNING job has a handler or
\* a task that will move it on; none is left over from before a restart.
InFlightJobIsOwned ==
  server = "up" => \A s \in Statements :
    job[s] \in InFlight => upload[s] \in UploadSteps \/ Alive(s)

\* Whatever interrupted its task, an accepted statement that nobody deletes does
\* not show as pending or processing for ever: while the server answers requests,
\* its task is running or both of its documents have moved on.
InFlightStatementIsOwned ==
  server = "up" => \A s \in Statements :
    statement[s] \in {"PENDING", "PROCESSING"} /\ upload[s] = "accepted" /\ ~Deleted(s)
      => Alive(s)

\* A delete that answered 204 leaves nothing behind: no statement, no job, no
\* PDF and no transaction that names the statement.
CascadeComplete ==
  \A s \in Statements : deletion[s] = "done" =>
    statement[s] = "deleted" /\ job[s] \in Gone /\ s \notin pdfs /\ RowsOf(s) = {}

\* The analytics of a COMPLETED statement are about exactly the transactions
\* it lists, in every one of compute's queries.
AnalyticsExact ==
  \A s \in Statements : statement[s] = "COMPLETED" /\ ~Deleted(s) =>
    analytics[s].totals = Content[s] /\ analytics[s].breakdown = Content[s]

\* The same for a statement that overlaps no other upload; its transactions
\* are also still all listed under it.
ExclusiveAnalyticsExact ==
  \A s \in Statements : statement[s] = "COMPLETED" /\ ~Deleted(s) /\ Exclusive(s) =>
    /\ analytics[s].totals = Content[s] /\ analytics[s].breakdown = Content[s]
    /\ RowsOf(s) = Content[s]

--------------------------------------------------------------------------------

\* The pipeline implements the polling contract.
ImplementsContract == Contract!Spec

\* As long as no store operation raises, a client that polls a job sees it leave
\* QUEUED and RUNNING, or disappear, whatever crashes.
PollingEnds ==
  \A s \in Statements : job[s] \in InFlight ~> job[s] \notin InFlight \/ faults > 0

================================================================================
