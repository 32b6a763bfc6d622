------------------------------ MODULE Knowledge -------------------------------
(***************************************************************************)
(* What the batch pipelines derive from transactions and profiles: the     *)
(* behaviour patterns, their vectors in Milvus, the clusters found among   *)
(* those, and the knowledge graph that each process holds in memory.       *)
(*                                                                         *)
(* The server (/v1/pipelines/...) and the Celery worker (its beat schedule) *)
(* run the same code in processes of their own.  A job is in one process   *)
(* and gives way at every await; Milvus calls are synchronous.             *)
(***************************************************************************)
EXTENDS MerchantMemory, FiniteSets

CONSTANTS
  Processes, Server,  \* the server alone reconnects to Milvus
  Jobs,               \* bound on batch jobs in progress
  MaxData,            \* bound on the additions to one merchant's transactions
  MinVectors,         \* the 10 vectors clustering asks for
  NoJob

ASSUME KnowledgeAssumption ==
  /\ Server \in Processes
  /\ MaxData \in Nat /\ MinVectors \in Nat

VARIABLES
  data,      \* how many times transactions of a merchant were added
  pattern,   \* behavior_patterns: the data a merchant's pattern was computed from (0: none)
  clustered, \* the merchants whose pattern names a cluster
  vector,    \* the pattern a merchant's vector in Milvus embeds (0: none)
  collection,\* the Milvus collection exists and is loaded
  milvus,    \* Milvus answers
  client,    \* each process' Milvus client: "none", "unconfirmed" or "set"; "down" with it,
             \* "starting" while the process prepares the collection
  setup,     \* the server's reconnect loop: "off", "wait", "confirm", "ensure" or "dead"
  graph,     \* each process' edges from a merchant to its memory state
  job,       \* what the batch jobs are doing
  report,    \* the last answer of an embedding sync
  jobs,      \* how many may still be started
  outages,   \* how often Milvus or a process may still stop
  crossed,   \* merchants two of whose profilings overlapped, or whose last one broke off
  mixed      \* processes in which two graph builds overlapped

links       == <<milvus, client, setup, collection>>
derived     == <<data, pattern, clustered, vector, report, crossed>>
graphs      == <<graph, mixed>>
counts      == <<jobs, outages>>
knowledgeVars == <<data, pattern, clustered, vector, collection, milvus, client, setup,
                   graph, job, report, jobs, outages, crossed, mixed>>

--------------------------------------------------------------------------------
(* Jobs *)

Job(op, p, todo) == [op |-> op, process |-> p, todo |-> todo, at |-> NoMerchant,
                     read |-> [m \in Merchants |-> 0], edges |-> {}, done |-> {}, failed |-> {}]

Up(p) == client[p] \notin {"down", "starting"}

Start(j, r) ==
  /\ job[j] = NoJob /\ Up(r.process)
  /\ jobs > 0 /\ jobs' = jobs - 1
  /\ job' = [job EXCEPT ![j] = r]

Continue(j, r)  == job' = [job EXCEPT ![j] = r]
Runs(j, op)     == job[j] # NoJob /\ job[j].op = op
InHand(m)       == \E j \in Jobs : job[j] # NoJob /\ job[j].at = m
Building(p)     == \E j \in Jobs : Runs(j, "build") /\ job[j].process = p

Patterned == {m \in Merchants : pattern[m] > 0}
WithData  == {m \in Merchants : data[m] > 0}
Vectored  == {m \in Merchants : vector[m] > 0}

\* A statement or a categorisation brings transactions of a merchant.
AddTransactions(m) ==
  /\ data[m] < MaxData
  /\ data' = [data EXCEPT ![m] = @ + 1]
  /\ UNCHANGED <<pattern, clustered, vector, report, crossed, links, graphs, counts, job>>

--------------------------------------------------------------------------------
(* Behaviour profiling, of one merchant or of all of them *)

StartProfiling(j, p, todo) ==
  /\ todo # {}
  /\ Start(j, Job("profile", p, todo))
  /\ UNCHANGED <<links, derived, graphs, outages>>

ProfileRead(j, m) ==
  /\ Runs(j, "profile") /\ job[j].at = NoMerchant /\ m \in job[j].todo
  /\ Continue(j, [job[j] EXCEPT !.todo = @ \ {m}, !.at = m, !.read[m] = data[m]])
  /\ crossed' = IF InHand(m) THEN crossed \cup {m} ELSE crossed \ {m}
  /\ UNCHANGED <<data, pattern, clustered, vector, report, links, graphs, counts>>

\* The job takes the next merchant, or ends.
NextMerchant(j) ==
  /\ Runs(j, "profile") /\ job[j].at # NoMerchant
  /\ Continue(j, IF job[j].todo = {} THEN NoJob ELSE [job[j] EXCEPT !.at = NoMerchant])

\* The upsert sets the fields of the pattern and leaves discovered_cluster alone.
Upsert(j, version) ==
  /\ NextMerchant(j)
  /\ pattern' = [pattern EXCEPT ![job[j].at] = version]
  /\ UNCHANGED <<data, clustered, vector, report, crossed, links, graphs, counts>>

\* Mutant of ProfileWrite: an existing pattern is kept.
ProfileOnce(j) ==
  LET m == job[j].at IN Upsert(j, IF pattern[m] = 0 THEN job[j].read[m] ELSE pattern[m])

ProfileWrite(j) == Upsert(j, job[j].read[job[j].at])

\* The read or the write raises: this merchant is skipped, the others go on.
ProfileFails(j) ==
  /\ NextMerchant(j)
  /\ crossed' = crossed \cup {job[j].at}
  /\ UNCHANGED <<data, pattern, clustered, vector, report, links, graphs, counts>>

--------------------------------------------------------------------------------
(* Embedding sync and clustering *)

\* A snapshot of all patterns, if this process has a Milvus client.
StartSync(j, p) ==
  /\ client[p] \in {"unconfirmed", "set"} /\ Patterned # {}
  /\ Start(j, [Job("sync", p, Patterned) EXCEPT !.read = pattern])
  /\ UNCHANGED <<links, derived, graphs, outages>>

\* One pattern done or failed: the job takes the next, or answers.
SyncNext(j, r) ==
  IF r.todo # {} THEN Continue(j, r) /\ UNCHANGED report
  ELSE Continue(j, NoJob) /\ report' = [asked |-> {m \in Merchants : r.read[m] > 0},
                                        done |-> r.done, failed |-> r.failed]

\* The pattern is embedded as the snapshot had it.
InsertVector(j, m) ==
  /\ Runs(j, "sync") /\ m \in job[j].todo
  /\ milvus /\ collection /\ client[job[j].process] \in {"unconfirmed", "set"}
  /\ vector' = [vector EXCEPT ![m] = job[j].read[m]]
  /\ SyncNext(j, [job[j] EXCEPT !.todo = @ \ {m}, !.done = @ \cup {m}])
  /\ UNCHANGED <<data, pattern, clustered, crossed, links, graphs, counts>>

\* Mutant of InsertFails, with SyncAbort: the failure ends the whole batch.
SyncAbort(j, r) ==
  Continue(j, NoJob) /\ report' = [asked |-> r.done \cup r.failed \cup r.todo,
                                   done |-> r.done, failed |-> r.failed]

InsertAborts(j, m) ==
  /\ Runs(j, "sync") /\ m \in job[j].todo
  /\ SyncAbort(j, [job[j] EXCEPT !.todo = @ \ {m}])
  /\ UNCHANGED <<data, pattern, clustered, vector, crossed, links, graphs, counts>>

\* The embedding model or Milvus fails for this pattern; the others go on.
InsertFails(j, m) ==
  /\ Runs(j, "sync") /\ m \in job[j].todo
  /\ SyncNext(j, [job[j] EXCEPT !.todo = @ \ {m}, !.failed = @ \cup {m}])
  /\ UNCHANGED <<data, pattern, clustered, vector, crossed, links, graphs, counts>>

\* From the query of the vectors to the bulk write nothing else runs in the
\* process; which merchants are noise is the algorithm's choice.
RunClustering(p) ==
  /\ milvus /\ collection /\ client[p] \in {"unconfirmed", "set"}
  /\ Cardinality(Vectored) >= MinVectors
  /\ \E found \in SUBSET Vectored : clustered' = (clustered \ Vectored) \cup found
  /\ UNCHANGED <<data, pattern, vector, report, crossed, links, graphs, counts, job>>

--------------------------------------------------------------------------------
(* The knowledge graph *)

Edges == {<<m, profile[m].memory_state>> : m \in {n \in Merchants : profile[n].frequency > 0}}

\* Mutant of StartBuild: the graph is not cleared.
StartBuildKeeping(j, p) ==
  /\ Start(j, Job("build", p, Merchants))
  /\ mixed' = IF Building(p) THEN mixed \cup {p} ELSE mixed \ {p}
  /\ UNCHANGED <<links, derived, outages, graph>>

\* The graph is cleared first: until the edges are added readers find it empty.
StartBuild(j, p) ==
  /\ Start(j, Job("build", p, Merchants))
  /\ graph' = [graph EXCEPT ![p] = {}]
  /\ mixed' = IF Building(p) THEN mixed \cup {p} ELSE mixed \ {p}
  /\ UNCHANGED <<links, derived, outages>>

BuildRead(j) ==
  /\ Runs(j, "build") /\ job[j].todo # {}
  /\ Continue(j, [job[j] EXCEPT !.todo = {}, !.edges = Edges])
  /\ UNCHANGED <<links, derived, graphs, counts>>

\* After two more awaited reads, of the patterns and the feedback, all nodes and
\* edges are added at once.
BuildAdd(j) ==
  /\ Runs(j, "build") /\ job[j].todo = {}
  /\ graph' = [graph EXCEPT ![job[j].process] = @ \cup job[j].edges]
  /\ Continue(j, NoJob)
  /\ UNCHANGED <<links, derived, mixed, counts>>

--------------------------------------------------------------------------------
(* Milvus and the processes *)

MilvusStops ==
  /\ milvus /\ outages > 0
  /\ milvus' = FALSE /\ outages' = outages - 1
  /\ UNCHANGED <<client, setup, collection, derived, graphs, jobs, job>>

MilvusStarts ==
  /\ ~milvus /\ milvus' = TRUE
  /\ UNCHANGED <<client, setup, collection, derived, graphs, counts, job>>

\* Both processes connect when they start; only the server begins a reconnect loop
\* if that failed.
StartProcess(p) ==
  /\ client[p] = "down"
  /\ client' = [client EXCEPT ![p] = IF milvus THEN "starting" ELSE "none"]
  /\ setup' = IF p = Server /\ ~milvus THEN "wait" ELSE setup
  /\ UNCHANGED <<milvus, collection, derived, graphs, counts, job>>

\* The collection is prepared next.  Should Milvus be gone again, the exception ends
\* the start of the server, which is restarted; Celery logs it and the worker goes on.
PrepareCollection(p) ==
  /\ client[p] = "starting"
  /\ client' = [client EXCEPT ![p] = IF ~milvus /\ p = Server THEN "down" ELSE "set"]
  /\ collection' = (collection \/ milvus)
  /\ UNCHANGED <<milvus, setup, derived, graphs, counts, job>>

\* Mutant of TryConnect: it is tried once.
TryOnce ==
  /\ setup = "wait"
  /\ client' = [client EXCEPT ![Server] = IF milvus THEN "unconfirmed" ELSE @]
  /\ setup' = IF milvus THEN "confirm" ELSE "off"
  /\ UNCHANGED <<milvus, collection, derived, graphs, counts, job>>

\* Every 15 seconds, on a thread; the new client is in place before it is confirmed.
TryConnect ==
  /\ setup = "wait" /\ milvus
  /\ client' = [client EXCEPT ![Server] = "unconfirmed"]
  /\ setup' = "confirm"
  /\ UNCHANGED <<milvus, collection, derived, graphs, counts, job>>

ConfirmConnection ==
  /\ setup = "confirm"
  /\ client' = [client EXCEPT ![Server] = IF milvus THEN "set" ELSE "none"]
  /\ setup' = IF milvus THEN "ensure" ELSE "wait"
  /\ UNCHANGED <<milvus, collection, derived, graphs, counts, job>>

\* Back on the event loop.  If Milvus is gone again the exception ends the loop,
\* with a client and perhaps without a collection.
EnsureCollections ==
  /\ setup = "ensure"
  /\ collection' = (collection \/ milvus)
  /\ setup' = IF milvus THEN "off" ELSE "dead"
  /\ UNCHANGED <<milvus, client, derived, graphs, counts, job>>

Stop(p, loop) ==
  LET gone == {j \in Jobs : job[j] # NoJob /\ job[j].process = p} IN
  /\ client[p] # "down" /\ outages > 0
  /\ outages' = outages - 1
  /\ client' = [client EXCEPT ![p] = "down"]
  /\ setup' = loop
  /\ job' = [j \in Jobs |-> IF j \in gone THEN NoJob ELSE job[j]]
  /\ graph' = [graph EXCEPT ![p] = {}]
  /\ mixed' = mixed \ {p}
  /\ crossed' = (crossed \cup {job[j].at : j \in gone}) \ {NoMerchant}
  /\ UNCHANGED <<milvus, collection, data, pattern, clustered, vector, report, jobs>>

\* Mutant of StopProcess: the loop outlives the process.
StopWithoutLoop(p) == Stop(p, setup)

\* With a process go its jobs, its client, its graph and the reconnect loop.
StopProcess(p) == Stop(p, IF p = Server THEN "off" ELSE setup)

--------------------------------------------------------------------------------

KnowledgeInit(maxJobs, maxOutages) ==
  /\ data = [m \in Merchants |-> 0]
  /\ pattern = [m \in Merchants |-> 0]
  /\ vector = [m \in Merchants |-> 0]
  /\ clustered = {} /\ crossed = {} /\ mixed = {}
  /\ client \in {[p \in Processes |-> "down"], [p \in Processes |-> "set"]}
  /\ collection = (client[Server] = "set")  \* all running, or about to start
  /\ milvus \in BOOLEAN /\ (collection => milvus)
  /\ setup = "off"
  /\ graph = [p \in Processes |-> {}]
  /\ job = [j \in Jobs |-> NoJob]
  /\ report = [asked |-> {}, done |-> {}, failed |-> {}]
  /\ jobs = maxJobs /\ outages = maxOutages

PatternStep ==
  \/ \E m \in Merchants : AddTransactions(m)
  \/ \E j \in Jobs :
       \/ \E p \in Processes : \/ \E m \in WithData : StartProfiling(j, p, {m})
                               \/ StartProfiling(j, p, WithData)
                               \/ StartSync(j, p)
       \/ \E m \in Merchants : ProfileRead(j, m) \/ InsertVector(j, m) \/ InsertFails(j, m)
       \/ ProfileWrite(j) \/ ProfileFails(j)
  \/ \E p \in Processes : RunClustering(p)

GraphStep ==
  \E j \in Jobs : (\E p \in Processes : StartBuild(j, p)) \/ BuildRead(j) \/ BuildAdd(j)

LinkStep ==
  \/ MilvusStops \/ MilvusStarts \/ TryConnect \/ ConfirmConnection \/ EnsureCollections
  \/ \E p \in Processes : StartProcess(p) \/ PrepareCollection(p) \/ StopProcess(p)

--------------------------------------------------------------------------------
(* Properties *)

\* The variables hold values of their kinds; the reconnect loop runs only in a
\* server that is up, and an unconfirmed client only belongs to it.
KnowledgeTypeOK ==
  /\ {data[m] : m \in Merchants} \cup {pattern[m] : m \in Merchants}
       \cup {vector[m] : m \in Merchants} \subseteq 0 .. MaxData
  /\ clustered \cup crossed \cup report.asked \subseteq Merchants
  /\ <<collection, milvus>> \in BOOLEAN \X BOOLEAN
  /\ client \in [Processes -> {"down", "starting", "none", "unconfirmed", "set"}]
  /\ setup \in {"off", "wait", "confirm", "ensure", "dead"}
  /\ setup # "off" => Up(Server)
  /\ \A p \in Processes : client[p] = "unconfirmed" => p = Server /\ setup = "confirm"
  /\ \A p \in Processes : graph[p] \subseteq Merchants \X MemoryStates
  /\ \A j \in Jobs : job[j] # NoJob => Up(job[j].process)

\* Behaviour patterns keep up with the transactions: a merchant's pattern is
\* that of the data its last profiling read, unless profilings of it overlapped
\* or the last one broke off, and then the next one alone repairs it.
PatternKeepsUp ==
  [][\A m \in Merchants : InHand(m) /\ ~InHand(m)' /\ m \notin crossed'
       => \E j \in Jobs : Runs(j, "profile") /\ job[j].at = m
                            /\ pattern'[m] = job[j].read[m]
                            /\ pattern'[m] >= pattern[m]]_<<job, pattern>>

\* The answer of an embedding sync accounts for every pattern of its snapshot,
\* also when some embeddings fail, and what it calls synced is in Milvus.
SyncAccountsForAll ==
  /\ report.asked = report.done \cup report.failed
  /\ report.done \cap report.failed = {}
  /\ report.done \subseteq Vectored

\* A merchant of a finished graph has the one memory state it was read with,
\* unless builds overlapped in the process; the next build alone repairs that.
GraphOneState ==
  \A p \in Processes : ~Building(p) /\ p \notin mixed =>
    \A e, f \in graph[p] : e[1] = f[1] => e = f
================================================================================
