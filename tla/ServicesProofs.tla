----------------------------- MODULE ServicesProofs -----------------------------
(***************************************************************************)
(* Proofs about Services: each part behaves as it does on its own, so what *)
(* the other proof modules show of a part holds of the composition; and    *)
(* about Knowledge, which only has a behaviour inside it.                  *)
(***************************************************************************)
EXTENDS Services, MerchantMemoryProofs, AppReleasesProofs, CorrectionsProofs, FrontProofs

(***************************************************************************)
(* The parts do not disturb each other.                                    *)
(***************************************************************************)

\* Every step of the services is a step of the merchant memory or leaves it alone.
LEMMA MemoryPart == [Next]_vars => [MemoryNext]_memoryVars
BY DEF Next, vars, InMemory, InKnowledge, Alone, MemoryNext

LEMMA ReleasesPart == [Next]_vars => [ReleasesNext]_releaseVars
BY DEF Next, vars, InMemory, InKnowledge, Alone

LEMMA CorrectionsPart == [Next]_vars => [CorrectionsNext]_correctionVars
BY DEF Next, vars, InMemory, InKnowledge, Alone

LEMMA CachePart == [Next]_vars => [CacheNext]_cacheVars
BY DEF Next, vars, InMemory, InKnowledge, Alone

LEMMA ReadingPart == [Next]_vars => [ReadingNext]_readingVars
BY DEF Next, vars, InMemory, InKnowledge, Alone, explaining

LEMMA ExplanationsPart == [Next]_vars => [ExplanationsNext]_explanationVars
BY DEF Next, vars, InMemory, InKnowledge, Alone, explaining

LEMMA GatePart == [Next]_vars => [GateNext]_gateVars
BY DEF Next, vars, InMemory, InKnowledge, Alone, explaining

\* The services together implement the specification of each part: whatever the
\* others do at the same time, a part only takes steps it would take on its own.
THEOREM PartsImplemented ==
  Spec => /\ MemorySpec /\ ReleasesSpec /\ CorrectionsSpec /\ CacheSpec
          /\ ReadingSpec /\ ExplanationsSpec /\ GateSpec
<1>1. Init => /\ MemoryInit /\ ReleasesInit /\ CorrectionsInit /\ CacheInit
              /\ ReadingInit /\ ExplanationsInit /\ GateInit
  BY DEF Init
<1> QED
  BY <1>1, MemoryPart, ReleasesPart, CorrectionsPart, CachePart, ReadingPart, ExplanationsPart,
     GatePart, PTL
     DEF Spec, MemorySpec, ReleasesSpec, CorrectionsSpec, CacheSpec, ReadingSpec,
         ExplanationsSpec, GateSpec

\* What the parts guarantee on their own they guarantee together.
THEOREM PartsKept ==
  Spec => /\ [](MemoryHeals /\ OneLatest /\ DownloadsWork)
          /\ [](CorrectionCoversMerchant /\ OwnRowsOnly /\ QueuedIsApplied)
          /\ [](TrainedOnce /\ TrainedOnEnough /\ AnswersTheQuestion)
          /\ [](ExplainsUnlessDown /\ Traceable /\ WholeBodyWithinLimit)
          /\ [](ReconciledIsComplete /\ InsightsForMoney)
          /\ NeverDemoted /\ PublishedIsFinal
BY PartsImplemented, MemoryHealsCorrect, NeverDemotedCorrect, OneLatestCorrect,
   DownloadsWorkCorrect, PublishedIsFinalCorrect, CoversMerchantCorrect, OwnRowsCorrect,
   QueuedIsAppliedCorrect, TrainedOnceCorrect, TrainedOnEnoughCorrect,
   AnswersTheQuestionCorrect, ExplainsCorrect, TraceableCorrect, WholeBodyCorrect,
   ReconciledCorrect, InsightsCorrect, PTL

(***************************************************************************)
(* What the batch pipelines derive.                                        *)
(***************************************************************************)

Works ==
  [op : {"profile", "sync", "build"}, process : Processes, todo : SUBSET Merchants,
   at : Merchants \cup {NoMerchant}, read : [Merchants -> 0 .. MaxData],
   edges : SUBSET (Merchants \X MemoryStates),
   done : SUBSET Merchants, failed : SUBSET Merchants]

\* The kinds of values; only profiling has a merchant in hand.
DerivedForm ==
  /\ data \in [Merchants -> 0 .. MaxData] /\ pattern \in [Merchants -> 0 .. MaxData]
  /\ vector \in [Merchants -> 0 .. MaxData]
  /\ clustered \subseteq Merchants /\ crossed \subseteq Merchants
  /\ graph \in [Processes -> SUBSET (Merchants \X MemoryStates)]
  /\ job \in [Jobs -> Works \cup {NoJob}]
  /\ \A j \in Jobs : job[j] # NoJob => job[j].op = "profile" \/ job[j].at = NoMerchant
  /\ report \in [asked : SUBSET Merchants, done : SUBSET Merchants, failed : SUBSET Merchants]

\* The reconnect loop and the jobs only run in processes that are up.
LinksInv ==
  /\ collection \in BOOLEAN /\ milvus \in BOOLEAN
  /\ client \in [Processes -> {"down", "starting", "none", "unconfirmed", "set"}]
  /\ setup \in {"off", "wait", "confirm", "ensure", "dead"}
  /\ setup # "off" => Up(Server)
  /\ \A p \in Processes : client[p] = "unconfirmed" => p = Server /\ setup = "confirm"
  /\ \A j \in Jobs : job[j] # NoJob => Up(job[j].process)

\* A sync has each pattern of its snapshot in one of three places.
Accounted(r) ==
  /\ {m \in Merchants : r.read[m] > 0} = r.todo \cup r.done \cup r.failed
  /\ r.todo \cap (r.done \cup r.failed) = {}
  /\ r.done \cap r.failed = {}

SyncInv ==
  /\ SyncAccountsForAll
  /\ \A j \in Jobs : Runs(j, "sync") => Accounted(job[j]) /\ job[j].done \subseteq Vectored

\* One state per merchant.
Functional(E) == \A e, f \in E : e[1] = f[1] => e = f

BuildsIn(p, j) == Runs(j, "build") /\ job[j].process = p

\* Where builds did not overlap there is at most one, on a graph that is still empty.
BuildInv ==
  /\ \A j \in Jobs : Runs(j, "build") => Functional(job[j].edges)
  /\ \A p \in Processes : p \notin mixed =>
       /\ Functional(graph[p])
       /\ \A j \in Jobs : BuildsIn(p, j) =>
            graph[p] = {} /\ \A i \in Jobs : BuildsIn(p, i) => i = j

Holds(j) == job[j] # NoJob /\ job[j].at # NoMerchant

\* A pattern is of data there is, and where profilings did not overlap the one in
\* hand has read no less than the pattern.
ProfilingInv ==
  /\ \A m \in Merchants : pattern[m] <= data[m]
  /\ \A j \in Jobs : Holds(j) =>
       /\ job[j].read[job[j].at] <= data[job[j].at]
       /\ job[j].at \notin crossed =>
            /\ pattern[job[j].at] <= job[j].read[job[j].at]
            /\ \A i \in Jobs : Holds(i) /\ job[i].at = job[j].at => i = j

KnowledgeInv == DerivedForm /\ LinksInv /\ SyncInv /\ BuildInv /\ ProfilingInv

LEMMA KnowledgeNumbers == Server \in Processes /\ MaxData \in Nat /\ 0 \in 0 .. MaxData
BY KnowledgeAssumption

LEMMA MerchantsAre == NoMerchant \notin Merchants
BY MemoryAssumption

\* What holds of the job variable after one job goes on.
LEMMA OneJob ==
  ASSUME DerivedForm, NEW j \in Jobs, NEW r \in Works \cup {NoJob}, Continue(j, r)
  PROVE  /\ job' \in [Jobs -> Works \cup {NoJob}] /\ job'[j] = r
         /\ \A i \in Jobs : i # j => job'[i] = job[i]
BY DEF DerivedForm, Continue

LEMMA JobIs ==
  ASSUME NEW op \in {"profile", "sync", "build"}, NEW p \in Processes,
         NEW todo \in SUBSET Merchants
  PROVE  /\ Job(op, p, todo) \in Works
         /\ Job(op, p, todo).op = op /\ Job(op, p, todo).process = p
         /\ Job(op, p, todo).todo = todo /\ Job(op, p, todo).at = NoMerchant
         /\ Job(op, p, todo).edges = {} /\ Job(op, p, todo).done = {}
         /\ Job(op, p, todo).failed = {}
<1>1. [m \in Merchants |-> 0] \in [Merchants -> 0 .. MaxData]
  BY KnowledgeNumbers
<1>2. {} \in SUBSET (Merchants \X MemoryStates) /\ {} \in SUBSET Merchants
      /\ NoMerchant \in Merchants \cup {NoMerchant}
  OBVIOUS
<1> QED
  BY <1>1, <1>2 DEF Job, Works

\* A merchant that was never counted has no state, and no edge.
LEMMA EdgesAre ==
  ASSUME MemoryTypeOK
  PROVE  Edges \in SUBSET (Merchants \X MemoryStates) /\ Functional(Edges)
<1>1. \A m \in Merchants : profile[m].frequency > 0 => profile[m].memory_state \in MemoryStates
  BY DEF MemoryTypeOK
<1>2. Edges \in SUBSET (Merchants \X MemoryStates)
  BY <1>1 DEF Edges
<1>3. \A e, f \in Edges : e[1] = f[1] => e = f
  BY DEF Edges
<1> QED
  BY <1>2, <1>3 DEF Functional

(***************************************************************************)
(* The parts of the invariant that a step does not touch.                  *)
(***************************************************************************)

\* No step's business but that of the links: jobs start in processes that are up.
LEMMA LinksKept ==
  ASSUME LinksInv, UNCHANGED links,
         \A i \in Jobs : job'[i] = job[i] \/ job'[i] = NoJob
                           \/ (job[i] # NoJob /\ job'[i].process = job[i].process)
                           \/ Up(job'[i].process)
  PROVE  LinksInv'
BY DEF LinksInv, links, Up

LEMMA SyncKept ==
  ASSUME SyncInv, UNCHANGED report, vector' = vector,
         \A i \in Jobs : Runs(i, "sync")' =>
           \/ job'[i] = job[i]
           \/ Accounted(job'[i]) /\ job'[i].done = {}
  PROVE  SyncInv'
BY DEF SyncInv, SyncAccountsForAll, Runs, Vectored

LEMMA BuildKept ==
  ASSUME BuildInv, UNCHANGED graphs,
         \A i \in Jobs : Runs(i, "build")' =>
           Runs(i, "build") /\ job'[i].process = job[i].process /\ Functional(job'[i].edges)
  PROVE  BuildInv'
BY DEF BuildInv, BuildsIn, Runs, graphs

LEMMA ProfilingKept ==
  ASSUME DerivedForm, ProfilingInv, UNCHANGED <<pattern, crossed>>,
         DerivedForm', \A m \in Merchants : data[m] <= data'[m],
         \A i \in Jobs : Holds(i)' => job'[i] = job[i]
  PROVE  ProfilingInv'
<1>1. \A m \in Merchants : data[m] \in Nat /\ data'[m] \in Nat /\ pattern[m] \in Nat
  BY KnowledgeNumbers DEF DerivedForm
<1>2. \A i \in Jobs : Holds(i)' => Holds(i) /\ job[i].at \in Merchants /\ job[i] \in Works
  BY DEF Holds, DerivedForm, Works
<1>3. \A i \in Jobs : Holds(i)' => \A m \in Merchants : job[i].read[m] \in Nat
  BY <1>2, KnowledgeNumbers DEF Works
<1>4. \A m \in Merchants : pattern'[m] <= data'[m]
  BY <1>1 DEF ProfilingInv
<1>5. ASSUME NEW i \in Jobs, Holds(i)'
      PROVE  /\ job'[i].read[job'[i].at] <= data'[job'[i].at]
             /\ job'[i].at \notin crossed' =>
                  /\ pattern'[job'[i].at] <= job'[i].read[job'[i].at]
                  /\ \A k \in Jobs : Holds(k)' /\ job'[k].at = job'[i].at => k = i
  BY <1>1, <1>2, <1>3, <1>5 DEF ProfilingInv
<1> QED
  BY <1>4, <1>5 DEF ProfilingInv

(***************************************************************************)
(* Transactions and profiling.                                             *)
(***************************************************************************)

LEMMA StepAddTransactions ==
  ASSUME KnowledgeInv, NEW m \in Merchants, AddTransactions(m)
  PROVE  KnowledgeInv'
<1> USE DEF KnowledgeInv
<1>1. /\ data' = [data EXCEPT ![m] = @ + 1] /\ data[m] < MaxData
      /\ UNCHANGED <<pattern, clustered, vector, report, crossed, links, graphs, job>>
  BY DEF AddTransactions
<1>2. \A n \in Merchants : data[n] \in 0 .. MaxData
  BY DEF DerivedForm
<1>3. data' \in [Merchants -> 0 .. MaxData] /\ \A n \in Merchants : data[n] <= data'[n]
  BY <1>1, <1>2, KnowledgeNumbers DEF DerivedForm
<1>4. DerivedForm'
  BY <1>1, <1>3 DEF DerivedForm, graphs
<1>5. LinksInv'
  BY <1>1, LinksKept
<1>6. SyncInv'
  BY <1>1, SyncKept DEF Runs
<1>7. BuildInv'
  BY <1>1, BuildKept DEF Runs, BuildInv
<1>8. ProfilingInv'
  BY <1>1, <1>3, <1>4, ProfilingKept DEF Holds
<1> QED
  BY <1>4, <1>5, <1>6, <1>7, <1>8

\* A job of process p begins, with nothing in hand.
LEMMA StartIs ==
  ASSUME KnowledgeInv, NEW j \in Jobs, NEW r \in Works, r.at = NoMerchant, Start(j, r)
  PROVE  /\ job' \in [Jobs -> Works \cup {NoJob}] /\ job'[j] = r
         /\ \A i \in Jobs : i # j => job'[i] = job[i]
         /\ Up(r.process) /\ r.process \in Processes
         /\ \A i \in Jobs : job'[i] # NoJob => job'[i].op = "profile" \/ job'[i].at = NoMerchant
         /\ \A i \in Jobs : Holds(i)' => job'[i] = job[i]
         /\ ~Holds(j)'
<1>1. Continue(j, r) /\ job[j] = NoJob /\ Up(r.process)
  BY DEF Start, Continue
<1>2. /\ job' \in [Jobs -> Works \cup {NoJob}] /\ job'[j] = r
      /\ \A i \in Jobs : i # j => job'[i] = job[i]
  BY <1>1, OneJob DEF KnowledgeInv
<1> QED
  BY <1>1, <1>2 DEF KnowledgeInv, DerivedForm, Holds, Works

LEMMA StepStartProfiling ==
  ASSUME KnowledgeInv, NEW j \in Jobs, NEW p \in Processes, NEW todo \in SUBSET Merchants,
         StartProfiling(j, p, todo)
  PROVE  KnowledgeInv'
<1> DEFINE r == Job("profile", p, todo)
<1>1. r \in Works /\ r.op = "profile" /\ r.at = NoMerchant
  BY JobIs
<1>2. Start(j, r) /\ UNCHANGED <<links, derived, graphs>>
  BY DEF StartProfiling
<1> HIDE DEF r
<1>3. /\ job' \in [Jobs -> Works \cup {NoJob}] /\ job'[j] = r
      /\ \A i \in Jobs : i # j => job'[i] = job[i]
      /\ Up(r.process)
      /\ \A i \in Jobs : job'[i] # NoJob => job'[i].op = "profile" \/ job'[i].at = NoMerchant
      /\ \A i \in Jobs : Holds(i)' => job'[i] = job[i]
  BY <1>1, <1>2, StartIs
<1>4. DerivedForm'
  BY <1>2, <1>3 DEF KnowledgeInv, DerivedForm, derived, graphs
<1>5. LinksInv'
  <2>1. \A i \in Jobs : job'[i] = job[i] \/ Up(job'[i].process)
    BY <1>3
  <2> QED
    BY <1>2, <2>1, LinksKept DEF KnowledgeInv
<1>6. SyncInv'
  <2>1. \A i \in Jobs : Runs(i, "sync")' => job'[i] = job[i]
    BY <1>1, <1>3 DEF Runs
  <2> QED
    BY <1>2, <2>1, SyncKept DEF KnowledgeInv, derived
<1>7. BuildInv'
  <2>1. \A i \in Jobs : Runs(i, "build")' => Runs(i, "build") /\ job'[i] = job[i]
    BY <1>1, <1>3 DEF Runs
  <2> QED
    BY <1>2, <2>1, BuildKept DEF KnowledgeInv, BuildInv
<1>8. ProfilingInv'
  <2>1. \A m \in Merchants : data[m] <= data'[m]
    BY <1>2, KnowledgeNumbers DEF derived, KnowledgeInv, DerivedForm
  <2> QED
    BY <1>2, <1>3, <1>4, <2>1, ProfilingKept DEF KnowledgeInv, derived
<1> QED
  BY <1>4, <1>5, <1>6, <1>7, <1>8 DEF KnowledgeInv

LEMMA StepProfileRead ==
  ASSUME KnowledgeInv, NEW j \in Jobs, NEW m \in Merchants, ProfileRead(j, m)
  PROVE  KnowledgeInv'
<1> DEFINE r == [job[j] EXCEPT !.todo = @ \ {m}, !.at = m, !.read[m] = data[m]]
<1>0. DerivedForm /\ data \in [Merchants -> 0 .. MaxData] /\ data[m] \in 0 .. MaxData
  BY DEF KnowledgeInv, DerivedForm
<1>1. job[j] \in Works /\ job[j] # NoJob /\ job[j].op = "profile" /\ job[j].at = NoMerchant
  BY <1>0 DEF ProfileRead, Runs, DerivedForm
<1>2. /\ r \in Works /\ r.op = "profile" /\ r.at = m /\ r.read[m] = data[m]
      /\ r.process = job[j].process
  BY <1>0, <1>1 DEF Works
<1>3. /\ Continue(j, r) /\ crossed' = (IF InHand(m) THEN crossed \cup {m} ELSE crossed \ {m})
      /\ UNCHANGED <<data, pattern, clustered, vector, report, links, graphs>>
  BY DEF ProfileRead
<1> HIDE DEF r
<1>4. /\ job' \in [Jobs -> Works \cup {NoJob}] /\ job'[j] = r
      /\ \A i \in Jobs : i # j => job'[i] = job[i]
  BY <1>0, <1>2, <1>3, OneJob
<1>5. DerivedForm'
  BY <1>0, <1>2, <1>3, <1>4 DEF DerivedForm, graphs
<1>6. LinksInv'
  BY <1>1, <1>2, <1>3, <1>4, LinksKept DEF KnowledgeInv
<1>7. SyncInv'
  <2>1. \A i \in Jobs : Runs(i, "sync")' => job'[i] = job[i]
    BY <1>2, <1>4 DEF Runs
  <2> QED
    BY <1>3, <2>1, SyncKept DEF KnowledgeInv
<1>8. BuildInv'
  <2>1. \A i \in Jobs : Runs(i, "build")' => Runs(i, "build") /\ job'[i] = job[i]
    BY <1>2, <1>4 DEF Runs
  <2> QED
    BY <1>3, <2>1, BuildKept DEF KnowledgeInv, BuildInv
<1>9. ProfilingInv'
  <2>1. /\ \A n \in Merchants : pattern[n] \in Nat /\ data[n] \in Nat /\ pattern[n] <= data[n]
        /\ ~Holds(j)
    BY <1>0, <1>1, KnowledgeNumbers DEF KnowledgeInv, DerivedForm, ProfilingInv, Holds
  <2>2. \A n \in Merchants : pattern'[n] <= data'[n]
    BY <1>3, <2>1
  <2>3. ASSUME NEW i \in Jobs, Holds(i)'
        PROVE  /\ job'[i].read[job'[i].at] <= data'[job'[i].at]
               /\ job'[i].at \notin crossed' =>
                    /\ pattern'[job'[i].at] <= job'[i].read[job'[i].at]
                    /\ \A k \in Jobs : Holds(k)' /\ job'[k].at = job'[i].at => k = i
    <3>1. CASE i = j
      <4>1. r.read[m] <= data'[m] /\ pattern'[m] <= r.read[m]
        BY <1>2, <1>3, <2>1
      <4>2. m \notin crossed' => ~InHand(m)
        BY <1>3
      <4>3. ASSUME m \notin crossed', NEW k \in Jobs, Holds(k)', job'[k].at = m PROVE k = j
        BY <1>4, <4>2, <4>3 DEF InHand, Holds
      <4> QED
        BY <1>2, <1>4, <3>1, <4>1, <4>3
    <3>2. CASE i # j
      <4>1. job'[i] = job[i] /\ Holds(i) /\ job[i].at \in Merchants
        BY <1>0, <1>4, <2>3, <3>2 DEF Holds, DerivedForm, Works
      <4>2. job[i].read[job[i].at] <= data[job[i].at]
        BY <4>1 DEF KnowledgeInv, ProfilingInv
      <4>3. job[i].at = m => m \in crossed'
        BY <1>3, <4>1 DEF InHand, Holds
      <4>4. job[i].at # m /\ job[i].at \notin crossed' => job[i].at \notin crossed
        BY <1>3
      <4>5. ASSUME job[i].at \notin crossed'
            PROVE  /\ pattern[job[i].at] <= job[i].read[job[i].at]
                   /\ \A k \in Jobs : Holds(k) /\ job[k].at = job[i].at => k = i
        BY <4>1, <4>3, <4>4, <4>5 DEF KnowledgeInv, ProfilingInv
      <4>6. ASSUME job[i].at \notin crossed', NEW k \in Jobs, Holds(k)', job'[k].at = job[i].at
            PROVE  k = i
        <5>1. k # j
          BY <1>2, <1>4, <4>3, <4>6
        <5> QED
          BY <1>4, <4>5, <4>6, <5>1 DEF Holds
      <4> QED
        BY <1>3, <4>1, <4>2, <4>5, <4>6
    <3> QED
      BY <3>1, <3>2
  <2> QED
    BY <2>2, <2>3 DEF ProfilingInv
<1> QED
  BY <1>5, <1>6, <1>7, <1>8, <1>9 DEF KnowledgeInv

LEMMA StepProfileWrite ==
  ASSUME KnowledgeInv, NEW j \in Jobs, ProfileWrite(j)
  PROVE  KnowledgeInv'
<1> DEFINE m == job[j].at
<1> DEFINE r == IF job[j].todo = {} THEN NoJob ELSE [job[j] EXCEPT !.at = NoMerchant]
<1>0. DerivedForm
  BY DEF KnowledgeInv
<1>1. /\ job[j] \in Works /\ job[j] # NoJob /\ job[j].op = "profile" /\ m # NoMerchant
      /\ m \in Merchants /\ Holds(j)
  BY <1>0 DEF ProfileWrite, Upsert, NextMerchant, Runs, DerivedForm, Works, Holds
<1>2. /\ r \in Works \cup {NoJob}
      /\ r # NoJob => r.op = "profile" /\ r.at = NoMerchant /\ r.process = job[j].process
  BY <1>1 DEF Works
<1>3. /\ Continue(j, r) /\ pattern' = [pattern EXCEPT ![m] = job[j].read[m]]
      /\ UNCHANGED <<data, clustered, vector, report, crossed, links, graphs>>
  BY DEF ProfileWrite, Upsert, NextMerchant
<1>4. job[j].read[m] \in 0 .. MaxData /\ job[j].read[m] <= data[m]
  BY <1>1 DEF Works, KnowledgeInv, ProfilingInv
<1> HIDE DEF r, m
<1>5. /\ job' \in [Jobs -> Works \cup {NoJob}] /\ job'[j] = r
      /\ \A i \in Jobs : i # j => job'[i] = job[i]
  BY <1>0, <1>2, <1>3, OneJob
<1>6. pattern' \in [Merchants -> 0 .. MaxData] /\ pattern'[m] = job[j].read[m]
      /\ \A n \in Merchants : n # m => pattern'[n] = pattern[n]
  BY <1>0, <1>1, <1>3, <1>4 DEF DerivedForm
<1>7. DerivedForm'
  BY <1>0, <1>2, <1>3, <1>5, <1>6 DEF DerivedForm, graphs
<1>8. LinksInv'
  BY <1>1, <1>2, <1>3, <1>5, LinksKept DEF KnowledgeInv
<1>9. SyncInv'
  <2>1. \A i \in Jobs : Runs(i, "sync")' => job'[i] = job[i]
    BY <1>2, <1>5 DEF Runs
  <2> QED
    BY <1>3, <2>1, SyncKept DEF KnowledgeInv
<1>10. BuildInv'
  <2>1. \A i \in Jobs : Runs(i, "build")' => Runs(i, "build") /\ job'[i] = job[i]
    BY <1>2, <1>5 DEF Runs
  <2> QED
    BY <1>3, <2>1, BuildKept DEF KnowledgeInv, BuildInv
<1>11. ProfilingInv'
  <2>1. \A n \in Merchants : pattern'[n] <= data'[n]
    BY <1>3, <1>4, <1>6 DEF KnowledgeInv, ProfilingInv
  <2>2. ~Holds(j)'
    BY <1>2, <1>5 DEF Holds
  <2>3. ASSUME NEW i \in Jobs, Holds(i)'
        PROVE  /\ job'[i].read[job'[i].at] <= data'[job'[i].at]
               /\ job'[i].at \notin crossed' =>
                    /\ pattern'[job'[i].at] <= job'[i].read[job'[i].at]
                    /\ \A k \in Jobs : Holds(k)' /\ job'[k].at = job'[i].at => k = i
    <3>1. i # j /\ job'[i] = job[i] /\ Holds(i) /\ job[i].at \in Merchants
      BY <1>0, <1>5, <2>2, <2>3 DEF Holds, DerivedForm, Works
    <3>2. job[i].read[job[i].at] <= data[job[i].at]
      BY <3>1 DEF KnowledgeInv, ProfilingInv
    <3>3. ASSUME job[i].at \notin crossed
          PROVE  /\ pattern[job[i].at] <= job[i].read[job[i].at]
                 /\ \A k \in Jobs : Holds(k) /\ job[k].at = job[i].at => k = i
      BY <3>1, <3>3 DEF KnowledgeInv, ProfilingInv
    <3>4. job[i].at \notin crossed => job[i].at # m
      BY <1>1, <3>1, <3>3 DEF m
    <3>5. ASSUME job[i].at \notin crossed, NEW k \in Jobs, Holds(k)', job'[k].at = job[i].at
          PROVE  k = i
      BY <1>5, <2>2, <3>3, <3>5 DEF Holds
    <3> QED
      BY <1>3, <1>6, <3>1, <3>2, <3>3, <3>4, <3>5
  <2> QED
    BY <2>1, <2>3 DEF ProfilingInv
<1> QED
  BY <1>7, <1>8, <1>9, <1>10, <1>11 DEF KnowledgeInv

\* A merchant that is skipped keeps its pattern.
LEMMA StepProfileFails ==
  ASSUME KnowledgeInv, NEW j \in Jobs, ProfileFails(j)
  PROVE  KnowledgeInv'
<1> DEFINE m == job[j].at
<1> DEFINE r == IF job[j].todo = {} THEN NoJob ELSE [job[j] EXCEPT !.at = NoMerchant]
<1>0. DerivedForm
  BY DEF KnowledgeInv
<1>1. /\ job[j] \in Works /\ job[j] # NoJob /\ job[j].op = "profile" /\ m \in Merchants
  BY <1>0 DEF ProfileFails, NextMerchant, Runs, DerivedForm, Works
<1>2. /\ r \in Works \cup {NoJob}
      /\ r # NoJob => r.op = "profile" /\ r.at = NoMerchant /\ r.process = job[j].process
  BY <1>1 DEF Works
<1>3. /\ Continue(j, r) /\ crossed' = crossed \cup {m}
      /\ UNCHANGED <<data, pattern, clustered, vector, report, links, graphs>>
  BY DEF ProfileFails, NextMerchant
<1> HIDE DEF r, m
<1>4. /\ job' \in [Jobs -> Works \cup {NoJob}] /\ job'[j] = r
      /\ \A i \in Jobs : i # j => job'[i] = job[i]
  BY <1>0, <1>2, <1>3, OneJob
<1>5. DerivedForm'
  BY <1>0, <1>1, <1>2, <1>3, <1>4 DEF DerivedForm, graphs
<1>6. LinksInv'
  BY <1>1, <1>2, <1>3, <1>4, LinksKept DEF KnowledgeInv
<1>7. SyncInv'
  <2>1. \A i \in Jobs : Runs(i, "sync")' => job'[i] = job[i]
    BY <1>2, <1>4 DEF Runs
  <2> QED
    BY <1>3, <2>1, SyncKept DEF KnowledgeInv
<1>8. BuildInv'
  <2>1. \A i \in Jobs : Runs(i, "build")' => Runs(i, "build") /\ job'[i] = job[i]
    BY <1>2, <1>4 DEF Runs
  <2> QED
    BY <1>3, <2>1, BuildKept DEF KnowledgeInv, BuildInv
<1>9. ProfilingInv'
  <2>1. \A n \in Merchants : pattern'[n] <= data'[n]
    BY <1>3 DEF KnowledgeInv, ProfilingInv
  <2>2. \A i \in Jobs : Holds(i)' => Holds(i) /\ job'[i] = job[i]
    BY <1>2, <1>4 DEF Holds
  <2>3. ASSUME NEW i \in Jobs, Holds(i)'
        PROVE  /\ job'[i].read[job'[i].at] <= data'[job'[i].at]
               /\ job'[i].at \notin crossed' =>
                    /\ pattern'[job'[i].at] <= job'[i].read[job'[i].at]
                    /\ \A k \in Jobs : Holds(k)' /\ job'[k].at = job'[i].at => k = i
    BY <1>3, <2>2, <2>3 DEF KnowledgeInv, ProfilingInv
  <2> QED
    BY <2>1, <2>3 DEF ProfilingInv
<1> QED
  BY <1>5, <1>6, <1>7, <1>8, <1>9 DEF KnowledgeInv

(***************************************************************************)
(* Embedding sync and clustering.                                          *)
(***************************************************************************)

LEMMA StepStartSync ==
  ASSUME KnowledgeInv, NEW j \in Jobs, NEW p \in Processes, StartSync(j, p)
  PROVE  KnowledgeInv'
<1> DEFINE b == Job("sync", p, Patterned)
<1> DEFINE r == [b EXCEPT !.read = pattern]
<1>0. DerivedForm /\ pattern \in [Merchants -> 0 .. MaxData] /\ Patterned \in SUBSET Merchants
  BY DEF KnowledgeInv, DerivedForm, Patterned
<1>1. /\ b \in Works /\ b.op = "sync" /\ b.at = NoMerchant /\ b.todo = Patterned
      /\ b.done = {} /\ b.failed = {}
  BY <1>0, JobIs
<1>2. /\ r \in Works /\ r.op = "sync" /\ r.at = NoMerchant /\ r.todo = Patterned
      /\ r.done = {} /\ r.failed = {} /\ r.read = pattern
  BY <1>0, <1>1 DEF Works
<1>3. Start(j, r) /\ UNCHANGED <<links, derived, graphs>>
  BY DEF StartSync
<1>4. Accounted(r)
  BY <1>2 DEF Accounted, Patterned
<1> HIDE DEF b, r
<1>5. /\ job' \in [Jobs -> Works \cup {NoJob}] /\ job'[j] = r
      /\ \A i \in Jobs : i # j => job'[i] = job[i]
      /\ Up(r.process)
      /\ \A i \in Jobs : job'[i] # NoJob => job'[i].op = "profile" \/ job'[i].at = NoMerchant
      /\ \A i \in Jobs : Holds(i)' => job'[i] = job[i]
  BY <1>2, <1>3, StartIs
<1>6. DerivedForm'
  BY <1>0, <1>3, <1>5 DEF DerivedForm, derived, graphs
<1>7. LinksInv'
  <2>1. \A i \in Jobs : job'[i] = job[i] \/ Up(job'[i].process)
    BY <1>5
  <2> QED
    BY <1>3, <2>1, LinksKept DEF KnowledgeInv
<1>8. SyncInv'
  <2>1. \A i \in Jobs : Runs(i, "sync")' =>
           job'[i] = job[i] \/ (Accounted(job'[i]) /\ job'[i].done = {})
    BY <1>2, <1>4, <1>5
  <2> QED
    BY <1>3, <2>1, SyncKept DEF KnowledgeInv, derived
<1>9. BuildInv'
  <2>1. \A i \in Jobs : Runs(i, "build")' => Runs(i, "build") /\ job'[i] = job[i]
    BY <1>2, <1>5 DEF Runs
  <2> QED
    BY <1>3, <2>1, BuildKept DEF KnowledgeInv, BuildInv
<1>10. ProfilingInv'
  <2>1. \A m \in Merchants : data[m] <= data'[m]
    BY <1>3, KnowledgeNumbers DEF derived, KnowledgeInv, DerivedForm
  <2> QED
    BY <1>3, <1>5, <1>6, <2>1, ProfilingKept DEF KnowledgeInv, derived
<1> QED
  BY <1>6, <1>7, <1>8, <1>9, <1>10 DEF KnowledgeInv

\* A sync goes on, or ends and answers; vector may have grown.
LEMMA StepSyncNext ==
  ASSUME KnowledgeInv, NEW j \in Jobs, Runs(j, "sync"), NEW r \in Works,
         r.op = "sync", r.at = NoMerchant, r.process = job[j].process,
         Accounted(r), r.done \subseteq {m \in Merchants : vector'[m] > 0},
         SyncNext(j, r), vector' \in [Merchants -> 0 .. MaxData],
         \A m \in Merchants : vector[m] > 0 => vector'[m] > 0,
         UNCHANGED <<data, pattern, clustered, crossed, links, graphs>>
  PROVE  KnowledgeInv'
<1>0. DerivedForm /\ SyncInv /\ job[j] # NoJob /\ job[j] \in Works
      /\ job[j].op = "sync" /\ job[j].at = NoMerchant
  BY DEF KnowledgeInv, DerivedForm, Runs
<1> DEFINE q == IF r.todo # {} THEN r ELSE NoJob
<1>1. Continue(j, q) /\ q \in Works \cup {NoJob} /\ (q # NoJob => q = r)
  BY DEF SyncNext
<1>2. /\ report' \in [asked : SUBSET Merchants, done : SUBSET Merchants, failed : SUBSET Merchants]
      /\ \/ report' = report
         \/ /\ report'.asked = {m \in Merchants : r.read[m] > 0} /\ r.todo = {}
            /\ report'.done = r.done /\ report'.failed = r.failed
  BY <1>0 DEF SyncNext, DerivedForm, Works
<1> HIDE DEF q
<1>3. /\ job' \in [Jobs -> Works \cup {NoJob}] /\ job'[j] = q
      /\ \A i \in Jobs : i # j => job'[i] = job[i]
  BY <1>0, <1>1, OneJob
<1>4. DerivedForm'
  BY <1>0, <1>1, <1>2, <1>3 DEF DerivedForm, graphs
<1>5. LinksInv'
  BY <1>0, <1>1, <1>3, LinksKept DEF KnowledgeInv
<1>6. SyncInv'
  <2>1. Vectored \subseteq Vectored' /\ r.done \subseteq Vectored'
    BY DEF Vectored
  <2>2. SyncAccountsForAll'
    BY <1>0, <1>2, <2>1 DEF SyncInv, SyncAccountsForAll, Accounted
  <2>3. \A i \in Jobs : Runs(i, "sync")' => Accounted(job'[i]) /\ job'[i].done \subseteq Vectored'
    BY <1>0, <1>1, <1>3, <2>1 DEF SyncInv, Runs
  <2> QED
    BY <2>2, <2>3 DEF SyncInv
<1>7. BuildInv'
  <2>1. \A i \in Jobs : Runs(i, "build")' => Runs(i, "build") /\ job'[i] = job[i]
    BY <1>1, <1>3 DEF Runs
  <2> QED
    BY <2>1, BuildKept DEF KnowledgeInv, BuildInv
<1>8. ProfilingInv'
  <2>1. \A m \in Merchants : data[m] <= data'[m]
    BY <1>0, KnowledgeNumbers DEF DerivedForm
  <2>2. \A i \in Jobs : Holds(i)' => job'[i] = job[i]
    BY <1>1, <1>3 DEF Holds
  <2> QED
    BY <1>0, <1>4, <2>1, <2>2, ProfilingKept DEF KnowledgeInv
<1> QED
  BY <1>4, <1>5, <1>6, <1>7, <1>8 DEF KnowledgeInv

LEMMA StepInsertVector ==
  ASSUME KnowledgeInv, NEW j \in Jobs, NEW m \in Merchants, InsertVector(j, m)
  PROVE  KnowledgeInv'
<1> DEFINE r == [job[j] EXCEPT !.todo = @ \ {m}, !.done = @ \cup {m}]
<1>0. /\ Runs(j, "sync") /\ job[j] \in Works /\ job[j].at = NoMerchant /\ job[j].op = "sync"
      /\ m \in job[j].todo /\ vector \in [Merchants -> 0 .. MaxData]
      /\ Accounted(job[j]) /\ job[j].done \subseteq Vectored
  BY DEF InsertVector, Runs, KnowledgeInv, DerivedForm, SyncInv
<1>1. /\ r \in Works /\ r.op = "sync" /\ r.at = NoMerchant /\ r.process = job[j].process
      /\ r.todo = job[j].todo \ {m} /\ r.done = job[j].done \cup {m}
      /\ r.failed = job[j].failed /\ r.read = job[j].read
  BY <1>0 DEF Works
<1>2. Accounted(r)
  BY <1>0, <1>1 DEF Accounted
<1>3. job[j].read[m] > 0 /\ job[j].read[m] \in 0 .. MaxData
  BY <1>0 DEF Accounted, Works
<1>4. /\ vector' = [vector EXCEPT ![m] = job[j].read[m]] /\ SyncNext(j, r)
      /\ UNCHANGED <<data, pattern, clustered, crossed, links, graphs>>
  BY DEF InsertVector
<1>5. /\ vector' \in [Merchants -> 0 .. MaxData] /\ vector'[m] > 0
      /\ \A n \in Merchants : vector[n] > 0 => vector'[n] > 0
  BY <1>0, <1>3, <1>4
<1>6. r.done \subseteq {n \in Merchants : vector'[n] > 0}
  BY <1>0, <1>1, <1>5 DEF Vectored
<1> HIDE DEF r
<1> QED
  BY <1>0, <1>1, <1>2, <1>4, <1>5, <1>6, StepSyncNext

LEMMA StepInsertFails ==
  ASSUME KnowledgeInv, NEW j \in Jobs, NEW m \in Merchants, InsertFails(j, m)
  PROVE  KnowledgeInv'
<1> DEFINE r == [job[j] EXCEPT !.todo = @ \ {m}, !.failed = @ \cup {m}]
<1>0. /\ Runs(j, "sync") /\ job[j] \in Works /\ job[j].at = NoMerchant /\ job[j].op = "sync"
      /\ m \in job[j].todo /\ vector \in [Merchants -> 0 .. MaxData]
      /\ Accounted(job[j]) /\ job[j].done \subseteq Vectored
  BY DEF InsertFails, Runs, KnowledgeInv, DerivedForm, SyncInv
<1>1. /\ r \in Works /\ r.op = "sync" /\ r.at = NoMerchant /\ r.process = job[j].process
      /\ r.todo = job[j].todo \ {m} /\ r.failed = job[j].failed \cup {m}
      /\ r.done = job[j].done /\ r.read = job[j].read
  BY <1>0 DEF Works
<1>2. Accounted(r)
  BY <1>0, <1>1 DEF Accounted
<1>3. /\ vector' = vector /\ SyncNext(j, r)
      /\ UNCHANGED <<data, pattern, clustered, crossed, links, graphs>>
  BY DEF InsertFails
<1>4. r.done \subseteq {n \in Merchants : vector'[n] > 0}
  BY <1>0, <1>1, <1>3 DEF Vectored
<1> HIDE DEF r
<1> QED
  BY <1>0, <1>1, <1>2, <1>3, <1>4, StepSyncNext

LEMMA StepRunClustering ==
  ASSUME KnowledgeInv, NEW p \in Processes, RunClustering(p)
  PROVE  KnowledgeInv'
<1>1. /\ UNCHANGED <<data, pattern, vector, report, crossed, links, graphs, job>>
      /\ clustered' \subseteq clustered \cup Vectored
  BY DEF RunClustering
<1>2. DerivedForm'
  BY <1>1 DEF KnowledgeInv, DerivedForm, graphs, Vectored
<1>3. LinksInv'
  BY <1>1, LinksKept DEF KnowledgeInv
<1>4. SyncInv'
  BY <1>1, SyncKept DEF KnowledgeInv, Runs
<1>5. BuildInv'
  BY <1>1, BuildKept DEF KnowledgeInv, Runs, BuildInv
<1>6. ProfilingInv'
  <2>1. \A m \in Merchants : data[m] <= data'[m]
    BY <1>1, KnowledgeNumbers DEF KnowledgeInv, DerivedForm
  <2> QED
    BY <1>1, <1>2, <2>1, ProfilingKept DEF KnowledgeInv, Holds
<1> QED
  BY <1>2, <1>3, <1>4, <1>5, <1>6 DEF KnowledgeInv

(***************************************************************************)
(* The graph.                                                              *)
(***************************************************************************)

\* No profiling or sync changes in a step of a build.
LEMMA BuildStepKeeps ==
  ASSUME KnowledgeInv, NEW j \in Jobs, NEW r \in Works \cup {NoJob},
         r # NoJob => r.op = "build" /\ r.at = NoMerchant,
         job' \in [Jobs -> Works \cup {NoJob}], job'[j] = r,
         \A i \in Jobs : i # j => job'[i] = job[i],
         UNCHANGED derived, graph' \in [Processes -> SUBSET (Merchants \X MemoryStates)]
  PROVE  DerivedForm' /\ SyncInv' /\ ProfilingInv'
<1>1. DerivedForm'
  BY DEF KnowledgeInv, DerivedForm, derived
<1>2. SyncInv'
  <2>1. \A i \in Jobs : Runs(i, "sync")' => job'[i] = job[i]
    BY DEF Runs
  <2> QED
    BY <2>1, SyncKept DEF KnowledgeInv, derived
<1>3. ProfilingInv'
  <2>1. \A m \in Merchants : data[m] <= data'[m]
    BY KnowledgeNumbers DEF derived, KnowledgeInv, DerivedForm
  <2>2. \A i \in Jobs : Holds(i)' => job'[i] = job[i]
    BY DEF Holds
  <2> QED
    BY <1>1, <2>1, <2>2, ProfilingKept DEF KnowledgeInv, derived
<1> QED
  BY <1>1, <1>2, <1>3

LEMMA StepStartBuild ==
  ASSUME KnowledgeInv, NEW j \in Jobs, NEW p \in Processes, StartBuild(j, p)
  PROVE  KnowledgeInv'
<1> DEFINE r == Job("build", p, Merchants)
<1>1. r \in Works /\ r.op = "build" /\ r.at = NoMerchant /\ r.process = p /\ r.edges = {}
  BY JobIs
<1>2. /\ Start(j, r) /\ UNCHANGED <<links, derived>>
      /\ graph' = [graph EXCEPT ![p] = {}]
      /\ mixed' = (IF Building(p) THEN mixed \cup {p} ELSE mixed \ {p})
  BY DEF StartBuild
<1> HIDE DEF r
<1>3. /\ job' \in [Jobs -> Works \cup {NoJob}] /\ job'[j] = r
      /\ \A i \in Jobs : i # j => job'[i] = job[i]
      /\ Up(r.process) /\ job[j] = NoJob
  BY <1>1, <1>2, StartIs DEF Start
<1>4. /\ graph' \in [Processes -> SUBSET (Merchants \X MemoryStates)] /\ graph'[p] = {}
      /\ \A q \in Processes : q # p => graph'[q] = graph[q]
  BY <1>2 DEF KnowledgeInv, DerivedForm
<1>5. DerivedForm' /\ SyncInv' /\ ProfilingInv'
  BY <1>1, <1>2, <1>3, <1>4, BuildStepKeeps
<1>6. LinksInv'
  <2>1. \A i \in Jobs : job'[i] = job[i] \/ Up(job'[i].process)
    BY <1>3
  <2> QED
    BY <1>2, <2>1, LinksKept DEF KnowledgeInv
<1>7. BuildInv'
  <2>1. \A i \in Jobs : Runs(i, "build")' => Functional(job'[i].edges)
    BY <1>1, <1>3 DEF KnowledgeInv, BuildInv, Runs, Functional
  <2>2. ASSUME NEW q \in Processes, q \notin mixed'
        PROVE  /\ Functional(graph'[q])
               /\ \A k \in Jobs : BuildsIn(q, k)' =>
                    graph'[q] = {} /\ \A i \in Jobs : BuildsIn(q, i)' => i = k
    <3>1. CASE q = p
      <4>1. ~Building(p)
        BY <1>2, <2>2, <3>1
      <4>2. \A i \in Jobs : BuildsIn(p, i)' => i = j
        BY <1>3, <4>1 DEF BuildsIn, Building, Runs
      <4> QED
        BY <1>4, <3>1, <4>2 DEF Functional
    <3>2. CASE q # p
      <4>1. q \notin mixed
        BY <1>2, <2>2, <3>2
      <4>2. \A i \in Jobs : BuildsIn(q, i)' => BuildsIn(q, i)
        BY <1>1, <1>3, <3>2 DEF BuildsIn, Runs
      <4> QED
        BY <1>4, <3>2, <4>1, <4>2 DEF KnowledgeInv, BuildInv
    <3> QED
      BY <3>1, <3>2
  <2> QED
    BY <2>1, <2>2 DEF BuildInv
<1> QED
  BY <1>5, <1>6, <1>7 DEF KnowledgeInv

LEMMA StepBuildRead ==
  ASSUME KnowledgeInv, MemoryTypeOK, NEW j \in Jobs, BuildRead(j)
  PROVE  KnowledgeInv'
<1> DEFINE r == [job[j] EXCEPT !.todo = {}, !.edges = Edges]
<1>0. /\ DerivedForm /\ job[j] # NoJob /\ job[j] \in Works
      /\ job[j].op = "build" /\ job[j].at = NoMerchant
  BY DEF BuildRead, Runs, KnowledgeInv, DerivedForm
<1>1. /\ r \in Works /\ r.op = "build" /\ r.at = NoMerchant /\ r.process = job[j].process
      /\ Functional(r.edges)
  BY <1>0, EdgesAre DEF Works
<1>2. Continue(j, r) /\ UNCHANGED <<links, derived, graphs>>
  BY DEF BuildRead
<1> HIDE DEF r
<1>3. /\ job' \in [Jobs -> Works \cup {NoJob}] /\ job'[j] = r
      /\ \A i \in Jobs : i # j => job'[i] = job[i]
  BY <1>0, <1>1, <1>2, OneJob
<1>4. graph' \in [Processes -> SUBSET (Merchants \X MemoryStates)]
  BY <1>0, <1>2 DEF graphs, DerivedForm
<1>5. DerivedForm' /\ SyncInv' /\ ProfilingInv'
  BY <1>1, <1>2, <1>3, <1>4, BuildStepKeeps
<1>6. LinksInv'
  BY <1>0, <1>1, <1>2, <1>3, LinksKept DEF KnowledgeInv
<1>7. BuildInv'
  <2>1. \A i \in Jobs : Runs(i, "build")' =>
          Runs(i, "build") /\ job'[i].process = job[i].process /\ Functional(job'[i].edges)
    BY <1>0, <1>1, <1>3 DEF KnowledgeInv, BuildInv, Runs
  <2> QED
    BY <1>2, <2>1, BuildKept DEF KnowledgeInv
<1> QED
  BY <1>5, <1>6, <1>7 DEF KnowledgeInv

LEMMA StepBuildAdd ==
  ASSUME KnowledgeInv, NEW j \in Jobs, BuildAdd(j)
  PROVE  KnowledgeInv'
<1> DEFINE p == job[j].process
<1>0. /\ DerivedForm /\ BuildsIn(p, j) /\ job[j] \in Works /\ p \in Processes
      /\ job[j].edges \in SUBSET (Merchants \X MemoryStates) /\ Functional(job[j].edges)
  BY DEF BuildAdd, Runs, KnowledgeInv, DerivedForm, BuildInv, BuildsIn, Works
<1>1. /\ Continue(j, NoJob) /\ UNCHANGED <<links, derived, mixed>>
      /\ graph' = [graph EXCEPT ![p] = @ \cup job[j].edges]
  BY DEF BuildAdd
<1> HIDE DEF p
<1>2. /\ job' \in [Jobs -> Works \cup {NoJob}] /\ job'[j] = NoJob
      /\ \A i \in Jobs : i # j => job'[i] = job[i]
  BY <1>0, <1>1, OneJob
<1>3. /\ graph' \in [Processes -> SUBSET (Merchants \X MemoryStates)]
      /\ graph'[p] = graph[p] \cup job[j].edges
      /\ \A q \in Processes : q # p => graph'[q] = graph[q]
  BY <1>0, <1>1 DEF DerivedForm
<1>4. DerivedForm' /\ SyncInv' /\ ProfilingInv'
  BY <1>1, <1>2, <1>3, BuildStepKeeps
<1>5. LinksInv'
  BY <1>1, <1>2, LinksKept DEF KnowledgeInv
<1>6. BuildInv'
  <2>1. \A i \in Jobs : Runs(i, "build")' => Runs(i, "build") /\ job'[i] = job[i]
    BY <1>2 DEF Runs
  <2>2. \A i \in Jobs : Runs(i, "build")' => Functional(job'[i].edges)
    BY <2>1 DEF KnowledgeInv, BuildInv
  <2>3. \A q \in Processes, i \in Jobs : BuildsIn(q, i)' => BuildsIn(q, i) /\ i # j
    BY <1>2, <2>1 DEF BuildsIn, Runs
  <2>4. ASSUME NEW q \in Processes, q \notin mixed
        PROVE  /\ Functional(graph'[q])
               /\ \A k \in Jobs : BuildsIn(q, k)' =>
                    graph'[q] = {} /\ \A i \in Jobs : BuildsIn(q, i)' => i = k
    <3>1. CASE q = p
      <4>1. graph[p] = {} /\ \A i \in Jobs : BuildsIn(p, i) => i = j
        BY <1>0, <2>4, <3>1 DEF KnowledgeInv, BuildInv
      <4>2. graph'[p] = job[j].edges
        BY <1>3, <4>1
      <4> QED
        BY <1>0, <2>3, <3>1, <4>1, <4>2
    <3>2. CASE q # p
      BY <1>3, <2>3, <2>4, <3>2 DEF KnowledgeInv, BuildInv
    <3> QED
      BY <3>1, <3>2
  <2> QED
    BY <1>1, <2>2, <2>4 DEF BuildInv
<1> QED
  BY <1>4, <1>5, <1>6 DEF KnowledgeInv

(***************************************************************************)
(* Milvus and the processes.                                               *)
(***************************************************************************)

\* A step of the links that stops no process leaves what was derived.
LEMMA OnlyLinks ==
  ASSUME KnowledgeInv, UNCHANGED <<derived, graphs, job>>
  PROVE  DerivedForm' /\ SyncInv' /\ BuildInv' /\ ProfilingInv'
<1>1. DerivedForm'
  BY DEF KnowledgeInv, DerivedForm, derived, graphs
<1>2. SyncInv'
  BY SyncKept DEF KnowledgeInv, derived, Runs
<1>3. BuildInv'
  BY BuildKept DEF KnowledgeInv, BuildInv, Runs
<1>4. ProfilingInv'
  <2>1. \A m \in Merchants : data[m] <= data'[m]
    BY KnowledgeNumbers DEF derived, KnowledgeInv, DerivedForm
  <2> QED
    BY <1>1, <2>1, ProfilingKept DEF KnowledgeInv, derived, Holds
<1> QED
  BY <1>1, <1>2, <1>3, <1>4

LEMMA StepMilvus ==
  ASSUME KnowledgeInv, MilvusStops \/ MilvusStarts \/ EnsureCollections
  PROVE  KnowledgeInv'
<1>1. UNCHANGED <<client, derived, graphs, job>>
  BY DEF MilvusStops, MilvusStarts, EnsureCollections
<1>2. /\ milvus' \in BOOLEAN /\ collection' \in BOOLEAN
      /\ \/ setup' = setup
         \/ setup = "ensure" /\ setup' \in {"off", "dead"}
  BY DEF MilvusStops, MilvusStarts, EnsureCollections, KnowledgeInv, LinksInv
<1>3. LinksInv'
  BY <1>1, <1>2 DEF KnowledgeInv, LinksInv, Up
<1> QED
  BY <1>1, <1>3, OnlyLinks DEF KnowledgeInv

LEMMA StepConnect ==
  ASSUME KnowledgeInv, TryConnect \/ ConfirmConnection
  PROVE  KnowledgeInv'
<1>1. /\ UNCHANGED <<milvus, collection, derived, graphs, job>>
      /\ \/ setup = "wait" /\ setup' = "confirm" /\ client' = [client EXCEPT ![Server] = "unconfirmed"]
         \/ /\ setup = "confirm" /\ setup' \in {"ensure", "wait"}
            /\ \E c \in {"set", "none"} : client' = [client EXCEPT ![Server] = c]
  BY DEF TryConnect, ConfirmConnection
<1>2. /\ client' \in [Processes -> {"down", "starting", "none", "unconfirmed", "set"}]
      /\ client'[Server] \notin {"down", "starting"}
      /\ client'[Server] = "unconfirmed" => setup' = "confirm"
      /\ \A p \in Processes : p # Server => client'[p] = client[p]
      /\ setup' \in {"off", "wait", "confirm", "ensure", "dead"}
  BY <1>1, KnowledgeNumbers DEF KnowledgeInv, LinksInv
<1>3. Up(Server)' /\ \A p \in Processes : Up(p) => Up(p)'
  BY <1>2 DEF Up
<1>4. \A j \in Jobs : job[j] # NoJob => job[j].process \in Processes
  BY DEF KnowledgeInv, DerivedForm, Works
<1>5. LinksInv'
  BY <1>1, <1>2, <1>3, <1>4 DEF KnowledgeInv, LinksInv
<1> QED
  BY <1>1, <1>5, OnlyLinks DEF KnowledgeInv

\* A process that was not up begins to start, or prepares the collection.
LEMMA StepStarting ==
  ASSUME KnowledgeInv, NEW p \in Processes, ~Up(p),
         NEW c \in {"down", "starting", "none", "set"}, client' = [client EXCEPT ![p] = c],
         collection' \in BOOLEAN, UNCHANGED <<milvus, derived, graphs, job>>,
         setup' = setup \/ (p = Server /\ c = "none" /\ setup' = "wait")
  PROVE  KnowledgeInv'
<1>1. /\ client' \in [Processes -> {"down", "starting", "none", "unconfirmed", "set"}]
      /\ client'[p] = c /\ \A q \in Processes : q # p => client'[q] = client[q]
      /\ setup' \in {"off", "wait", "confirm", "ensure", "dead"}
  BY DEF KnowledgeInv, LinksInv
<1>2. \A q \in Processes : Up(q) => Up(q)'
  BY <1>1 DEF Up
<1>3. \A j \in Jobs : job[j] # NoJob => job[j].process \in Processes
  BY DEF KnowledgeInv, DerivedForm, Works
<1>4. p = Server => setup = "off"
  BY DEF KnowledgeInv, LinksInv
<1>5. setup' # "off" => Up(Server)'
  BY <1>1, <1>2, <1>4, KnowledgeNumbers DEF KnowledgeInv, LinksInv, Up
<1>6. \A q \in Processes : client'[q] = "unconfirmed" => q = Server /\ setup' = "confirm"
  BY <1>1, <1>4 DEF KnowledgeInv, LinksInv
<1>7. LinksInv'
  BY <1>1, <1>2, <1>3, <1>5, <1>6 DEF KnowledgeInv, LinksInv
<1> QED
  BY <1>7, OnlyLinks DEF KnowledgeInv

LEMMA StepStartProcess ==
  ASSUME KnowledgeInv, NEW p \in Processes, StartProcess(p) \/ PrepareCollection(p)
  PROVE  KnowledgeInv'
<1>1. UNCHANGED <<milvus, derived, graphs, job>> /\ ~Up(p)
  BY DEF StartProcess, PrepareCollection, Up
<1>2. collection' \in BOOLEAN
  BY DEF StartProcess, PrepareCollection, KnowledgeInv, LinksInv
<1>3. PICK c \in {"down", "starting", "none", "set"} :
        /\ client' = [client EXCEPT ![p] = c]
        /\ setup' = setup \/ (p = Server /\ c = "none" /\ setup' = "wait")
  <2>1. CASE StartProcess(p)
    <3>1. CASE milvus
      BY <2>1, <3>1 DEF StartProcess
    <3>2. CASE ~milvus
      BY <2>1, <3>2 DEF StartProcess
    <3> QED
      BY <3>1, <3>2
  <2>2. CASE PrepareCollection(p)
    BY <2>2 DEF PrepareCollection
  <2> QED
    BY <2>1, <2>2
<1> QED
  BY <1>1, <1>2, <1>3, StepStarting

LEMMA StepStopProcess ==
  ASSUME KnowledgeInv, NEW p \in Processes, StopProcess(p)
  PROVE  KnowledgeInv'
<1> DEFINE gone == {j \in Jobs : job[j] # NoJob /\ job[j].process = p}
<1>1. /\ client' = [client EXCEPT ![p] = "down"]
      /\ setup' = (IF p = Server THEN "off" ELSE setup)
      /\ job' = [j \in Jobs |-> IF j \in gone THEN NoJob ELSE job[j]]
      /\ graph' = [graph EXCEPT ![p] = {}]
      /\ mixed' = mixed \ {p}
      /\ crossed' = (crossed \cup {job[j].at : j \in gone}) \ {NoMerchant}
      /\ UNCHANGED <<milvus, collection, data, pattern, clustered, vector, report>>
  BY DEF StopProcess, Stop
<1>2. DerivedForm
  BY DEF KnowledgeInv
<1>3. /\ job' \in [Jobs -> Works \cup {NoJob}]
      /\ \A j \in Jobs : job'[j] # NoJob => job'[j] = job[j] /\ j \notin gone
  BY <1>1, <1>2 DEF DerivedForm
<1>4. \A j \in gone : job[j] \in Works /\ job[j].at \in Merchants \cup {NoMerchant}
  BY <1>2 DEF DerivedForm, Works
<1>5. crossed' \subseteq Merchants /\ crossed \subseteq crossed'
      /\ \A j \in gone : job[j].at # NoMerchant => job[j].at \in crossed'
  BY <1>1, <1>2, <1>4, MerchantsAre DEF DerivedForm
<1>6. /\ graph' \in [Processes -> SUBSET (Merchants \X MemoryStates)] /\ graph'[p] = {}
      /\ \A q \in Processes : q # p => graph'[q] = graph[q]
  BY <1>1, <1>2 DEF DerivedForm
<1>7. DerivedForm'
  BY <1>1, <1>2, <1>3, <1>5, <1>6 DEF DerivedForm
<1>8. LinksInv'
  <2>1. /\ client' \in [Processes -> {"down", "starting", "none", "unconfirmed", "set"}]
        /\ client'[p] = "down"
        /\ \A q \in Processes : q # p => client'[q] = client[q]
    BY <1>1 DEF KnowledgeInv, LinksInv
  <2>2. \A j \in Jobs : job'[j] # NoJob => Up(job[j].process)'
    <3> SUFFICES ASSUME NEW j \in Jobs, job'[j] # NoJob
                 PROVE  job'[j] = job[j] /\ client'[job[j].process] \notin {"down", "starting"}
      BY DEF Up
    <3>1. job[j] # NoJob /\ job[j].process # p /\ job[j].process \in Processes
      BY <1>2, <1>3 DEF DerivedForm, Works
    <3> QED
      BY <1>3, <2>1, <3>1 DEF KnowledgeInv, LinksInv, Up
  <2>3. setup' # "off" => Up(Server)'
    BY <1>1, <2>1, KnowledgeNumbers DEF KnowledgeInv, LinksInv, Up
  <2>4. \A q \in Processes : client'[q] = "unconfirmed" => q = Server /\ setup' = "confirm"
    BY <1>1, <2>1 DEF KnowledgeInv, LinksInv
  <2> QED
    BY <1>1, <2>1, <2>2, <2>3, <2>4 DEF KnowledgeInv, LinksInv
<1>9. SyncInv'
  <2>1. \A i \in Jobs : Runs(i, "sync")' => job'[i] = job[i]
    BY <1>3 DEF Runs
  <2> QED
    BY <1>1, <2>1, SyncKept DEF KnowledgeInv
<1>10. BuildInv'
  <2>1. \A i \in Jobs : Runs(i, "build")' => Functional(job'[i].edges)
    BY <1>3 DEF KnowledgeInv, BuildInv, Runs
  <2>2. \A q \in Processes, i \in Jobs : BuildsIn(q, i)' => BuildsIn(q, i) /\ q # p
    BY <1>3 DEF BuildsIn, Runs
  <2>3. Functional({})
    BY DEF Functional
  <2>4. ASSUME NEW q \in Processes, q \notin mixed'
        PROVE  /\ Functional(graph'[q])
               /\ \A k \in Jobs : BuildsIn(q, k)' =>
                    graph'[q] = {} /\ \A i \in Jobs : BuildsIn(q, i)' => i = k
    BY <1>1, <1>6, <2>2, <2>3, <2>4 DEF KnowledgeInv, BuildInv
  <2> QED
    BY <2>1, <2>4 DEF BuildInv
<1>11. ProfilingInv'
  <2>1. \A n \in Merchants : pattern'[n] <= data'[n]
    BY <1>1 DEF KnowledgeInv, ProfilingInv
  <2>2. \A i \in Jobs : Holds(i)' => Holds(i) /\ job'[i] = job[i]
    BY <1>3 DEF Holds
  <2>3. ASSUME NEW i \in Jobs, Holds(i)'
        PROVE  /\ job'[i].read[job'[i].at] <= data'[job'[i].at]
               /\ job'[i].at \notin crossed' =>
                    /\ pattern'[job'[i].at] <= job'[i].read[job'[i].at]
                    /\ \A k \in Jobs : Holds(k)' /\ job'[k].at = job'[i].at => k = i
    <3>1. Holds(i) /\ job'[i] = job[i]
      BY <2>2, <2>3
    <3>2. job[i].at \notin crossed' => job[i].at \notin crossed
      BY <1>5
    <3> QED
      BY <1>1, <2>2, <3>1, <3>2 DEF KnowledgeInv, ProfilingInv
  <2> QED
    BY <2>1, <2>3 DEF ProfilingInv
<1> QED
  BY <1>7, <1>8, <1>9, <1>10, <1>11 DEF KnowledgeInv

(***************************************************************************)
(* What the pipelines guarantee.                                           *)
(***************************************************************************)

LEMMA InitKnowledge == Init => KnowledgeInv
<1> SUFFICES ASSUME Init PROVE KnowledgeInv
  OBVIOUS
<1>1. /\ data = [m \in Merchants |-> 0] /\ pattern = [m \in Merchants |-> 0]
      /\ vector = [m \in Merchants |-> 0]
      /\ clustered = {} /\ crossed = {}
      /\ client \in {[p \in Processes |-> "down"], [p \in Processes |-> "set"]}
      /\ collection = (client[Server] = "set") /\ milvus \in BOOLEAN /\ setup = "off"
      /\ graph = [p \in Processes |-> {}] /\ job = [j \in Jobs |-> NoJob]
      /\ report = [asked |-> {}, done |-> {}, failed |-> {}]
  BY DEF Init, KnowledgeInit
<1>2. DerivedForm
  BY <1>1, KnowledgeNumbers DEF DerivedForm
<1>3. LinksInv
  BY <1>1 DEF LinksInv, Up
<1>4. SyncInv
  BY <1>1 DEF SyncInv, SyncAccountsForAll, Runs
<1>5. BuildInv
  BY <1>1 DEF BuildInv, BuildsIn, Runs, Functional
<1>6. ProfilingInv
  BY <1>1 DEF ProfilingInv, Holds
<1> QED
  BY <1>2, <1>3, <1>4, <1>5, <1>6 DEF KnowledgeInv

LEMMA StepPatterns == KnowledgeInv /\ PatternStep => KnowledgeInv'
<1> SUFFICES ASSUME KnowledgeInv, PatternStep PROVE KnowledgeInv'
  OBVIOUS
<1>1. WithData \in SUBSET Merchants /\ \A m \in WithData : {m} \in SUBSET Merchants
  BY DEF WithData
<1>2. ASSUME NEW m \in Merchants, AddTransactions(m) PROVE KnowledgeInv'
  BY <1>2, StepAddTransactions
<1>3. ASSUME NEW j \in Jobs, NEW p \in Processes,
             (\E m \in WithData : StartProfiling(j, p, {m})) \/ StartProfiling(j, p, WithData)
      PROVE  KnowledgeInv'
  BY <1>1, <1>3, StepStartProfiling
<1>4. ASSUME NEW j \in Jobs, NEW p \in Processes, StartSync(j, p) PROVE KnowledgeInv'
  BY <1>4, StepStartSync
<1>5. ASSUME NEW j \in Jobs, NEW m \in Merchants,
             ProfileRead(j, m) \/ InsertVector(j, m) \/ InsertFails(j, m)
      PROVE  KnowledgeInv'
  BY <1>5, StepProfileRead, StepInsertVector, StepInsertFails
<1>6. ASSUME NEW j \in Jobs, ProfileWrite(j) \/ ProfileFails(j) PROVE KnowledgeInv'
  BY <1>6, StepProfileWrite, StepProfileFails
<1>7. ASSUME NEW p \in Processes, RunClustering(p) PROVE KnowledgeInv'
  BY <1>7, StepRunClustering
<1> QED
  BY <1>2, <1>3, <1>4, <1>5, <1>6, <1>7 DEF PatternStep

LEMMA StepGraph == KnowledgeInv /\ MemoryTypeOK /\ GraphStep => KnowledgeInv'
BY StepStartBuild, StepBuildRead, StepBuildAdd DEF GraphStep

LEMMA StepLinks == KnowledgeInv /\ LinkStep => KnowledgeInv'
BY StepMilvus, StepConnect, StepStartProcess, StepStopProcess DEF LinkStep

\* The part of a step that concerns the pipelines.
LEMMA KnowledgePart ==
  [Next]_vars => PatternStep \/ GraphStep \/ LinkStep \/ UNCHANGED knowledgeVars
BY DEF Next, vars, InMemory, InKnowledge, Alone

LEMMA StepKnowledge == KnowledgeInv /\ MemoryTypeOK /\ [Next]_vars => KnowledgeInv'
<1> SUFFICES ASSUME KnowledgeInv, MemoryTypeOK, [Next]_vars PROVE KnowledgeInv'
  OBVIOUS
<1>1. CASE UNCHANGED knowledgeVars
  <2>1. UNCHANGED <<derived, graphs, job>> /\ UNCHANGED <<milvus, client, setup, collection>>
    BY <1>1 DEF knowledgeVars, derived, graphs
  <2>2. LinksInv'
    BY <2>1 DEF KnowledgeInv, LinksInv, Up
  <2> QED
    BY <2>1, <2>2, OnlyLinks DEF KnowledgeInv
<1> QED
  BY <1>1, KnowledgePart, StepPatterns, StepGraph, StepLinks

\* Patterns, vectors, graphs, jobs and clients fit together, whatever runs in the
\* server and in the worker at the same time and whenever Milvus or one of them stops.
THEOREM KnowledgeKept == Spec => []KnowledgeInv
<1>1. Spec => []MemoryTypeOK
  BY PartsImplemented, MemoryTypeCorrect, PTL
<1> QED
  BY <1>1, InitKnowledge, StepKnowledge, PTL DEF Spec

\* The variables of the pipelines hold values of their kinds, the reconnect loop
\* (connect_milvus in app.py) runs only in a server that is up, and no job in a
\* process that is down.
THEOREM KnowledgeTypeCorrect == Spec => []KnowledgeTypeOK
<1>1. KnowledgeInv => KnowledgeTypeOK
  BY DEF KnowledgeInv, DerivedForm, LinksInv, KnowledgeTypeOK, Up
<1> QED
  BY KnowledgeKept, <1>1, PTL

\* The answer of an embedding sync accounts for each pattern of its snapshot, for
\* any number of patterns, failures and concurrent syncs, and what it calls synced
\* is in Milvus (run_batch_embeddings).
THEOREM SyncAccounts == Spec => []SyncAccountsForAll
<1>1. KnowledgeInv => SyncAccountsForAll
  BY DEF KnowledgeInv, SyncInv
<1> QED
  BY KnowledgeKept, <1>1, PTL

\* Where the builds of a process did not overlap, a merchant of the finished graph
\* has one memory state, for any number of builds and processes (build_graph).
THEOREM GraphHasOneState == Spec => []GraphOneState
<1>1. KnowledgeInv => GraphOneState
  BY DEF KnowledgeInv, BuildInv, Functional, GraphOneState
<1> QED
  BY KnowledgeKept, <1>1, PTL

\* Only the end of a profiling, or the end of its process, puts a merchant down.
LEMMA PutDown ==
  ASSUME KnowledgeInv, PatternStep \/ GraphStep \/ LinkStep \/ UNCHANGED knowledgeVars,
         NEW m \in Merchants, InHand(m), ~InHand(m)'
  PROVE  \/ \E j \in Jobs : /\ ProfileWrite(j) \/ ProfileFails(j)
                            /\ Runs(j, "profile") /\ job[j].at = m
         \/ \E p \in Processes : StopProcess(p)
<1>0. DerivedForm /\ m # NoMerchant
  BY MerchantsAre DEF KnowledgeInv
<1>1. PICK k \in Jobs : job[k] # NoJob /\ job[k].at = m
  BY DEF InHand
<1>2. job[k].op = "profile"
  BY <1>0, <1>1 DEF DerivedForm
<1>3. job' # job
  BY <1>1 DEF InHand
<1>4. ASSUME NEW j \in Jobs, NEW r, job' = [job EXCEPT ![j] = r] PROVE j = k
  BY <1>0, <1>1, <1>4 DEF InHand, DerivedForm
<1>5. ASSUME NEW j \in Jobs, NEW p \in Processes,
             \/ \E todo \in SUBSET Merchants : StartProfiling(j, p, todo)
             \/ StartSync(j, p) \/ StartBuild(j, p)
      PROVE  FALSE
  <2>1. job[j] = NoJob /\ \E r : job' = [job EXCEPT ![j] = r]
    BY <1>5 DEF StartProfiling, StartSync, StartBuild, Start
  <2> QED
    BY <1>1, <1>4, <2>1
<1>6. ASSUME NEW j \in Jobs, NEW n \in Merchants, ProfileRead(j, n) PROVE FALSE
  <2>1. job[j].at = NoMerchant /\ \E r : job' = [job EXCEPT ![j] = r]
    BY <1>6 DEF ProfileRead, Continue
  <2> QED
    BY <1>0, <1>1, <1>4, <2>1
<1>7. ASSUME NEW j \in Jobs, NEW n \in Merchants, InsertVector(j, n) \/ InsertFails(j, n)
      PROVE  FALSE
  <2>1. job[j].op = "sync" /\ \E r : job' = [job EXCEPT ![j] = r]
    BY <1>7 DEF InsertVector, InsertFails, SyncNext, Continue, Runs
  <2> QED
    BY <1>2, <1>4, <2>1
<1>8. ASSUME NEW j \in Jobs, BuildRead(j) \/ BuildAdd(j) PROVE FALSE
  <2>1. job[j].op = "build" /\ \E r : job' = [job EXCEPT ![j] = r]
    BY <1>8 DEF BuildRead, BuildAdd, Continue, Runs
  <2> QED
    BY <1>2, <1>4, <2>1
<1>9. ASSUME NEW j \in Jobs, ProfileWrite(j) \/ ProfileFails(j)
      PROVE  Runs(j, "profile") /\ job[j].at = m
  <2>1. Runs(j, "profile") /\ \E r : job' = [job EXCEPT ![j] = r]
    BY <1>9 DEF ProfileWrite, ProfileFails, Upsert, NextMerchant, Continue
  <2> QED
    BY <1>1, <1>4, <2>1
<1>10. ASSUME \/ \E n \in Merchants : AddTransactions(n)
              \/ \E p \in Processes : RunClustering(p) \/ StartProcess(p) \/ PrepareCollection(p)
              \/ MilvusStops \/ MilvusStarts \/ TryConnect \/ ConfirmConnection
              \/ EnsureCollections \/ UNCHANGED knowledgeVars
       PROVE  FALSE
  <2>1. job' = job
    BY <1>10 DEF AddTransactions, RunClustering, StartProcess, PrepareCollection, MilvusStops,
       MilvusStarts, TryConnect, ConfirmConnection, EnsureCollections, knowledgeVars
  <2> QED
    BY <1>3, <2>1
<1>11. WithData \in SUBSET Merchants /\ \A n \in WithData : {n} \in SUBSET Merchants
  BY DEF WithData
<1>12. CASE PatternStep
  BY <1>5, <1>6, <1>7, <1>9, <1>10, <1>11, <1>12 DEF PatternStep
<1>13. CASE GraphStep
  BY <1>5, <1>8, <1>13 DEF GraphStep
<1>14. CASE LinkStep
  BY <1>10, <1>14 DEF LinkStep
<1> QED
  BY <1>10, <1>12, <1>13, <1>14

\* What a profiling puts down, it has brought up to date.
LEMMA StepPatternKeepsUp ==
  ASSUME KnowledgeInv, [Next]_vars, NEW m \in Merchants, InHand(m), ~InHand(m)', m \notin crossed'
  PROVE  \E j \in Jobs : /\ Runs(j, "profile") /\ job[j].at = m
                         /\ pattern'[m] = job[j].read[m] /\ pattern'[m] >= pattern[m]
<1>0. DerivedForm /\ m # NoMerchant
  BY MerchantsAre DEF KnowledgeInv
<1>1. ASSUME NEW p \in Processes, StopProcess(p) PROVE FALSE
  <2> DEFINE gone == {j \in Jobs : job[j] # NoJob /\ job[j].process = p}
  <2>1. /\ job' = [j \in Jobs |-> IF j \in gone THEN NoJob ELSE job[j]]
        /\ crossed' = (crossed \cup {job[j].at : j \in gone}) \ {NoMerchant}
    BY <1>1 DEF StopProcess, Stop
  <2>2. PICK k \in Jobs : job[k] # NoJob /\ job[k].at = m
    BY DEF InHand
  <2>3. k \in gone
    BY <2>1, <2>2 DEF InHand
  <2> QED
    BY <1>0, <2>1, <2>2, <2>3
<1>2. PICK j \in Jobs : ProfileWrite(j) /\ Runs(j, "profile") /\ job[j].at = m
  <2>1. \A j \in Jobs : ProfileFails(j) /\ job[j].at = m => m \in crossed'
    BY DEF ProfileFails
  <2> QED
    BY <1>1, <2>1, KnowledgePart, PutDown
<1>3. pattern' = [pattern EXCEPT ![m] = job[j].read[m]] /\ crossed' = crossed
  BY <1>2 DEF ProfileWrite, Upsert
<1>4. pattern'[m] = job[j].read[m]
  BY <1>0, <1>3 DEF DerivedForm
<1>5. Holds(j)
  BY <1>0, <1>2 DEF Holds, Runs
<1>6. pattern[m] <= job[j].read[m]
  BY <1>2, <1>3, <1>5 DEF KnowledgeInv, ProfilingInv
<1>7. pattern[m] \in 0 .. MaxData /\ job[j].read[m] \in 0 .. MaxData
  BY <1>0, <1>5 DEF DerivedForm, Works, Holds
<1> QED
  BY <1>2, <1>4, <1>6, <1>7, KnowledgeNumbers

\* A merchant's pattern is that of the data its last profiling read, for any number
\* of profilings in any processes, unless two of the merchant overlapped or the
\* last one broke off (profile_merchant_behavior).
THEOREM PatternsKeepUp == Spec => PatternKeepsUp
<1>1. KnowledgeInv /\ [Next]_vars =>
        [\A m \in Merchants : InHand(m) /\ ~InHand(m)' /\ m \notin crossed'
           => \E j \in Jobs : Runs(j, "profile") /\ job[j].at = m
                                /\ pattern'[m] = job[j].read[m]
                                /\ pattern'[m] >= pattern[m]]_<<job, pattern>>
  BY StepPatternKeepsUp
<1> QED
  BY <1>1, KnowledgeKept, PTL DEF Spec, PatternKeepsUp

(***************************************************************************)
(* All parts at once.                                                      *)
(***************************************************************************)

\* Which parts run never changes, and each keeps the types of its variables whatever
\* the others do; the type invariant of no part needs another part's state.
THEOREM ServicesTypeCorrect == Spec => []ServicesTypeOK
<1>1. Init => scenario \in Scenarios
  BY DEF Init
<1>2. scenario \in Scenarios /\ [Next]_vars => (scenario \in Scenarios)'
  BY DEF Next, vars, InMemory, InKnowledge, Alone
<1>3. Spec => [](scenario \in Scenarios)
  BY <1>1, <1>2, PTL DEF Spec
<1>4. ReleasesSpec => []ReleasesTypeOK
  <2>1. ReleasesInv => ReleasesTypeOK
    BY DEF ReleasesInv
  <2> QED
    BY <2>1, ReleasesCorrect, PTL
<1>5. ExplanationsSpec => []ExplanationsTypeOK
  <2>1. ExplainInv => ExplanationsTypeOK
    BY DEF ExplainInv
  <2> QED
    BY <2>1, InitExplain, StepExplain, PTL DEF ExplanationsSpec
<1>6. scenario \in Scenarios /\ MemoryTypeOK /\ KnowledgeTypeOK /\ ReleasesTypeOK
        /\ CorrectionsTypeOK /\ CacheTypeOK /\ ReadingTypeOK /\ ExplanationsTypeOK /\ GateTypeOK
      => ServicesTypeOK
  BY DEF ServicesTypeOK
<1> QED
  BY <1>3, <1>4, <1>5, <1>6, PartsImplemented, MemoryTypeCorrect, KnowledgeTypeCorrect,
     CorrectionsTypeCorrect, CacheTypeCorrect, ReadingTypeCorrect, GateTypeCorrect, PTL
=================================================================================
