------------------------------- MODULE Services -------------------------------
(***************************************************************************)
(* The services around the statements, together: the merchant memory and   *)
(* the knowledge derived from it and from transactions, the releases of    *)
(* the app, the corrections, the cached analytics, the reading of a        *)
(* statement, the explanations and the way of a request to its handler.    *)
(*                                                                         *)
(* Only the knowledge graph reads another one's state.  A behaviour        *)
(* exercises one of the Scenarios, a set of parts that run concurrently;   *)
(* the others stay idle, so that their interleavings, which touch disjoint *)
(* collections, are not multiplied with each other.                        *)
(***************************************************************************)
EXTENDS Knowledge, AppReleases, Corrections, AnalyticsCache, StatementReading, Explanations,
        RequestGate

CONSTANT Scenarios  \* which parts are explored together, and how many batch jobs and outages
                    \* of Milvus or a process with them

ASSUME ScenariosAssumption ==
  \A s \in Scenarios :
    /\ s.parts \subseteq {"memory", "decay", "patterns", "graph", "links", "releases",
                         "corrections", "analytics", "reading", "explanations", "gate"}
    /\ s.jobs \in Nat /\ s.outages \in Nat

VARIABLE scenario

explaining == <<readingVars, explanationVars, gateVars>>
vars == <<memoryVars, knowledgeVars, releaseVars, correctionVars, cacheVars, explaining, scenario>>

Init ==
  /\ scenario \in Scenarios
  /\ MemoryInit /\ KnowledgeInit(scenario.jobs, scenario.outages)
  /\ ReleasesInit /\ CorrectionsInit /\ CacheInit
  /\ ReadingInit /\ ExplanationsInit /\ GateInit
  \* Where they cannot stop or start, Milvus and the processes are up.
  /\ "links" \notin scenario.parts => client[Server] = "set"

InMemory(part, A) ==
  /\ part \in scenario.parts /\ A
  /\ UNCHANGED <<scenario, knowledgeVars, releaseVars, correctionVars, cacheVars, explaining>>

InKnowledge(part, A) ==
  /\ part \in scenario.parts /\ A
  /\ UNCHANGED <<scenario, memoryVars, releaseVars, correctionVars, cacheVars, explaining>>

\* The step of a part that shares nothing; rest is what belongs to the others.
Alone(part, A, rest) ==
  part \in scenario.parts /\ A /\ UNCHANGED <<scenario, memoryVars, knowledgeVars, rest>>

Next ==
  \/ InMemory("memory", EncounterStep)
  \/ InMemory("decay", DecayStep)
  \/ InKnowledge("patterns", PatternStep)
  \/ InKnowledge("graph", GraphStep)
  \/ InKnowledge("links", LinkStep)
  \/ Alone("releases", ReleasesNext, <<correctionVars, cacheVars, explaining>>)
  \/ Alone("corrections", CorrectionsNext, <<releaseVars, cacheVars, explaining>>)
  \/ Alone("analytics", CacheNext, <<releaseVars, correctionVars, explaining>>)
  \/ Alone("reading", ReadingNext,
           <<releaseVars, correctionVars, cacheVars, explanationVars, gateVars>>)
  \/ Alone("explanations", ExplanationsNext,
           <<releaseVars, correctionVars, cacheVars, readingVars, gateVars>>)
  \/ Alone("gate", GateNext,
           <<releaseVars, correctionVars, cacheVars, readingVars, explanationVars>>)

\* The container is restarted when it stops, and the reconnect loop is a task of
\* the event loop that sleeps fifteen seconds between its attempts.
Fairness ==
  /\ WF_vars(InKnowledge("links", StartProcess(Server)))
  /\ WF_vars(InKnowledge("links", PrepareCollection(Server)))
  /\ WF_vars(InKnowledge("links", TryConnect))
  /\ WF_vars(InKnowledge("links", ConfirmConnection))
  /\ WF_vars(InKnowledge("links", EnsureCollections))

Spec == Init /\ [][Next]_vars /\ Fairness

\* Every part keeps the types of its variables.
ServicesTypeOK ==
  /\ scenario \in Scenarios
  /\ MemoryTypeOK /\ KnowledgeTypeOK /\ ReleasesTypeOK /\ CorrectionsTypeOK
  /\ CacheTypeOK /\ ReadingTypeOK /\ ExplanationsTypeOK /\ GateTypeOK

\* Once Milvus stays up the server gets its client back without a restart, and
\* the collection too unless Milvus went away just before it was to be prepared.
MilvusRecovers ==
  "links" \in scenario.parts /\ <>[]milvus
    => <>[](client[Server] = "set" /\ (collection \/ setup = "dead"))
================================================================================
