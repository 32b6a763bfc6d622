----------------------------- MODULE Explanations -----------------------------
(***************************************************************************)
(* POST /v1/explain, and the Ollama host every use of the models shares:   *)
(* the first of the configured hosts that answers a health check when a    *)
(* host is needed for the first time.  It is kept until the process ends;  *)
(* a failed search for one is not.  (A deployment that sets OLLAMA_URI has *)
(* one host, which is not asked.)                                          *)
(*                                                                         *)
(* The hosts are other machines, so they stop and start between any two of *)
(* the steps, the questions of the health check included.                  *)
(***************************************************************************)
EXTENDS Naturals, Sequences

CONSTANTS
  OLLAMA_HOSTS,        \* in the order in which they are asked
  MaxStops,            \* bound on how often a host stops
  NoHost

ASSUME ExplanationsAssumption ==
  /\ OLLAMA_HOSTS \in Seq({OLLAMA_HOSTS[k] : k \in DOMAIN OLLAMA_HOSTS})
  /\ MaxStops \in Nat

VARIABLES
  healthy,     \* the hosts that answer
  resolved,    \* the process' _resolved_host
  lapsed,      \* the host in use has stopped at least once since it was chosen
  stops,       \* how often hosts stopped
  explanation  \* the request in hand, and whether its failure has a cause outside

explanationVars == <<healthy, resolved, lapsed, stops, explanation>>

Hosts  == {OLLAMA_HOSTS[k] : k \in DOMAIN OLLAMA_HOSTS}
NotYet == [step |-> "none", asked |-> 0, result |-> "none", excused |-> FALSE]

Doing(step) == explanation.step = step
GoOn(step) == explanation' = [explanation EXCEPT !.step = step, !.asked = 0]

\* The answer: an explanation or an error object, both a 200, or a 500.
Conclusion(result, excused) ==
  explanation' = [explanation EXCEPT
    !.step = "done", !.result = result, !.excused = @ \/ excused]

ExplanationsTypeOK ==
  /\ healthy \subseteq Hosts /\ resolved \in Hosts \cup {NoHost}
  /\ lapsed \in BOOLEAN /\ stops \in 0 .. MaxStops
  /\ explanation \in
       [step : {"none", "embed", "search", "read", "generate", "done"},
        asked : 0 .. Len(OLLAMA_HOSTS), excused : BOOLEAN,
        result : {"none", "explanation", "no history", "invalid", "model error", "server error"}]

--------------------------------------------------------------------------------
(* The host *)

\* Mutant of answers: any response counts as a healthy host.
AnswersSomehow(h) == TRUE

answers(h) == h \in healthy

\* The next host of the list is asked.  When none is left the use fails, and the
\* next one starts from the first host again.
resolve_ollama_host(result) ==
  LET k == explanation.asked + 1 IN
  /\ resolved = NoHost
  /\ IF k > Len(OLLAMA_HOSTS) THEN Conclusion(result, FALSE) /\ UNCHANGED <<resolved, lapsed>>
     ELSE IF answers(OLLAMA_HOSTS[k])
     THEN resolved' = OLLAMA_HOSTS[k] /\ lapsed' = FALSE /\ UNCHANGED explanation
     ELSE explanation' = [explanation EXCEPT !.asked = k] /\ UNCHANGED <<resolved, lapsed>>
  /\ UNCHANGED <<healthy, stops>>

--------------------------------------------------------------------------------
(* An explanation *)

Explain ==
  /\ explanation.step \in {"none", "done"}
  /\ explanation' = [NotYet EXCEPT !.step = "embed", !.excused = healthy = {} \/ lapsed]
  /\ UNCHANGED <<healthy, resolved, lapsed, stops>>

\* The question is embedded.  A failure reads like a question without a match.
EmbedQuery ==
  /\ Doing("embed")
  /\ \/ resolve_ollama_host("no history")
     \/ /\ resolved # NoHost
        /\ \/ resolved \in healthy /\ GoOn("search")
           \/ resolved \notin healthy /\ Conclusion("no history", FALSE)
           \/ Conclusion("no history", TRUE)  \* a timeout
        /\ UNCHANGED <<healthy, resolved, lapsed, stops>>

\* Milvus finds similar merchants, or none, or fails, or has no client.
find_similar_behaviors ==
  /\ Doing("search")
  /\ GoOn("read") \/ Conclusion("no history", TRUE)
  /\ UNCHANGED <<healthy, resolved, lapsed, stops>>

\* The merchants' profiles, patterns and corrections, one after the other; nothing
\* catches a read that fails, which is answered with a 500.
fetch_grounded_context ==
  /\ Doing("read")
  /\ GoOn("generate") \/ Conclusion("server error", TRUE)
  /\ UNCHANGED <<healthy, resolved, lapsed, stops>>

\* The model's answer passes, or is no JSON, has a key that looks like code, or
\* not the three fields.
validate_llm_output ==
  Conclusion("explanation", FALSE) \/ Conclusion("invalid", TRUE)

generate_explanation ==
  /\ Doing("generate")
  /\ \/ resolve_ollama_host("model error")
     \/ /\ resolved # NoHost
        /\ \/ resolved \in healthy /\ validate_llm_output
           \/ resolved \notin healthy /\ Conclusion("model error", FALSE)
           \/ Conclusion("model error", TRUE)  \* a timeout
        /\ UNCHANGED <<healthy, resolved, lapsed, stops>>

--------------------------------------------------------------------------------
(* Outside *)

HostStops(h) ==
  /\ h \in healthy /\ stops < MaxStops
  /\ healthy' = healthy \ {h} /\ stops' = stops + 1
  /\ lapsed' = (lapsed \/ h = resolved)
  /\ explanation' = [explanation EXCEPT !.excused = @ \/ explanation.step # "done"]
  /\ UNCHANGED resolved

HostStarts(h) ==
  /\ h \notin healthy /\ healthy' = healthy \cup {h}
  /\ UNCHANGED <<resolved, lapsed, stops, explanation>>

\* The process forgets its host and its requests.
RestartProcess ==
  /\ resolved' = NoHost /\ lapsed' = FALSE /\ explanation' = NotYet
  /\ UNCHANGED <<healthy, stops>>

ExplanationsInit ==
  /\ healthy = {} /\ resolved = NoHost /\ lapsed = FALSE /\ stops = 0
  /\ explanation = NotYet

ExplanationsNext ==
  \/ Explain \/ EmbedQuery \/ find_similar_behaviors \/ fetch_grounded_context
  \/ generate_explanation
  \/ \E h \in Hosts : HostStops(h) \/ HostStarts(h)
  \/ RestartProcess

ExplanationsSpec == ExplanationsInit /\ [][ExplanationsNext]_explanationVars

\* A question that cannot be explained was asked while every host was down, while
\* one stopped, or with a host that has stopped since it was chosen; or the search
\* or the model itself had nothing.  What went wrong for earlier questions, among
\* them the first one of the process, does not count.
ExplainsUnlessDown ==
  explanation.step = "done" /\ explanation.result # "explanation" => explanation.excused
================================================================================
