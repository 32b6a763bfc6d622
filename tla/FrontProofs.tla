------------------------------ MODULE FrontProofs ------------------------------
(***************************************************************************)
(* Proofs about the modules that nothing else depends on: AnalyticsCache,  *)
(* Explanations, RequestGate and StatementReading, for any users, hosts,   *)
(* limits, statements and bounds.                                          *)
(***************************************************************************)
EXTENDS AnalyticsCache, Explanations, RequestGate, StatementReading, FiniteSetTheorems,
        WellFoundedInduction, TLAPS

(***************************************************************************)
(* The cached analytics.                                                   *)
(***************************************************************************)

Trends == [user : Readers, month : Months]

\* An answer about u that was due in month m or later.
About(a, u, m) == a.user = u /\ a.month >= m

CacheInv ==
  /\ month \in Months
  /\ cache \in [Readers \X Months -> Trends \cup {NoAnswer}]
  /\ lookup \in [Readers -> [asked : 0 .. LastMonth, value : Trends \cup {NoAnswer}]]
  /\ answer \in [Readers -> [asked : 0 .. LastMonth, value : Trends \cup {NoAnswer}]]
  /\ \A u \in Readers :
       /\ lookup[u] # NoLookup => lookup[u].asked \in 1 .. month
       /\ lookup[u].value # NoAnswer => About(lookup[u].value, u, lookup[u].asked)
       /\ \A m \in Months : cache[<<u, m>>] # NoAnswer => About(cache[<<u, m>>], u, m)
  /\ AnswersTheQuestion

LEMMA InitCache == CacheInit => CacheInv
<1> SUFFICES ASSUME CacheInit PROVE CacheInv
  OBVIOUS
<1>1. LastMonth \in Nat /\ LastMonth > 0 /\ 1 \in Months /\ 0 \in 0 .. LastMonth
  BY CacheAssumption DEF Months
<1>2. \A u \in Readers : lookup[u] = NoLookup /\ answer[u] = NoLookup /\ lookup[u].value = NoAnswer
  BY DEF CacheInit, NoLookup
<1>3. \A k \in Readers \X Months : cache[k] = NoAnswer
  BY DEF CacheInit
<1>4. \A u \in Readers, m \in Months : <<u, m>> \in Readers \X Months
  OBVIOUS
<1> QED
  BY <1>1, <1>2, <1>3, <1>4 DEF CacheInit, CacheInv, NoLookup, AnswersTheQuestion

LEMMA StepCache == CacheInv /\ [CacheNext]_cacheVars => CacheInv'
<1> SUFFICES ASSUME CacheInv, [CacheNext]_cacheVars PROVE CacheInv'
  OBVIOUS
<1> USE DEF CacheInv
<1>0. LastMonth \in Nat /\ LastMonth > 0 /\ month \in 1 .. LastMonth
  BY CacheAssumption DEF Months
<1>1. CASE UNCHANGED cacheVars
  BY <1>1 DEF cacheVars, AnswersTheQuestion
<1>2. ASSUME NEW u \in Readers, Hit(u) PROVE CacheInv'
  <2> DEFINE found == cache[<<u, month>>]
  <2>1. found \in Trends /\ About(found, u, month)
    BY <1>2 DEF Hit, _mom_cache_key
  <2>2. answer' = [answer EXCEPT ![u] = [asked |-> month, value |-> found]]
    BY <1>2 DEF Hit, Respond, _mom_cache_key
  <2>3. answer'[u] = [asked |-> month, value |-> found]
        /\ \A v \in Readers \ {u} : answer'[v] = answer[v]
    BY <2>2
  <2>4. AnswersTheQuestion'
    BY <2>1, <2>3 DEF AnswersTheQuestion, About
  <2>5. answer' \in [Readers -> [asked : 0 .. LastMonth, value : Trends \cup {NoAnswer}]]
    BY <1>0, <2>1, <2>2
  <2> QED
    BY <1>2, <2>4, <2>5 DEF Hit
<1>3. ASSUME NEW u \in Readers, Miss(u) PROVE CacheInv'
  <2> DEFINE r == [asked |-> month, value |-> NoAnswer]
  <2>1. lookup' = [lookup EXCEPT ![u] = r] /\ lookup'[u] = r
        /\ \A v \in Readers \ {u} : lookup'[v] = lookup[v]
    BY <1>3 DEF Miss
  <2>2. lookup' \in [Readers -> [asked : 0 .. LastMonth, value : Trends \cup {NoAnswer}]]
    BY <1>0, <2>1
  <2>3. AnswersTheQuestion'
    BY <1>3 DEF Miss, AnswersTheQuestion
  <2> QED
    BY <1>0, <1>3, <2>1, <2>2, <2>3 DEF Miss
<1>4. ASSUME NEW u \in Readers, Compute(u) PROVE CacheInv'
  <2> DEFINE t == [user |-> u, month |-> month]
  <2>1. lookup' = [lookup EXCEPT ![u].value = t]
    BY <1>4 DEF Compute, calculate_mom_growth
  <2>2. lookup'[u] = [lookup[u] EXCEPT !.value = t]
        /\ lookup'[u].asked = lookup[u].asked /\ lookup'[u].value = t
        /\ \A v \in Readers \ {u} : lookup'[v] = lookup[v]
    BY <2>1
  <2>3. t \in Trends /\ About(t, u, lookup[u].asked)
    BY <1>0, <1>4 DEF Compute, Trends, About
  <2>4. lookup' \in [Readers -> [asked : 0 .. LastMonth, value : Trends \cup {NoAnswer}]]
    BY <2>1, <2>3
  <2>5. AnswersTheQuestion'
    BY <1>4 DEF Compute, AnswersTheQuestion
  <2> QED
    BY <1>4, <2>2, <2>3, <2>4, <2>5 DEF Compute
<1>5. ASSUME NEW u \in Readers, Put(u) PROVE CacheInv'
  <2> DEFINE r == lookup[u]
  <2>1. r.value \in Trends /\ r.asked \in 0 .. LastMonth /\ About(r.value, u, r.asked)
    BY <1>5 DEF Put
  <2>2. answer' = [answer EXCEPT ![u] = [asked |-> r.asked, value |-> r.value]]
    BY <1>5 DEF Put, Respond
  <2>3. AnswersTheQuestion'
    BY <2>1, <2>2 DEF AnswersTheQuestion, About
  <2>4. answer' \in [Readers -> [asked : 0 .. LastMonth, value : Trends \cup {NoAnswer}]]
    BY <2>1, <2>2
  <2>5. lookup' = [lookup EXCEPT ![u] = NoLookup]
    BY <1>5 DEF Put
  <2>6. lookup' \in [Readers -> [asked : 0 .. LastMonth, value : Trends \cup {NoAnswer}]]
    BY <1>0, <2>5 DEF NoLookup
  <2>7. lookup'[u] = NoLookup /\ lookup'[u].value = NoAnswer
        /\ \A v \in Readers \ {u} : lookup'[v] = lookup[v]
    BY <2>5 DEF NoLookup
  <2>8. cache' \in [Readers \X Months -> Trends \cup {NoAnswer}]
        /\ \A v \in Readers, m \in Months :
             cache'[<<v, m>>] # NoAnswer => About(cache'[<<v, m>>], v, m)
    BY <1>5, <2>1 DEF Put, _mom_cache_key
  <2> QED
    BY <1>5, <2>3, <2>4, <2>6, <2>7, <2>8 DEF Put
<1>6. ASSUME NEW u \in Readers, NEW m \in Months, Expire(u, m) PROVE CacheInv'
  <2>1. cache' = [cache EXCEPT ![<<u, m>>] = NoAnswer] /\ UNCHANGED <<month, lookup, answer>>
    BY <1>6 DEF Expire
  <2>2. cache' \in [Readers \X Months -> Trends \cup {NoAnswer}]
        /\ \A v \in Readers, n \in Months :
             cache'[<<v, n>>] # NoAnswer => About(cache'[<<v, n>>], v, n)
    BY <2>1
  <2>3. AnswersTheQuestion'
    BY <2>1 DEF AnswersTheQuestion
  <2> QED
    BY <2>1, <2>2, <2>3
<1>7. ASSUME NextMonth PROVE CacheInv'
  <2>1. month' = month + 1 /\ month' \in Months /\ UNCHANGED <<cache, lookup, answer>>
    BY <1>0, <1>7 DEF NextMonth, Months
  <2>2. AnswersTheQuestion'
    BY <2>1 DEF AnswersTheQuestion
  <2>3. \A u \in Readers : lookup[u] # NoLookup => lookup[u].asked \in 1 .. month'
    BY <1>0, <2>1
  <2> QED
    BY <2>1, <2>2, <2>3
<1> QED
  BY <1>1, <1>2, <1>3, <1>4, <1>5, <1>6, <1>7 DEF CacheNext

\* What is in the cache, in a request or answered is about the user and the
\* month of its key or question, or a later month.
THEOREM CacheCorrect == CacheSpec => []CacheInv
<1> QED
  BY InitCache, StepCache, PTL DEF CacheSpec

\* No user is answered about another, or about a month that was over when the
\* request came (cached() around the month-over-month trend).
THEOREM AnswersTheQuestionCorrect == CacheSpec => []AnswersTheQuestion
<1>1. CacheInv => AnswersTheQuestion
  BY DEF CacheInv
<1> QED
  BY CacheCorrect, <1>1, PTL

\* No request is of a later month than the clock's.
AskedBefore == \A u \in Readers : {lookup[u].asked, answer[u].asked} \subseteq 0 .. month

LEMMA StepAsked == CacheInv /\ AskedBefore /\ [CacheNext]_cacheVars => AskedBefore'
<1> SUFFICES ASSUME CacheInv, AskedBefore, [CacheNext]_cacheVars, NEW v \in Readers
             PROVE  {lookup'[v].asked, answer'[v].asked} \subseteq 0 .. month'
  BY DEF AskedBefore
<1>1. /\ month \in Nat /\ month >= 1
      /\ lookup[v].asked \in 0 .. month /\ answer[v].asked \in 0 .. month
      /\ \A u \in Readers : lookup[u].asked \in 0 .. month
  BY CacheAssumption DEF CacheInv, Months, AskedBefore
<1> USE <1>1 DEF CacheInv
<1>2. ASSUME NEW u \in Readers, Hit(u) \/ Miss(u) \/ Compute(u) \/ Put(u)
      PROVE  {lookup'[v].asked, answer'[v].asked} \subseteq 0 .. month'
  BY <1>2 DEF Hit, Miss, Compute, Put, Respond, NoLookup
<1>3. ASSUME NEW u \in Readers, NEW m \in Months, Expire(u, m)
      PROVE  {lookup'[v].asked, answer'[v].asked} \subseteq 0 .. month'
  BY <1>3 DEF Expire
<1>4. CASE NextMonth
  BY <1>4, CacheAssumption DEF NextMonth
<1>5. CASE UNCHANGED cacheVars
  BY <1>5 DEF cacheVars
<1> QED
  BY <1>2, <1>3, <1>4, <1>5 DEF CacheNext

\* A question that is still open or was answered is of no later month than the
\* clock's, and what Redis holds is about months there were.
THEOREM CacheTypeCorrect == CacheSpec => []CacheTypeOK
<1>1. CacheInit => AskedBefore
  <2> SUFFICES ASSUME CacheInit, NEW u \in Readers
               PROVE  {lookup[u].asked, answer[u].asked} \subseteq 0 .. month
    BY DEF AskedBefore
  <2>1. month = 1 /\ lookup[u] = NoLookup /\ answer[u] = NoLookup
    BY DEF CacheInit
  <2>2. NoLookup.asked = 0 /\ 0 \in 0 .. 1
    BY DEF NoLookup
  <2> QED
    BY <2>1, <2>2
<1>2. CacheInv /\ AskedBefore => CacheTypeOK
  BY DEF CacheInv, AskedBefore, CacheTypeOK, Trends
<1> QED
  BY <1>1, <1>2, CacheCorrect, StepAsked, PTL DEF CacheSpec

(***************************************************************************)
(* The way of a request.                                                   *)
(***************************************************************************)

Places ==
  {"none", "cors", "request id", "body limit", "security headers", "https", "routes",
   "keys", "handler"}

Requests ==
  [at : Places, preflight : BOOLEAN, length : Nat, inbound : Ids \cup {NoId},
   id : Ids \cup {Fresh, NoId}, sent : Nat, read : Nat]

Answerers == {"cors", "limit", "https", "keys", "routes", "handler"}

Responses ==
  [by : Answerers, status : Nat, envelope : Ids \cup {Fresh, NoId},
   header : Ids \cup {Fresh, NoId}]

\* What was handed on is what arrived, until a chunk is refused; behind the body
\* limit all of it is there.
Counted ==
  /\ request.read <= MaxBytes
  /\ response = NoResponse => request.read = request.sent
  /\ request.at \in {"keys", "handler"} =>
       request.read = request.sent /\ request.length \in {Chunked, request.sent}

\* Only the handler answers for the handler, and only a request that came is answered.
Placed ==
  /\ request.at = "none" => response = NoResponse
  /\ response # NoResponse /\ response.by = "handler" => request.at = "handler"
  /\ request.at \notin {"none", "cors", "request id"} => request.id # NoId

GateInv ==
  /\ request \in Requests
  /\ response \in Responses \cup {NoResponse}
  /\ Counted /\ Placed /\ Traceable

LEMMA GateNumbers == MaxBytes \in Nat /\ MaxSent \in Nat /\ Chunked \in Nat
BY GateAssumption DEF Chunked

LEMMA LimitNotNegative == 0 <= MaxBytes
BY GateNumbers

\* The stack, layer by layer.
LEMMA LayersAre ==
  /\ DOMAIN Layers = 1 .. 6
  /\ Layers[1] = "cors" /\ Layers[2] = "request id" /\ Layers[3] = "body limit"
  /\ Layers[4] = "security headers" /\ Layers[5] = "https" /\ Layers[6] = "routes"
<1> DEFINE T == <<"cors", "request id", "body limit", "security headers", "https", "routes">>
<1>1. DOMAIN T = 1 .. 6
  OBVIOUS
<1>2. /\ T[1] = "cors" /\ T[2] = "request id" /\ T[3] = "body limit"
      /\ T[4] = "security headers" /\ T[5] = "https" /\ T[6] = "routes"
  OBVIOUS
<1> QED
  BY <1>1, <1>2 DEF Layers

LEMMA FirstTwo == 2 \in 1 .. 6 /\ \A i \in 1 .. 2 : i = 1 \/ i = 2
OBVIOUS

\* RequestIDMiddleware is around all that can refuse a request after it.
LEMMA IdIsAround ==
  ASSUME NEW l \in {"body limit", "https", "routes"}
  PROVE  "request id" \in Around(l)
<1>1. 2 \in DOMAIN Layers
  BY LayersAre, FirstTwo, Zenon
<1>2. Installed(Layers[2])
  BY LayersAre DEF Installed
<1>3. \A i \in 1 .. 2 : Layers[i] # l
  BY LayersAre, FirstTwo
<1> QED
  BY <1>1, <1>2, <1>3, LayersAre DEF Around

\* From one layer to the next installed one.
LEMMA NextLayer ==
  ASSUME NEW j \in 1 .. 6, NEW k \in 1 .. 6, j < k,
         \A i \in j + 1 .. k - 1 : ~Installed(Layers[i])
  PROVE  /\ Layers[k] \in {"request id", "body limit", "security headers", "https", "routes"}
         /\ Layers[j] = "cors" => Layers[k] = "request id"
         /\ Layers[j] # "cors" => Layers[k] # "request id"
<1>1. Installed(Layers[2])
  BY LayersAre DEF Installed
<1>2. j = 1 => k = 2
  BY <1>1
<1>3. k \in {2, 3, 4, 5, 6} /\ (j # 1 => k \in {3, 4, 5, 6})
  OBVIOUS
<1>4. Layers[j] = "cors" => j = 1
  <2>1. j \in {1, 2, 3, 4, 5, 6}
    OBVIOUS
  <2> QED
    BY <2>1, LayersAre
<1>5. Layers[k] \in {"request id", "body limit", "security headers", "https", "routes"}
  BY <1>3, LayersAre
<1>6. j = 1 => Layers[k] = "request id"
  BY <1>2, LayersAre
<1>7. j # 1 => Layers[k] # "request id"
  BY <1>3, LayersAre
<1>8. j = 1 => Layers[j] = "cors"
  BY LayersAre
<1> QED
  BY <1>4, <1>5, <1>6, <1>7, <1>8

\* An answer, and where its ids come from.
LEMMA ReplyIs ==
  ASSUME NEW l \in Places, NEW by \in Answerers, NEW status \in Nat, NEW named \in Ids \cup {Fresh, NoId},
         request \in Requests, Reply(l, by, status, named)
  PROVE  /\ response' \in Responses /\ response' # NoResponse
         /\ response'.by = by /\ response'.status = status /\ response'.envelope = named
         /\ "request id" \in Around(l) => response'.header = request.id
<1>1. response' \in Responses
  BY DEF Reply, Requests, Responses
<1>2. response' # NoResponse
  BY <1>1, GateAssumption DEF Responses, Answerers
<1> QED
  BY <1>1, <1>2 DEF Reply

\* A request that goes on keeps everything but its place, which is a later layer.
LEMMA InwardIs ==
  ASSUME NEW l \in {"cors", "request id", "body limit", "security headers", "https"},
         NEW r \in Requests, Inward(l, r)
  PROVE  /\ request' \in Requests /\ UNCHANGED <<deployment, response>>
         /\ request'.id = r.id /\ request'.sent = r.sent /\ request'.read = r.read
         /\ request'.length = r.length
         /\ request'.at \notin {"none", "keys", "handler", "cors"}
         /\ l = "cors" => request'.at = "request id"
         /\ l # "cors" => request'.at # "request id"
<1>1. PICK j \in DOMAIN Layers, k \in DOMAIN Layers :
        /\ Layers[j] = l /\ j < k
        /\ \A i \in j + 1 .. k - 1 : ~Installed(Layers[i])
        /\ request' = [r EXCEPT !.at = Layers[k]]
        /\ UNCHANGED <<deployment, response>>
  BY DEF Inward
<1>2. j \in 1 .. 6 /\ k \in 1 .. 6
  BY LayersAre
<1>3. /\ Layers[k] \in {"request id", "body limit", "security headers", "https", "routes"}
      /\ l = "cors" => Layers[k] = "request id"
      /\ l # "cors" => Layers[k] # "request id"
  BY <1>1, <1>2, NextLayer
<1>4. request' \in Requests /\ request'.at = Layers[k] /\ request'.length = r.length
      /\ request'.id = r.id /\ request'.sent = r.sent /\ request'.read = r.read
  BY <1>1, <1>3 DEF Requests, Places
<1> QED
  BY <1>1, <1>3, <1>4

LEMMA InitGate == GateInit => GateInv
<1> SUFFICES ASSUME GateInit PROVE GateInv
  OBVIOUS
<1>1. request = NoRequestYet /\ response = NoResponse
  BY DEF GateInit
<1>2. request \in Requests
  BY <1>1, GateNumbers DEF NoRequestYet, Requests, Places
<1>3. Counted /\ Placed
  BY <1>1, GateNumbers DEF NoRequestYet, Counted, Placed
<1> QED
  BY <1>1, <1>2, <1>3 DEF GateInv, Traceable

\* A step inward from a layer before the routes.
LEMMA StepInward ==
  ASSUME NEW l \in {"cors", "request id", "body limit", "security headers", "https"},
         NEW r \in Requests, GateInv, Open(l), Inward(l, r),
         r.sent = request.sent, r.read = request.read,
         l # "cors" => r.id # NoId
  PROVE  GateInv'
<1>1. response = NoResponse /\ request.read = request.sent /\ request.read <= MaxBytes
  BY DEF Open, GateInv, Counted
<1>2. response' = NoResponse
  BY <1>1, InwardIs
<1>3. request' \in Requests /\ request'.sent = r.sent /\ request'.read = r.read
      /\ request'.id = r.id /\ request'.at \notin {"none", "keys", "handler", "cors"}
  BY InwardIs
<1>4. Counted'
  BY <1>1, <1>2, <1>3 DEF Counted
<1>5. Placed'
  BY <1>2, <1>3, InwardIs DEF Placed
<1>6. Traceable'
  BY <1>2 DEF Traceable
<1> QED
  BY <1>2, <1>3, <1>4, <1>5, <1>6 DEF GateInv

\* An answer to a request that is where it was.
LEMMA StepReply ==
  ASSUME GateInv, response = NoResponse, request.at # "none", UNCHANGED request,
         response' \in Responses, response' # NoResponse,
         response'.by = "handler" => request.at = "handler",
         response'.by # "cors" =>
           request.id # NoId /\ request.id \in {response'.header, response'.envelope}
  PROVE  GateInv'
<1>1. request \in Requests /\ Counted /\ Placed
  BY DEF GateInv
<1>2. Counted' /\ Placed' /\ Traceable'
  BY <1>1 DEF Counted, Placed, Traceable
<1> QED
  BY <1>1, <1>2 DEF GateInv

LEMMA Literals ==
  /\ \A by \in {"cors", "limit", "https", "keys", "routes", "handler"} : by \in Answerers
  /\ 200 \in Nat /\ 400 \in Nat /\ 401 \in Nat /\ 403 \in Nat /\ 404 \in Nat
  /\ 413 \in Nat /\ 422 \in Nat /\ 429 \in Nat /\ 500 \in Nat /\ 503 \in Nat
<1>1. \A by \in {"cors", "limit", "https", "keys", "routes", "handler"} : by \in Answerers
  BY DEF Answerers
<1>2. /\ 200 \in Nat /\ 400 \in Nat /\ 401 \in Nat /\ 403 \in Nat /\ 404 \in Nat
      /\ 413 \in Nat /\ 422 \in Nat /\ 429 \in Nat /\ 500 \in Nat /\ 503 \in Nat
  OBVIOUS
<1> QED
  BY <1>1, <1>2, Zenon

\* Each kind of answer.
LEMMA AnswerIs ==
  ASSUME request \in Requests, NEW l \in {"body limit", "https", "routes"},
         NEW by \in Answerers, NEW status \in Nat, NEW named, named = request.id \/ named = NoId,
         Reply(l, by, status, named)
  PROVE  /\ response' \in Responses /\ response' # NoResponse
         /\ response'.by = by /\ response'.header = request.id
<1>1. named \in Ids \cup {Fresh, NoId}
  BY DEF Requests
<1>2. l \in Places
  BY DEF Places
<1> QED
  BY <1>1, <1>2, ReplyIs, IdIsAround

LEMMA CorsAnswerIs ==
  ASSUME request \in Requests, NEW status \in Nat, Reply("cors", "cors", status, NoId)
  PROVE  response' \in Responses /\ response' # NoResponse /\ response'.by = "cors"
<1>1. "cors" \in Answerers
  BY Literals
<1>2. response' \in Responses
  BY <1>1 DEF Reply, Requests, Responses
<1>3. response' # NoResponse
  BY <1>2, GateAssumption DEF Responses, Answerers
<1> QED
  BY <1>2, <1>3 DEF Reply

LEMMA StepGate == GateInv /\ [GateNext]_gateVars => GateInv'
<1> SUFFICES ASSUME GateInv, [GateNext]_gateVars PROVE GateInv'
  OBVIOUS
<1>0. request \in Requests /\ Counted /\ Placed
  BY DEF GateInv
<1>1. CASE UNCHANGED gateVars
  <2>1. request' = request /\ response' = response
    BY <1>1 DEF gateVars
  <2>2. Counted' /\ Placed'
    BY <1>0, <2>1 DEF Counted, Placed
  <2>3. Traceable'
    BY <2>1 DEF GateInv, Traceable
  <2> QED
    BY <2>1, <2>2, <2>3 DEF GateInv
<1>2. ASSUME NEW layers, Deploy(layers) PROVE GateInv'
  BY <1>2 DEF Deploy, GateInv, Counted, Placed, Traceable
<1>3. ASSUME NEW preflight \in BOOLEAN, NEW length \in 0 .. Chunked, NEW inbound \in Ids \cup {NoId},
             Arrive(preflight, length, inbound)
      PROVE  GateInv'
  <2>0. length \in Nat
    BY GateNumbers
  <2>1. response' = NoResponse
    BY <1>0, <1>3 DEF Arrive, Placed
  <2>2. PICK at \in {"cors", "request id"} :
          request' = [at |-> at, preflight |-> preflight, length |-> length, inbound |-> inbound,
                      id |-> NoId, sent |-> 0, read |-> 0]
    BY <1>3 DEF Arrive, NoRequestYet
  <2>3. request' \in Requests
    <3>1. at \in Places /\ NoId \in Ids \cup {Fresh, NoId} /\ 0 \in Nat
      BY DEF Places
    <3> QED
      BY <2>0, <2>2, <3>1 DEF Requests
  <2>4. request'.at \in {"cors", "request id"} /\ request'.sent = 0 /\ request'.read = 0
    BY <2>2
  <2>5. Counted'
    <3>1. request'.at \notin {"keys", "handler"}
      BY <2>4
    <3> QED
      BY <2>4, <3>1, LimitNotNegative DEF Counted
  <2>6. Placed' /\ Traceable'
    BY <2>1, <2>4 DEF Placed, Traceable
  <2> QED
    BY <2>1, <2>3, <2>5, <2>6 DEF GateInv
<1>4. ASSUME Cors PROVE GateInv'
  <2>1. Open("cors") /\ response = NoResponse /\ request.at = "cors"
    BY <1>4 DEF Cors, Open
  <2>2. CASE request.preflight
    <3>1. UNCHANGED request
          /\ (Reply("cors", "cors", 200, NoId) \/ Reply("cors", "cors", 400, NoId))
      BY <1>4, <2>2 DEF Cors
    <3>2. response' \in Responses /\ response' # NoResponse /\ response'.by = "cors"
      BY <1>0, <3>1, Literals, CorsAnswerIs
    <3> QED
      BY <2>1, <3>1, <3>2, StepReply
  <2>3. CASE ~request.preflight
    BY <1>0, <1>4, <2>1, <2>3, StepInward DEF Cors
  <2> QED
    BY <2>2, <2>3
<1>5. ASSUME RequestID PROVE GateInv'
  <2> DEFINE r == [request EXCEPT !.id = IF request.inbound # NoId THEN request.inbound ELSE Fresh]
  <2>1. r \in Requests /\ r.sent = request.sent /\ r.read = request.read /\ r.id # NoId
    BY <1>0, GateAssumption DEF Requests
  <2>2. Open("request id") /\ Inward("request id", r)
    BY <1>5 DEF RequestID
  <2> HIDE DEF r
  <2> QED
    BY <2>1, <2>2, StepInward
<1>6. ASSUME BodySizeLimit PROVE GateInv'
  <2>1. Open("body limit") /\ response = NoResponse /\ request.at = "body limit"
        /\ request.id # NoId
    BY <1>0, <1>6 DEF BodySizeLimit, Open, Placed
  <2>2. CASE Reply("body limit", "limit", 413, NoId) /\ UNCHANGED request
    <3>1. "limit" \in Answerers /\ 413 \in Nat
      BY Literals, Zenon
    <3>2. /\ response' \in Responses /\ response' # NoResponse
          /\ response'.by = "limit" /\ response'.header = request.id
      BY <1>0, <2>2, <3>1, AnswerIs
    <3> QED
      BY <2>1, <2>2, <3>2, StepReply
  <2>3. CASE Inward("body limit", request)
    BY <1>0, <2>1, <2>3, StepInward
  <2> QED
    BY <1>6, <2>2, <2>3 DEF BodySizeLimit
<1>7. ASSUME SecurityHeaders PROVE GateInv'
  <2>1. Open("security headers") /\ Inward("security headers", request) /\ request.id # NoId
    BY <1>0, <1>7 DEF SecurityHeaders, Open, Placed
  <2> QED
    BY <1>0, <2>1, StepInward
<1>8. ASSUME NEW secure, HTTPSEnforcement(secure) PROVE GateInv'
  <2>1. Open("https") /\ response = NoResponse /\ request.at = "https" /\ request.id # NoId
    BY <1>0, <1>8 DEF HTTPSEnforcement, Open, Placed
  <2>2. CASE Reply("https", "https", 400, NoId) /\ UNCHANGED request
    <3>1. "https" \in Answerers /\ 400 \in Nat
      BY Literals, Zenon
    <3>2. /\ response' \in Responses /\ response' # NoResponse
          /\ response'.by = "https" /\ response'.header = request.id
      BY <1>0, <2>2, <3>1, AnswerIs
    <3> QED
      BY <2>1, <2>2, <3>2, StepReply
  <2>3. CASE Inward("https", request)
    BY <1>0, <2>1, <2>3, StepInward
  <2> QED
    BY <1>8, <2>2, <2>3 DEF HTTPSEnforcement
<1>9. ASSUME NEW n \in 1 .. MaxSent, Receive(n) PROVE GateInv'
  <2>0. n \in Nat
    BY GateNumbers
  <2>1. response = NoResponse /\ request.at = "routes" /\ request.id # NoId
        /\ request.read = request.sent /\ request.read <= MaxBytes
        /\ request.sent \in Nat /\ request.id \in Ids \cup {Fresh, NoId}
    BY <1>0, <1>9 DEF Receive, Open, Placed, Counted, Requests
  <2>2. CASE limited_receive(request.sent, n)
    <3>1. request' = [request EXCEPT !.sent = @ + n]
          /\ Reply("routes", "limit", 413, request.id)
      BY <1>9, <2>2 DEF Receive, ReplyError, _request_id
    <3>2. request' \in Requests /\ request'.at = "routes" /\ request'.id = request.id
          /\ request'.read = request.read
      BY <1>0, <2>0, <2>1, <3>1 DEF Requests
    <3>3. "limit" \in Answerers /\ 413 \in Nat
      BY Literals, Zenon
    <3>4. /\ response' \in Responses /\ response' # NoResponse
          /\ response'.by = "limit" /\ response'.header = request.id
      BY <1>0, <3>1, <3>3, AnswerIs
    <3>5. Counted' /\ Placed' /\ Traceable'
      BY <2>1, <3>2, <3>4 DEF Counted, Placed, Traceable
    <3> QED
      BY <3>2, <3>4, <3>5 DEF GateInv
  <2>3. CASE ~limited_receive(request.sent, n)
    <3>1. request' = [request EXCEPT !.sent = @ + n, !.read = @ + n]
          /\ UNCHANGED response
      BY <1>9, <2>3 DEF Receive
    <3>2. request.sent + n <= MaxBytes /\ request.sent + n \in Nat /\ request.read + n \in Nat
      BY <2>0, <2>1, <2>3, GateNumbers DEF limited_receive
    <3>3. request' \in Requests /\ request'.at = "routes" /\ request'.id = request.id
          /\ request'.read = request.read + n /\ request'.sent = request.sent + n
      BY <1>0, <2>1, <3>1, <3>2 DEF Requests
    <3>4. Counted' /\ Placed' /\ Traceable'
      BY <2>1, <3>1, <3>2, <3>3 DEF Counted, Placed, Traceable
    <3> QED
      BY <2>1, <3>1, <3>3, <3>4 DEF GateInv
  <2> QED
    BY <2>2, <2>3
<1>10. ASSUME BodyRead PROVE GateInv'
  <2>1. response = NoResponse /\ request.id # NoId /\ request.read = request.sent
        /\ request.length \in {Chunked, request.sent} /\ request.read <= MaxBytes
    BY <1>0, <1>10 DEF BodyRead, Open, Placed, Counted
  <2>2. request' = [request EXCEPT !.at = "keys"] /\ response' = NoResponse
    BY <1>10, <2>1 DEF BodyRead
  <2>3. request' \in Requests /\ request'.at = "keys" /\ request'.id = request.id
        /\ request'.length = request.length
        /\ request'.sent = request.sent /\ request'.read = request.read
    BY <1>0, <2>2 DEF Requests, Places
  <2>4. Counted' /\ Placed' /\ Traceable'
    BY <2>1, <2>2, <2>3 DEF Counted, Placed, Traceable, Chunked
  <2> QED
    BY <2>2, <2>3, <2>4 DEF GateInv
<1>11. ASSUME KeyAccepted PROVE GateInv'
  <2>1. response = NoResponse /\ request.id # NoId /\ request.read = request.sent
        /\ request.length \in {Chunked, request.sent} /\ request.read <= MaxBytes
    BY <1>0, <1>11 DEF KeyAccepted, Open, Placed, Counted
  <2>2. request' = [request EXCEPT !.at = "handler"] /\ response' = NoResponse
    BY <1>11, <2>1 DEF KeyAccepted
  <2>3. request' \in Requests /\ request'.at = "handler" /\ request'.id = request.id
        /\ request'.length = request.length
        /\ request'.sent = request.sent /\ request'.read = request.read
    BY <1>0, <2>2 DEF Requests, Places
  <2>4. Counted' /\ Placed' /\ Traceable'
    BY <2>1, <2>2, <2>3 DEF Counted, Placed, Traceable, Chunked
  <2> QED
    BY <2>2, <2>3, <2>4 DEF GateInv
<1>12. ASSUME KeyRefused PROVE GateInv'
  <2>1. response = NoResponse /\ request.at = "keys" /\ request.id # NoId /\ UNCHANGED request
    BY <1>0, <1>12 DEF KeyRefused, Open, Placed
  <2>2. \/ Reply("routes", "keys", 401, request.id) \/ Reply("routes", "keys", 403, request.id)
        \/ Reply("routes", "keys", 503, request.id)
    BY <1>12 DEF KeyRefused, ReplyError, _request_id
  <2>3. "keys" \in Answerers /\ 401 \in Nat /\ 403 \in Nat /\ 503 \in Nat
    BY Literals, Zenon
  <2>4. /\ response' \in Responses /\ response' # NoResponse
        /\ response'.by = "keys" /\ response'.header = request.id
    BY <1>0, <2>2, <2>3, AnswerIs
  <2> QED
    BY <2>1, <2>4, StepReply
<1>13. ASSUME Validation \/ RateLimited \/ Handle PROVE GateInv'
  <2>1. response = NoResponse /\ request.at = "handler" /\ request.id # NoId /\ UNCHANGED request
    BY <1>0, <1>13 DEF Validation, RateLimited, Handle, Open, Placed
  <2>2. \/ Reply("routes", "routes", 422, request.id) \/ Reply("routes", "routes", 429, NoId)
        \/ Reply("routes", "handler", 200, NoId) \/ Reply("routes", "handler", 404, request.id)
    BY <1>13 DEF Validation, RateLimited, Handle, ReplyError, _request_id
  <2>3. "routes" \in Answerers /\ "handler" \in Answerers
        /\ 422 \in Nat /\ 429 \in Nat /\ 200 \in Nat /\ 404 \in Nat
    BY Literals, Zenon
  <2>4. /\ response' \in Responses /\ response' # NoResponse
        /\ response'.header = request.id
    BY <1>0, <2>2, <2>3, AnswerIs
  <2> QED
    BY <2>1, <2>4, StepReply
<1>14. ASSUME Unhandled PROVE GateInv'
  <2>1. response = NoResponse /\ request.at = "handler" /\ request.id # NoId /\ UNCHANGED request
        /\ request.id \in Ids \cup {Fresh, NoId}
    BY <1>0, <1>14 DEF Unhandled, Open, Placed, Requests
  <2>2. response' = [by |-> "handler", status |-> 500, header |-> NoId, envelope |-> request.id]
    BY <1>14, <2>1 DEF Unhandled, _request_id
  <2>3. response' \in Responses /\ response'.envelope = request.id
    BY <2>1, <2>2, Literals DEF Responses
  <2>4. response' # NoResponse
    BY <2>3, GateAssumption DEF Responses, Answerers
  <2> QED
    BY <2>1, <2>3, <2>4, StepReply
<1> QED
  BY <1>1, <1>2, <1>3, <1>4, <1>5, <1>6, <1>7, <1>8, <1>9, <1>10, <1>11, <1>12, <1>13, <1>14
     DEF GateNext

\* What arrived, where the request is and who answered it fit together.
THEOREM GateCorrect == GateSpec => []GateInv
<1> QED
  BY InitGate, StepGate, PTL DEF GateSpec

\* A length is declared within the bound or not at all, no more is sent than that,
\* and there is no id before the layer that gives it.
GateForm ==
  /\ deployment \subseteq {"cors", "https"}
  /\ request.length \in 0 .. Chunked /\ request.sent \in 0 .. MaxSent
  /\ request.at \in {"none", "cors", "request id"} => request.id = NoId

LEMMA StepForm == GateInv /\ GateForm /\ [GateNext]_gateVars => GateForm'
<1> SUFFICES ASSUME GateInv, GateForm, [GateNext]_gateVars PROVE GateForm'
  OBVIOUS
<1>0. request \in Requests
  BY DEF GateInv
<1>1. ASSUME UNCHANGED <<deployment, request>> PROVE GateForm'
  BY <1>1 DEF GateForm
<1>2. ASSUME NEW layers \in SUBSET {"cors", "https"}, Deploy(layers) PROVE GateForm'
  BY <1>2 DEF Deploy, GateForm
<1>3. ASSUME NEW preflight \in BOOLEAN, NEW length \in 0 .. Chunked, NEW inbound \in Ids \cup {NoId},
             Arrive(preflight, length, inbound)
      PROVE  GateForm'
  <2>1. /\ request'.length = length /\ request'.sent = 0 /\ request'.id = NoId
        /\ deployment' = deployment
    BY <1>3 DEF Arrive, NoRequestYet
  <2>2. 0 \in 0 .. MaxSent
    BY GateNumbers
  <2> QED
    BY <2>1, <2>2 DEF GateForm
<1>4. ASSUME NEW l \in {"cors", "request id", "body limit", "security headers", "https"},
             NEW r \in Requests, Inward(l, r), r.length = request.length, r.sent = request.sent,
             l = "cors" => r.id = NoId
      PROVE  GateForm'
  <2>1. /\ deployment' = deployment /\ request'.length = request.length
        /\ request'.sent = request.sent /\ request'.id = r.id
        /\ request'.at \notin {"none", "cors"} /\ (l # "cors" => request'.at # "request id")
    BY <1>4, InwardIs
  <2> QED
    BY <1>4, <2>1 DEF GateForm
<1>5. ASSUME Cors PROVE GateForm'
  <2>1. request.id = NoId
    BY <1>5 DEF Cors, Open, GateForm
  <2> QED
    BY <1>0, <1>1, <1>4, <1>5, <2>1 DEF Cors
<1>6. ASSUME RequestID PROVE GateForm'
  <2> DEFINE r == [request EXCEPT !.id = IF request.inbound # NoId THEN request.inbound ELSE Fresh]
  <2>1. r \in Requests /\ r.length = request.length /\ r.sent = request.sent
    BY <1>0 DEF Requests
  <2>2. Inward("request id", r)
    BY <1>6 DEF RequestID
  <2> HIDE DEF r
  <2> QED
    BY <1>4, <2>1, <2>2
<1>7. ASSUME BodySizeLimit \/ SecurityHeaders \/ \E secure \in BOOLEAN : HTTPSEnforcement(secure)
      PROVE  GateForm'
  <2>1. \/ Inward("body limit", request) \/ Inward("security headers", request)
        \/ Inward("https", request) \/ UNCHANGED <<deployment, request>>
    BY <1>7 DEF BodySizeLimit, SecurityHeaders, HTTPSEnforcement
  <2> QED
    BY <1>0, <1>1, <1>4, <2>1
<1>8. ASSUME NEW n \in 1 .. MaxSent, Receive(n) PROVE GateForm'
  <2>1. /\ request.at = "routes" /\ deployment' = deployment /\ request.sent \in Nat
        /\ request.length \in 0 .. Chunked /\ n \in Nat
        /\ request.sent + n <= IF request.length = Chunked THEN MaxSent ELSE request.length
    BY <1>0, <1>8, GateNumbers DEF Receive, Open, Requests, GateForm
  <2>2. request.sent + n \in 0 .. MaxSent
    BY <2>1, GateNumbers DEF Chunked
  <2>3. \/ request' = [request EXCEPT !.sent = @ + n]
        \/ request' = [request EXCEPT !.sent = @ + n, !.read = @ + n]
    BY <1>8 DEF Receive
  <2>4. request'.sent = request.sent + n /\ request'.length = request.length
        /\ request'.at = request.at
    BY <1>0, <2>3 DEF Requests
  <2> QED
    BY <2>1, <2>2, <2>4 DEF GateForm
<1>9. ASSUME BodyRead \/ KeyAccepted PROVE GateForm'
  <2>1. deployment' = deployment
        /\ \E at \in {"keys", "handler"} : request' = [request EXCEPT !.at = at]
    BY <1>9 DEF BodyRead, KeyAccepted
  <2>2. request'.sent = request.sent /\ request'.length = request.length
        /\ request'.at \in {"keys", "handler"}
    BY <1>0, <2>1 DEF Requests
  <2> QED
    BY <2>1, <2>2 DEF GateForm
<1>10. ASSUME KeyRefused \/ Validation \/ RateLimited \/ Handle \/ Unhandled \/ UNCHANGED gateVars
       PROVE  GateForm'
  BY <1>1, <1>10 DEF KeyRefused, Validation, RateLimited, Handle, Unhandled, gateVars
<1> QED
  BY <1>2, <1>3, <1>5, <1>6, <1>7, <1>8, <1>9, <1>10 DEF GateNext

\* A request is in a layer of the stack, at the keys or at the handler, has an id from
\* the second layer on, and at most as many bytes arrive as it may have.
THEOREM GateTypeCorrect == GateSpec => []GateTypeOK
<1>1. GateInit => GateForm
  BY GateNumbers DEF GateInit, GateForm, NoRequestYet
<1>2. GateInv /\ GateForm => GateTypeOK
  <2> SUFFICES ASSUME GateInv, GateForm PROVE GateTypeOK
    OBVIOUS
  <2>1. 1 \in DOMAIN Layers /\ 2 \in DOMAIN Layers /\ 3 \in DOMAIN Layers
        /\ 4 \in DOMAIN Layers /\ 5 \in DOMAIN Layers /\ 6 \in DOMAIN Layers
    <3>1. DOMAIN Layers = 1 .. 6
      BY LayersAre
    <3> QED
      BY <3>1
  <2>2. {"cors", "request id", "body limit", "security headers", "https", "routes"}
          \subseteq {Layers[k] : k \in DOMAIN Layers}
    BY <2>1, LayersAre
  <2>3. request.at \in Places /\ request.id \in Ids \cup {Fresh, NoId} /\ Placed
    BY DEF GateInv, Requests
  <2>4. request.at \in {Layers[k] : k \in DOMAIN Layers} \cup {"none", "keys", "handler"}
    BY <2>2, <2>3 DEF Places
  <2> QED
    BY <2>3, <2>4 DEF GateForm, GateTypeOK, Placed
<1> QED
  BY GateCorrect, StepForm, <1>1, <1>2, PTL DEF GateSpec

\* A handler works on the whole body and never on more than the limit
\* (limited_receive of the body limit, for any sizes of body, chunk and limit).
THEOREM WholeBodyCorrect == GateSpec => []WholeBodyWithinLimit
<1>1. GateInv => WholeBodyWithinLimit
  BY DEF GateInv, Counted, Placed, WholeBodyWithinLimit
<1> QED
  BY GateCorrect, <1>1, PTL

\* Every error names the id of the request, whichever layer or handler wrote it.
THEOREM TraceableCorrect == GateSpec => []Traceable
<1>1. GateInv => Traceable
  BY DEF GateInv
<1> QED
  BY GateCorrect, <1>1, PTL

(***************************************************************************)
(* The host of the models.                                                 *)
(***************************************************************************)

Waiting == explanation.step \in {"embed", "search", "read", "generate"}

\* A question without an excuse has a host to wait for.
HostIsUp ==
  /\ Waiting /\ ~explanation.excused => healthy # {} /\ ~lapsed
  /\ resolved # NoHost /\ ~lapsed => resolved \in healthy

\* The search for a host has not passed the last one that answers.
HostIsAhead ==
  Waiting /\ ~explanation.excused /\ resolved = NoHost =>
    \E i \in 1 .. Len(OLLAMA_HOSTS) : i > explanation.asked /\ OLLAMA_HOSTS[i] \in healthy

ExplainInv == ExplanationsTypeOK /\ HostIsUp /\ HostIsAhead /\ ExplainsUnlessDown

Explained ==
  [step : {"none", "embed", "search", "read", "generate", "done"},
   asked : 0 .. Len(OLLAMA_HOSTS), excused : BOOLEAN,
   result : {"none", "explanation", "no history", "invalid", "model error", "server error"}]

LEMMA HostsAre ==
  /\ Len(OLLAMA_HOSTS) \in Nat
  /\ Hosts = {OLLAMA_HOSTS[i] : i \in 1 .. Len(OLLAMA_HOSTS)}
  /\ MaxStops \in Nat
BY ExplanationsAssumption DEF Hosts

LEMMA HostCount == Len(OLLAMA_HOSTS) \in Nat /\ 0 \in 0 .. Len(OLLAMA_HOSTS)
<1>1. Len(OLLAMA_HOSTS) \in Nat
  BY HostsAre
<1> QED
  BY <1>1

\* The position after the last one that was asked.
LEMMA NextPosition ==
  ASSUME NEW n \in Nat, NEW a \in 0 .. n
  PROVE  /\ a + 1 \in Nat /\ (a + 1 > n \/ a + 1 \in 1 .. n)
         /\ a + 1 > n => \A i \in 1 .. n : ~(i > a)
         /\ ~(a + 1 > n) => a + 1 \in 0 .. n
         /\ \A i \in 1 .. n : i > a /\ i # a + 1 => i > a + 1
OBVIOUS

LEMMA SomeHost ==
  ASSUME NEW S \in SUBSET Hosts, S # {}
  PROVE  \E i \in 1 .. Len(OLLAMA_HOSTS) : i > 0 /\ OLLAMA_HOSTS[i] \in S
<1>1. PICK h \in S : h \in Hosts
  OBVIOUS
<1>2. PICK i \in 1 .. Len(OLLAMA_HOSTS) : h = OLLAMA_HOSTS[i]
  BY <1>1, HostsAre
<1>3. i > 0
  BY HostsAre
<1> QED
  BY <1>1, <1>2, <1>3

LEMMA InitExplain == ExplanationsInit => ExplainInv
<1> SUFFICES ASSUME ExplanationsInit PROVE ExplainInv
  OBVIOUS
<1>1. explanation = NotYet /\ healthy = {} /\ resolved = NoHost /\ lapsed = FALSE /\ stops = 0
  BY DEF ExplanationsInit
<1>2. ExplanationsTypeOK
  <2>1. stops \in 0 .. MaxStops
    BY <1>1, HostsAre
  <2>2. explanation \in Explained
    BY <1>1, HostCount DEF NotYet, Explained
  <2> QED
    BY <1>1, <2>1, <2>2 DEF ExplanationsTypeOK, Explained
<1>3. explanation.step = "none"
  BY <1>1 DEF NotYet
<1> QED
  BY <1>1, <1>2, <1>3 DEF ExplainInv, Waiting, HostIsUp, HostIsAhead, ExplainsUnlessDown

\* A question that goes on to a step, or ends.
LEMMA StepGoOn ==
  ASSUME ExplainInv, Waiting, NEW step \in {"search", "read", "generate"}, GoOn(step),
         UNCHANGED <<healthy, resolved, lapsed, stops>>
  PROVE  ExplainInv'
<1>1. explanation \in Explained
  BY DEF ExplainInv, ExplanationsTypeOK, Explained
<1>2. explanation' \in Explained /\ explanation'.step = step /\ explanation'.asked = 0
      /\ explanation'.excused = explanation.excused
  BY <1>1, HostCount DEF GoOn, Explained
<1>3. HostIsUp'
  BY <1>2 DEF ExplainInv, HostIsUp, Waiting
<1>4. HostIsAhead'
  BY <1>2, <1>3, SomeHost DEF ExplainInv, ExplanationsTypeOK, HostIsUp, HostIsAhead, Waiting
<1>5. ExplainsUnlessDown'
  BY <1>2 DEF ExplainsUnlessDown
<1> QED
  BY <1>2, <1>3, <1>4, <1>5 DEF ExplainInv, ExplanationsTypeOK, Explained

LEMMA StepConclude ==
  ASSUME ExplainInv, Waiting, NEW excused \in BOOLEAN,
         NEW result \in {"explanation", "no history", "invalid", "model error", "server error"},
         Conclusion(result, excused), UNCHANGED <<healthy, resolved, lapsed, stops>>,
         result = "explanation" \/ excused \/ explanation.excused
  PROVE  ExplainInv'
<1>1. explanation \in Explained
  BY DEF ExplainInv, ExplanationsTypeOK, Explained
<1>2. explanation' \in Explained /\ explanation'.step = "done" /\ explanation'.result = result
      /\ explanation'.excused = (explanation.excused \/ excused)
  BY <1>1 DEF Conclusion, Explained
<1>3. HostIsUp' /\ HostIsAhead' /\ ExplainsUnlessDown'
  BY <1>2 DEF ExplainInv, HostIsUp, HostIsAhead, ExplainsUnlessDown, Waiting
<1> QED
  BY <1>2, <1>3 DEF ExplainInv, ExplanationsTypeOK, Explained

\* A host of the list is asked.
LEMMA StepResolve ==
  ASSUME ExplainInv, Waiting, NEW result \in {"no history", "model error"},
         resolve_ollama_host(result)
  PROVE  ExplainInv'
<1> DEFINE k == explanation.asked + 1
<1>0. explanation \in Explained /\ resolved = NoHost /\ UNCHANGED <<healthy, stops>>
  BY DEF ExplainInv, ExplanationsTypeOK, Explained, resolve_ollama_host
<1>1. explanation.asked \in 0 .. Len(OLLAMA_HOSTS)
  BY <1>0 DEF Explained
<1> DEFINE n == Len(OLLAMA_HOSTS)
<1>2. /\ k > n => \A i \in 1 .. n : ~(i > explanation.asked)
      /\ ~(k > n) => k \in 0 .. n
      /\ \A i \in 1 .. n : i > explanation.asked /\ i # k => i > k
  BY <1>1, HostCount, NextPosition
<1>3. \/ /\ k > n /\ Conclusion(result, FALSE) /\ UNCHANGED <<resolved, lapsed>>
      \/ /\ ~(k > n) /\ OLLAMA_HOSTS[k] \in healthy
         /\ resolved' = OLLAMA_HOSTS[k] /\ lapsed' = FALSE /\ UNCHANGED explanation
      \/ /\ ~(k > n) /\ OLLAMA_HOSTS[k] \notin healthy
         /\ explanation' = [explanation EXCEPT !.asked = k] /\ UNCHANGED <<resolved, lapsed>>
  BY Zenon DEF resolve_ollama_host, answers
<1> HIDE DEF k, n
<1>4. CASE k > n /\ Conclusion(result, FALSE) /\ UNCHANGED <<resolved, lapsed>>
  <2>1. explanation.excused
    BY <1>0, <1>2, <1>4 DEF ExplainInv, HostIsAhead, n
  <2> QED
    BY <1>0, <1>4, <2>1, StepConclude
<1>5. CASE /\ ~(k > n) /\ OLLAMA_HOSTS[k] \in healthy
           /\ resolved' = OLLAMA_HOSTS[k] /\ lapsed' = FALSE /\ UNCHANGED explanation
  <2>1. HostIsUp' /\ ExplainsUnlessDown'
    BY <1>0, <1>5 DEF ExplainInv, HostIsUp, ExplainsUnlessDown, Waiting
  <2>2. HostIsAhead'
    BY <1>0, <1>5 DEF ExplainInv, HostIsAhead, Waiting
  <2>3. ExplanationsTypeOK'
    BY <1>0, <1>5 DEF ExplainInv, ExplanationsTypeOK
  <2> QED
    BY <2>1, <2>2, <2>3 DEF ExplainInv
<1>6. CASE /\ ~(k > n) /\ OLLAMA_HOSTS[k] \notin healthy
           /\ explanation' = [explanation EXCEPT !.asked = k] /\ UNCHANGED <<resolved, lapsed>>
  <2>1. k \in 0 .. Len(OLLAMA_HOSTS)
    BY <1>2, <1>6 DEF n
  <2>2. explanation' \in Explained /\ explanation'.asked = k
        /\ explanation'.step = explanation.step /\ explanation'.excused = explanation.excused
        /\ explanation'.result = explanation.result
    BY <1>0, <1>6, <2>1 DEF Explained
  <2>3. HostIsUp' /\ ExplainsUnlessDown'
    BY <1>0, <1>6, <2>2 DEF ExplainInv, HostIsUp, ExplainsUnlessDown, Waiting
  <2>4. HostIsAhead'
    <3> SUFFICES ASSUME ~explanation.excused
                 PROVE  \E i \in 1 .. n : i > k /\ OLLAMA_HOSTS[i] \in healthy
      BY <1>0, <2>2 DEF HostIsAhead, n
    <3>1. PICK i \in 1 .. n : i > explanation.asked /\ OLLAMA_HOSTS[i] \in healthy
      BY <1>0 DEF ExplainInv, HostIsAhead, n
    <3>2. i # k
      BY <1>6, <3>1
    <3> QED
      BY <1>2, <3>1, <3>2
  <2> QED
    BY <1>0, <1>6, <2>2, <2>3, <2>4 DEF ExplainInv, ExplanationsTypeOK, Explained
<1> QED
  BY <1>3, <1>4, <1>5, <1>6

LEMMA StepExplain == ExplainInv /\ [ExplanationsNext]_explanationVars => ExplainInv'
<1> SUFFICES ASSUME ExplainInv, [ExplanationsNext]_explanationVars PROVE ExplainInv'
  OBVIOUS
<1>0. explanation \in Explained /\ healthy \subseteq Hosts /\ HostIsUp /\ HostIsAhead
      /\ lapsed \in BOOLEAN
  BY DEF ExplainInv, ExplanationsTypeOK, Explained
<1>1. CASE UNCHANGED explanationVars
  BY <1>1 DEF explanationVars, ExplainInv, ExplanationsTypeOK, HostIsUp, HostIsAhead,
     ExplainsUnlessDown, Waiting
<1>2. ASSUME Explain PROVE ExplainInv'
  <2>1. UNCHANGED <<healthy, resolved, lapsed, stops>>
    BY <1>2 DEF Explain
  <2>2. (healthy = {} \/ lapsed) \in BOOLEAN
    OBVIOUS
  <2>3. explanation' = [step |-> "embed", asked |-> 0, result |-> "none",
                        excused |-> healthy = {} \/ lapsed]
    BY <1>2 DEF Explain, NotYet
  <2>4. explanation' \in Explained /\ explanation'.step = "embed" /\ explanation'.asked = 0
        /\ explanation'.excused = (healthy = {} \/ lapsed)
    BY <2>2, <2>3, HostCount DEF Explained
  <2>5. HostIsUp'
    BY <1>0, <2>1, <2>4 DEF HostIsUp, Waiting
  <2>6. HostIsAhead'
    BY <1>0, <2>1, <2>4, SomeHost DEF HostIsAhead
  <2>7. ExplainsUnlessDown'
    BY <2>4 DEF ExplainsUnlessDown
  <2> QED
    BY <2>1, <2>4, <2>5, <2>6, <2>7 DEF ExplainInv, ExplanationsTypeOK, Explained
<1>3. ASSUME EmbedQuery PROVE ExplainInv'
  <2>1. Waiting
    BY <1>3 DEF EmbedQuery, Doing, Waiting
  <2>2. CASE resolve_ollama_host("no history")
    BY <2>1, <2>2, StepResolve
  <2>3. CASE /\ resolved # NoHost
             /\ \/ resolved \in healthy /\ GoOn("search")
                \/ resolved \notin healthy /\ Conclusion("no history", FALSE)
                \/ Conclusion("no history", TRUE)
             /\ UNCHANGED <<healthy, resolved, lapsed, stops>>
    <3>1. CASE GoOn("search")
      BY <2>1, <2>3, <3>1, StepGoOn
    <3>2. CASE resolved \notin healthy /\ Conclusion("no history", FALSE)
      <4>1. explanation.excused
        BY <1>0, <2>1, <2>3, <3>2 DEF HostIsUp, Explained
      <4> QED
        BY <2>1, <2>3, <3>2, <4>1, StepConclude
    <3>3. CASE Conclusion("no history", TRUE)
      BY <2>1, <2>3, <3>3, StepConclude
    <3> QED
      BY <2>3, <3>1, <3>2, <3>3
  <2> QED
    BY <1>3, <2>2, <2>3 DEF EmbedQuery
<1>4. ASSUME find_similar_behaviors PROVE ExplainInv'
  <2>1. Waiting
    BY <1>4 DEF find_similar_behaviors, Doing, Waiting
  <2> QED
    BY <1>4, <2>1, StepGoOn, StepConclude DEF find_similar_behaviors
<1>5. ASSUME fetch_grounded_context PROVE ExplainInv'
  <2>1. Waiting
    BY <1>5 DEF fetch_grounded_context, Doing, Waiting
  <2> QED
    BY <1>5, <2>1, StepGoOn, StepConclude DEF fetch_grounded_context
<1>6. ASSUME generate_explanation PROVE ExplainInv'
  <2>1. Waiting
    BY <1>6 DEF generate_explanation, Doing, Waiting
  <2>2. CASE resolve_ollama_host("model error")
    BY <2>1, <2>2, StepResolve
  <2>3. CASE /\ resolved # NoHost
             /\ \/ resolved \in healthy /\ validate_llm_output
                \/ resolved \notin healthy /\ Conclusion("model error", FALSE)
                \/ Conclusion("model error", TRUE)
             /\ UNCHANGED <<healthy, resolved, lapsed, stops>>
    <3>1. CASE validate_llm_output
      BY <2>1, <2>3, <3>1, StepConclude DEF validate_llm_output
    <3>2. CASE resolved \notin healthy /\ Conclusion("model error", FALSE)
      <4>1. explanation.excused
        BY <1>0, <2>1, <2>3, <3>2 DEF HostIsUp, Explained
      <4> QED
        BY <2>1, <2>3, <3>2, <4>1, StepConclude
    <3>3. CASE Conclusion("model error", TRUE)
      BY <2>1, <2>3, <3>3, StepConclude
    <3> QED
      BY <2>3, <3>1, <3>2, <3>3
  <2> QED
    BY <1>6, <2>2, <2>3 DEF generate_explanation
<1>7. ASSUME NEW h \in Hosts, HostStops(h) PROVE ExplainInv'
  <2>1. healthy' = healthy \ {h} /\ UNCHANGED resolved /\ lapsed' = (lapsed \/ h = resolved)
    BY <1>7 DEF HostStops
  <2>2. stops' \in 0 .. MaxStops
    <3>1. stops \in 0 .. MaxStops /\ stops < MaxStops /\ stops' = stops + 1
      BY <1>7 DEF HostStops, ExplainInv, ExplanationsTypeOK
    <3>2. MaxStops \in Nat
      BY HostsAre
    <3> QED
      BY <3>1, <3>2
  <2>3. explanation' = [explanation EXCEPT !.excused = @ \/ explanation.step # "done"]
    BY <1>7 DEF HostStops
  <2>4. explanation' \in Explained /\ explanation'.step = explanation.step
        /\ explanation'.result = explanation.result
        /\ explanation'.excused = (explanation.excused \/ explanation.step # "done")
    BY <1>0, <2>3 DEF Explained
  <2>5. HostIsUp' /\ HostIsAhead'
    BY <1>0, <2>1, <2>4 DEF HostIsUp, HostIsAhead, Waiting
  <2>6. ExplainsUnlessDown'
    BY <2>4 DEF ExplainInv, ExplainsUnlessDown
  <2> QED
    BY <1>0, <2>1, <2>2, <2>4, <2>5, <2>6 DEF ExplainInv, ExplanationsTypeOK, Explained
<1>8. ASSUME NEW h \in Hosts, HostStarts(h) PROVE ExplainInv'
  <2>1. healthy' = healthy \cup {h} /\ UNCHANGED <<resolved, lapsed, stops, explanation>>
    BY <1>8 DEF HostStarts
  <2>2. HostIsUp' /\ HostIsAhead' /\ ExplainsUnlessDown'
    BY <1>0, <2>1 DEF ExplainInv, HostIsUp, HostIsAhead, Waiting, ExplainsUnlessDown
  <2> QED
    BY <1>0, <2>1, <2>2 DEF ExplainInv, ExplanationsTypeOK
<1>9. ASSUME RestartProcess PROVE ExplainInv'
  <2>1. resolved' = NoHost /\ lapsed' = FALSE /\ explanation' = NotYet /\ UNCHANGED <<healthy, stops>>
    BY <1>9 DEF RestartProcess
  <2>2. explanation' \in Explained /\ explanation'.step = "none"
    BY <2>1, HostCount DEF NotYet, Explained
  <2>3. HostIsUp' /\ HostIsAhead' /\ ExplainsUnlessDown'
    BY <2>1, <2>2 DEF HostIsUp, HostIsAhead, Waiting, ExplainsUnlessDown
  <2> QED
    BY <1>0, <2>1, <2>2, <2>3 DEF ExplainInv, ExplanationsTypeOK, Explained
<1> QED
  BY <1>1, <1>2, <1>3, <1>4, <1>5, <1>6, <1>7, <1>8, <1>9 DEF ExplanationsNext

\* A question is failed for the lack of a host only with an excuse: for any list
\* of hosts and however they come and go, the search does not miss the one that
\* answers (resolve_ollama_host and explain_transaction).
THEOREM ExplainsCorrect == ExplanationsSpec => []ExplainsUnlessDown
<1>1. ExplainInv => ExplainsUnlessDown
  BY DEF ExplainInv
<1> QED
  BY InitExplain, StepExplain, <1>1, PTL DEF ExplanationsSpec

(***************************************************************************)
(* Facts about finite data: a recursively defined function has the values  *)
(* its definition says, which the provers only see by the least argument   *)
(* for which it would not.                                                 *)
(***************************************************************************)

\* A set of numbers has a least one, and a set of finite sets one without a smaller.
LEMMA LeastNumber ==
  ASSUME NEW T, T \subseteq Nat, T # {}
  PROVE  \E n \in T : \A k \in T : n <= k
<1>1. PICK n \in T : \A k \in T : ~(<<k, n>> \in OpToRel(<, Nat))
  BY NatLessThanWellFounded, WFMin
<1>2. \A k \in T : ~(k < n)
  BY <1>1 DEF OpToRel
<1> QED
  BY <1>2

LEMMA SubsetInduction ==
  ASSUME NEW S, IsFiniteSet(S), NEW C, C \subseteq SUBSET S,
         \A m \in SUBSET S : (\A k \in SUBSET S : k \subseteq m /\ k # m => k \in C) => m \in C
  PROVE  C = SUBSET S
<1> DEFINE D == (SUBSET S) \ C
<1> SUFFICES ASSUME D # {} PROVE FALSE
  OBVIOUS
<1>0. D \subseteq SUBSET S
  OBVIOUS
<1> HIDE DEF D
<1>1. IsWellFoundedOn(StrictSubsetOrdering(S), SUBSET S)
  BY FS_StrictSubsetOrderingWellFounded, FS_FiniteSubsetsOfFinite
<1>2. PICK m \in D : \A k \in D : ~(<<k, m>> \in StrictSubsetOrdering(S))
  BY <1>0, <1>1, WFMin
<1>3. \A k \in SUBSET S : k \subseteq m /\ k # m => k \in C
  BY <1>0, <1>2 DEF StrictSubsetOrdering, D
<1>4. m \in SUBSET S
  BY <1>0, <1>2
<1>5. m \in C
  BY <1>3, <1>4, Zenon
<1> QED
  BY <1>2, <1>5 DEF D

(***************************************************************************)
(* The reading of a statement.                                             *)
(***************************************************************************)

First(s) == CHOOSE x \in s : TRUE

\* f sums up the amounts of the payments in the sets of D, one after the other.
SumsOn(ps, D, f) ==
  f = [s \in D |-> IF s = {} THEN 0
                   ELSE ps[First(s)].amount + f[s \ {First(s)}]]

Sums(ps, A, f) == SumsOn(ps, SUBSET A, f)

Sized(S, n) == {s \in SUBSET S : Cardinality(s) <= n}

LEMMA SizedMore ==
  ASSUME NEW S, IsFiniteSet(S), NEW n \in Nat, NEW s \in Sized(S, n + 1), NEW x \in s
  PROVE  s \ {x} \in Sized(S, n)
<1>1. IsFiniteSet(s) /\ s \subseteq S /\ Cardinality(s) <= n + 1 /\ Cardinality(s) \in Nat
  BY FS_Subset, FS_CardinalityType DEF Sized
<1>2. Cardinality(s \ {x}) = Cardinality(s) - 1
  BY <1>1, FS_RemoveElement
<1> QED
  BY <1>1, <1>2 DEF Sized

LEMMA SumsBegin ==
  ASSUME NEW ps, NEW S, IsFiniteSet(S)
  PROVE  \E f : SumsOn(ps, Sized(S, 0), f)
<1>1. \A s \in Sized(S, 0) : s = {}
  BY FS_Subset, FS_CardinalityType, FS_EmptySet DEF Sized
<1>2. SumsOn(ps, Sized(S, 0), [s \in Sized(S, 0) |-> 0])
  BY <1>1 DEF Sums, SumsOn
<1> QED
  BY <1>2

LEMMA SumsExtend ==
  ASSUME NEW ps, NEW S, IsFiniteSet(S), NEW n \in Nat, NEW f, SumsOn(ps, Sized(S, n), f)
  PROVE  \E g : SumsOn(ps, Sized(S, n + 1), g)
<1> DEFINE g == [s \in Sized(S, n + 1) |-> IF s = {} THEN 0
                   ELSE ps[First(s)].amount + f[s \ {First(s)}]]
<1>1. Sized(S, n) \subseteq Sized(S, n + 1)
  BY FS_Subset, FS_CardinalityType DEF Sized
<1>2. \A s \in Sized(S, n) : g[s] = f[s]
  BY <1>1 DEF Sums, SumsOn
<1>3. \A s \in Sized(S, n + 1) : s # {} => g[s \ {First(s)}] = f[s \ {First(s)}]
  BY <1>2, SizedMore DEF First
<1>4. SumsOn(ps, Sized(S, n + 1), g)
  <2> HIDE DEF g
  <2>1. g = [s \in Sized(S, n + 1) |-> IF s = {} THEN 0
               ELSE ps[First(s)].amount + g[s \ {First(s)}]]
    BY <1>3 DEF g
  <2> QED
    BY <2>1 DEF Sums, SumsOn
<1> QED
  BY <1>4

LEMMA SumsExist ==
  ASSUME NEW ps, NEW S, IsFiniteSet(S)
  PROVE  \E f : Sums(ps, S, f)
<1> DEFINE T == {n \in Nat : ~\E f : SumsOn(ps, Sized(S, n), f)}
<1>1. T = {}
  <2> SUFFICES ASSUME T # {} PROVE FALSE
    OBVIOUS
  <2>1. PICK n \in T : \A k \in T : n <= k
    BY LeastNumber
  <2>2. n # 0
    BY <2>1, SumsBegin
  <2>3. n - 1 \in Nat /\ n - 1 \notin T /\ (n - 1) + 1 = n
    BY <2>1, <2>2
  <2> QED
    BY <2>1, <2>3, SumsExtend
<1>2. \A n \in Nat : \E f : SumsOn(ps, Sized(S, n), f)
  BY <1>1
<1> HIDE DEF T
<1>3. Cardinality(S) \in Nat /\ Sized(S, Cardinality(S)) = SUBSET S
  BY FS_Subset, FS_CardinalityType DEF Sized
<1> QED
  BY <1>2, <1>3 DEF Sums

Amounts(ps, A) == \A i \in A : ps[i].amount \in Nat \ {0}

LEMMA SumIs ==
  ASSUME NEW ps, NEW A, NEW f, Sums(ps, A, f), NEW s, s \subseteq A
  PROVE  f[s] = IF s = {} THEN 0 ELSE ps[First(s)].amount + f[s \ {First(s)}]
BY DEF Sums, SumsOn

LEMMA FirstIs == \A s : s # {} => First(s) \in s
BY DEF First

LEMMA SumPositive ==
  ASSUME NEW ps, NEW A, IsFiniteSet(A), Amounts(ps, A), NEW f, Sums(ps, A, f)
  PROVE  \A s \in SUBSET A : f[s] \in Nat /\ (s # {} => f[s] > 0)
<1> DEFINE C == {s \in SUBSET A : f[s] \in Nat /\ (s # {} => f[s] > 0)}
<1>1. ASSUME NEW m \in SUBSET A, \A k \in SUBSET A : k \subseteq m /\ k # m => k \in C
      PROVE  m \in C
  <2>1. CASE m = {}
    <3>1. f[m] = 0
      BY <2>1, SumIs
    <3> QED
      BY <2>1, <3>1
  <2>2. CASE m # {}
    <3> DEFINE x == First(m)
    <3>1. x \in m /\ x \in A /\ m \ {x} \in SUBSET A /\ f[m] = ps[x].amount + f[m \ {x}]
      BY <2>2, SumIs, FirstIs
    <3> HIDE DEF x
    <3>2. f[m \ {x}] \in Nat /\ ps[x].amount \in Nat \ {0}
      BY <1>1, <3>1 DEF Amounts
    <3> QED
      BY <3>1, <3>2
  <2> QED
    BY <2>1, <2>2
<1>2. C \subseteq SUBSET A
  OBVIOUS
<1> HIDE DEF C
<1>3. C = SUBSET A
  BY <1>1, <1>2, SubsetInduction
<1> QED
  BY <1>3 DEF C

\* It does not matter in which order the amounts are added, ...
LEMMA SumRemoves ==
  ASSUME NEW ps, NEW A, IsFiniteSet(A), Amounts(ps, A), NEW f, Sums(ps, A, f)
  PROVE  \A s \in SUBSET A : \A x \in s : f[s] = ps[x].amount + f[s \ {x}]
<1> DEFINE C == {s \in SUBSET A : \A x \in s : f[s] = ps[x].amount + f[s \ {x}]}
<1>1. ASSUME NEW m \in SUBSET A, \A k \in SUBSET A : k \subseteq m /\ k # m => k \in C
      PROVE  m \in C
  <2> SUFFICES ASSUME NEW x \in m PROVE f[m] = ps[x].amount + f[m \ {x}]
    OBVIOUS
  <2> DEFINE y == First(m)
  <2>1. y \in m /\ y \in A /\ m \ {y} \in SUBSET A /\ f[m] = ps[y].amount + f[m \ {y}]
    BY SumIs, FirstIs
  <2> HIDE DEF y
  <2>2. CASE x = y
    BY <2>1, <2>2
  <2>3. CASE x # y
    <3> DEFINE r == (m \ {y}) \ {x}
    <3>1. m \ {x} \in C /\ m \ {y} \in C /\ y \in m \ {x} /\ x \in m \ {y}
      BY <1>1, <2>1, <2>3
    <3>2. r = (m \ {x}) \ {y} /\ r \in SUBSET A
      OBVIOUS
    <3>3. f[m \ {y}] = ps[x].amount + f[r] /\ f[m \ {x}] = ps[y].amount + f[r]
      BY <3>1, <3>2
    <3> HIDE DEF r
    <3>4. f[r] \in Nat /\ ps[x].amount \in Nat /\ ps[y].amount \in Nat
      BY <2>1, <3>2, SumPositive DEF Amounts
    <3> QED
      BY <2>1, <3>3, <3>4
  <2> QED
    BY <2>2, <2>3
<1>2. C \subseteq SUBSET A
  OBVIOUS
<1> HIDE DEF C
<1>3. C = SUBSET A
  BY <1>1, <1>2, SubsetInduction
<1> QED
  BY <1>3 DEF C

\* ... nor in which sets the sum was formed, ...
LEMMA SumsAgree ==
  ASSUME NEW ps, NEW A, IsFiniteSet(A), NEW f, Sums(ps, A, f),
         NEW T \in SUBSET A, NEW g, Sums(ps, T, g)
  PROVE  g[T] = f[T]
<1> DEFINE C == {s \in SUBSET T : g[s] = f[s]}
<1>1. ASSUME NEW m \in SUBSET T, \A k \in SUBSET T : k \subseteq m /\ k # m => k \in C
      PROVE  m \in C
  <2>0. m \in SUBSET A
    OBVIOUS
  <2>1. CASE m = {}
    <3>1. f[m] = 0
      BY <2>0, <2>1, SumIs
    <3>2. g[m] = 0
      BY <2>1, SumIs
    <3> QED
      BY <3>1, <3>2
  <2>2. CASE m # {}
    <3>1. /\ First(m) \in m /\ m \ {First(m)} \in SUBSET A
          /\ f[m] = ps[First(m)].amount + f[m \ {First(m)}]
      BY <2>0, <2>2, SumIs, FirstIs
    <3>2. g[m] = ps[First(m)].amount + g[m \ {First(m)}] /\ m \ {First(m)} \in SUBSET T
      BY <2>2, SumIs, FirstIs
    <3>3. g[m \ {First(m)}] = f[m \ {First(m)}]
      BY <1>1, <3>1, <3>2
    <3> QED
      BY <3>1, <3>2, <3>3
  <2> QED
    BY <2>1, <2>2
<1>2. C \subseteq SUBSET T /\ IsFiniteSet(T)
  BY FS_Subset
<1> HIDE DEF C
<1>3. C = SUBSET T
  BY <1>1, <1>2, SubsetInduction
<1> QED
  BY <1>3 DEF C

\* ... and every payment more makes it larger.
LEMMA SumGrows ==
  ASSUME NEW ps, NEW A, IsFiniteSet(A), Amounts(ps, A), NEW f, Sums(ps, A, f),
         NEW T \in SUBSET A, f[T] = f[A]
  PROVE  T = A
<1> DEFINE C == {s \in SUBSET A : T \subseteq s /\ s # T => f[T] < f[s]}
<1>1. ASSUME NEW m \in SUBSET A, \A k \in SUBSET A : k \subseteq m /\ k # m => k \in C
      PROVE  m \in C
  <2> SUFFICES ASSUME T \subseteq m, m # T PROVE f[T] < f[m]
    OBVIOUS
  <2>1. PICK x \in m : x \notin T
    OBVIOUS
  <2>2. f[m] = ps[x].amount + f[m \ {x}] /\ m \ {x} \in SUBSET A /\ T \subseteq m \ {x}
    BY <2>1, SumRemoves
  <2>3. ps[x].amount \in Nat /\ ps[x].amount > 0
    BY <2>1 DEF Amounts
  <2>4. f[T] \in Nat /\ f[m] \in Nat /\ f[m \ {x}] \in Nat
    BY <2>2, SumPositive
  <2>5. m \ {x} = T \/ f[T] < f[m \ {x}]
    BY <1>1, <2>1, <2>2
  <2>6. CASE m \ {x} = T
    <3>1. f[m \ {x}] = f[T]
      BY <2>6
    <3> QED
      BY <2>2, <2>3, <2>4, <3>1
  <2>7. CASE f[T] < f[m \ {x}]
    BY <2>2, <2>3, <2>4, <2>7
  <2> QED
    BY <2>5, <2>6, <2>7
<1>2. C \subseteq SUBSET A
  OBVIOUS
<1> HIDE DEF C
<1>3. C = SUBSET A
  BY <1>1, <1>2, SubsetInduction
<1>4. T # A => f[T] < f[A]
  BY <1>3 DEF C
<1>5. f[A] \in Nat
  BY SumPositive
<1> QED
  BY <1>4, <1>5

Sided(ps, some, paid) == {i \in some : ps[i].paid = paid}

\* Total is such a sum.
LEMMA TotalIs ==
  ASSUME NEW ps, NEW A, IsFiniteSet(A), NEW paid
  PROVE  \E f : /\ Sums(ps, Sided(ps, A, paid), f)
                /\ Total(ps, A, paid) = f[Sided(ps, A, paid)]
<1> DEFINE T == Sided(ps, A, paid)
<1>1. IsFiniteSet(T) /\ T = {i \in A : ps[i].paid = paid}
  BY FS_Subset DEF Sided
<1>2. PICK g : Sums(ps, T, g)
  BY <1>1, SumsExist
<1> DEFINE f == CHOOSE h : Sums(ps, T, h)
<1>3. Sums(ps, T, f)
  BY <1>2
<1> HIDE DEF T
<1>4. Total(ps, A, paid) = f[T]
  BY <1>1 DEF Total, MapThenSumSet, MapThenFoldSet, Sums, SumsOn, First
<1> HIDE DEF f
<1> QED
  BY <1>3, <1>4 DEF T

LinesOf(n) == [kind : {"half", "head", "footer", "reference", "bank"}, of : 1 .. n]

LEMMA LinesAre ==
  ASSUME NEW n \in Nat, NEW i \in 1 .. n, NEW layout \in Layouts
  PROVE  Lines(i, layout) \in Seq(LinesOf(n))
<1>1. /\ Line("half", i) \in LinesOf(n) /\ Line("head", i) \in LinesOf(n)
      /\ Line("footer", i) \in LinesOf(n) /\ Line("reference", i) \in LinesOf(n)
      /\ Line("bank", i) \in LinesOf(n)
  BY DEF Line, LinesOf
<1> HIDE DEF Line, LinesOf
<1>2. CASE layout = "whole"
  BY <1>1, <1>2 DEF Lines
<1>3. CASE layout = "wrapped"
  BY <1>1, <1>3 DEF Lines
<1>4. CASE layout = "page break"
  <2>1. Lines(i, layout) = <<Line("head", i), Line("footer", i), Line("reference", i), Line("bank", i)>>
    BY <1>4 DEF Lines
  <2> QED
    BY <1>1, <2>1
<1> QED
  BY <1>2, <1>3, <1>4 DEF Layouts

\* t[i] is the text of the first i payments.
Writes(n, t) ==
  t = [i \in 0 .. n |-> IF i = 0 THEN <<>> ELSE t[i - 1] \o Lines(i, printed[i].layout)]

LEMMA WritesExtend ==
  ASSUME NEW n \in Nat, NEW t, Writes(n, t)
  PROVE  \E u : Writes(n + 1, u)
<1> DEFINE u == [i \in 0 .. n + 1 |->
                   IF i = 0 THEN <<>> ELSE t[i - 1] \o Lines(i, printed[i].layout)]
<1>1. \A i \in 0 .. n : u[i] = t[i]
  BY DEF Writes
<1>2. \A i \in 0 .. n + 1 : i # 0 => u[i - 1] = t[i - 1]
  <2>1. \A i \in 0 .. n + 1 : i # 0 => i - 1 \in 0 .. n
    OBVIOUS
  <2> QED
    BY <1>1, <2>1
<1>3. Writes(n + 1, u)
  <2> HIDE DEF u
  <2>1. u = [i \in 0 .. n + 1 |->
               IF i = 0 THEN <<>> ELSE u[i - 1] \o Lines(i, printed[i].layout)]
    BY <1>2 DEF u
  <2> QED
    BY <2>1 DEF Writes
<1> QED
  BY <1>3

LEMMA WritesExist ==
  ASSUME NEW n \in Nat
  PROVE  \E t : Writes(n, t)
<1> DEFINE T == {k \in Nat : ~\E t : Writes(k, t)}
<1>1. T = {}
  <2> SUFFICES ASSUME T # {} PROVE FALSE
    OBVIOUS
  <2>1. PICK k \in T : \A j \in T : k <= j
    BY LeastNumber
  <2>2. \E t : Writes(0, t)
    <3>1. Writes(0, [i \in 0 .. 0 |-> <<>>])
      BY DEF Writes
    <3> QED
      BY <3>1
  <2>3. k # 0
    BY <2>1, <2>2
  <2>4. k - 1 \in Nat /\ k - 1 \notin T /\ (k - 1) + 1 = k
    BY <2>1, <2>3
  <2> QED
    BY <2>1, <2>4, WritesExtend
<1> QED
  BY <1>1

\* Every line of the text is of a payment on the statement.
LEMMA TextIs ==
  ASSUME printed \in Seq(Payments)
  PROVE  extract_text \in Seq(LinesOf(Len(printed)))
<1> DEFINE n == Len(printed)
<1>0. n \in Nat /\ \A i \in 1 .. n : printed[i].layout \in Layouts
  <2>1. n \in Nat /\ \A i \in 1 .. n : printed[i] \in Payments
    OBVIOUS
  <2> QED
    BY <2>1 DEF Payments
<1> DEFINE t == CHOOSE u : Writes(n, u)
<1>1. Writes(n, t)
  BY <1>0, WritesExist
<1>2. extract_text = t[n]
  BY DEF extract_text, Writes
<1> HIDE DEF t, n
<1>3. t[0] = <<>> /\ \A i \in 1 .. n : t[i] = t[i - 1] \o Lines(i, printed[i].layout)
  BY <1>0, <1>1 DEF Writes
<1> DEFINE T == {i \in Nat : i <= n /\ t[i] \notin Seq(LinesOf(n))}
<1>4. T = {}
  <2> SUFFICES ASSUME T # {} PROVE FALSE
    OBVIOUS
  <2>1. PICK i \in T : \A j \in T : i <= j
    BY LeastNumber
  <2>2. i # 0
    <3>1. <<>> \in Seq(LinesOf(n))
      OBVIOUS
    <3> QED
      BY <1>3, <2>1, <3>1
  <2>3. i - 1 \in Nat /\ i - 1 \notin T /\ i \in 1 .. n
    BY <1>0, <2>1, <2>2
  <2>4. t[i - 1] \in Seq(LinesOf(n)) /\ Lines(i, printed[i].layout) \in Seq(LinesOf(n))
    BY <1>0, <2>1, <2>3, LinesAre
  <2> HIDE DEF T
  <2>5. t[i - 1] \o Lines(i, printed[i].layout) \in Seq(LinesOf(n))
    BY <2>4
  <2> QED
    BY <1>3, <2>1, <2>3, <2>5 DEF T
<1> QED
  BY <1>0, <1>2, <1>4 DEF n

LEMMA ParsedIs ==
  ASSUME printed \in Seq(Payments)
  PROVE  parse_transactions(extract_text) \subseteq 1 .. Len(printed)
<1> DEFINE text == extract_text
<1>1. text \in Seq(LinesOf(Len(printed)))
  BY TextIs
<1> HIDE DEF text
<1>2. \A i \in DOMAIN text : text[i] \in LinesOf(Len(printed))
  BY <1>1
<1>3. \A i \in DOMAIN text : text[i].of \in 1 .. Len(printed)
  BY <1>2 DEF LinesOf
<1> QED
  BY <1>3 DEF parse_transactions, text

LEMMA PaymentsAre ==
  ASSUME printed \in Seq(Payments)
  PROVE  /\ DOMAIN printed = 1 .. Len(printed) /\ IsFiniteSet(1 .. Len(printed))
         /\ \A i \in 1 .. Len(printed) :
              printed[i].amount \in Nat \ {0} /\ printed[i].paid \in BOOLEAN
<1>1. Len(printed) \in Nat /\ \A i \in 1 .. Len(printed) : printed[i] \in Payments
  OBVIOUS
<1>2. MaxAmount \in Nat
  BY ReadingAssumption
<1>3. DOMAIN printed = 1 .. Len(printed)
  OBVIOUS
<1>4. IsFiniteSet(1 .. Len(printed))
  <2>1. 1 \in Int /\ Len(printed) \in Int
    BY <1>1
  <2> QED
    BY <2>1, FS_Interval
<1>5. ASSUME NEW i \in 1 .. Len(printed)
      PROVE  printed[i].amount \in Nat \ {0} /\ printed[i].paid \in BOOLEAN
  <2>1. printed[i] \in Payments
    BY <1>1
  <2>2. printed[i].amount \in 1 .. MaxAmount /\ printed[i].paid \in BOOLEAN
    BY <2>1 DEF Payments
  <2> QED
    BY <1>2, <2>2
<1> QED
  BY <1>3, <1>4, <1>5

\* With the declared total nothing is missing on that side, ...
LEMMA NothingMissing ==
  ASSUME printed \in Seq(Payments), NEW P, P \subseteq DOMAIN printed, NEW paid,
         Total(printed, P, paid) = Total(printed, DOMAIN printed, paid)
  PROVE  \A i \in DOMAIN printed : printed[i].paid = paid => i \in P
<1> DEFINE A == DOMAIN printed
<1> DEFINE S == Sided(printed, A, paid)
<1> DEFINE T == Sided(printed, P, paid)
<1>1. IsFiniteSet(A) /\ IsFiniteSet(P) /\ P \subseteq A
  BY PaymentsAre, FS_Subset
<1>2. S \subseteq A /\ T \subseteq S /\ IsFiniteSet(S)
  BY <1>1, FS_Subset DEF Sided
<1>3. Amounts(printed, S)
  BY <1>2, PaymentsAre DEF Amounts
<1>4. PICK f : Sums(printed, S, f) /\ Total(printed, A, paid) = f[S]
  BY <1>1, TotalIs
<1>5. PICK g : Sums(printed, T, g) /\ Total(printed, P, paid) = g[T]
  BY <1>1, TotalIs
<1> HIDE DEF S, T
<1>6. f[T] = f[S]
  BY <1>2, <1>4, <1>5, SumsAgree
<1>7. T = S
  BY <1>2, <1>3, <1>4, <1>6, SumGrows
<1> QED
  BY <1>7 DEF S, T, Sided

\* ... and no payment is of nothing.
LEMMA MoneyMoved ==
  ASSUME printed \in Seq(Payments), NEW P, P \subseteq DOMAIN printed, P # {}
  PROVE  Total(printed, P, TRUE) # 0 \/ Total(printed, P, FALSE) # 0
<1>1. PICK i \in P : i \in DOMAIN printed
  OBVIOUS
<1> DEFINE paid == printed[i].paid
<1> DEFINE S == Sided(printed, P, paid)
<1>2. paid \in BOOLEAN /\ IsFiniteSet(P)
  BY <1>1, PaymentsAre, FS_Subset
<1>3. S \subseteq P /\ i \in S /\ IsFiniteSet(S)
  BY <1>1, <1>2, FS_Subset DEF Sided
<1>4. Amounts(printed, S)
  BY <1>3, PaymentsAre DEF Amounts
<1>5. PICK f : Sums(printed, S, f) /\ Total(printed, P, paid) = f[S]
  BY <1>2, TotalIs
<1> HIDE DEF S
<1>6. Total(printed, P, paid) # 0
  <2>1. f[S] \in Nat /\ f[S] > 0
    BY <1>3, <1>4, <1>5, SumPositive
  <2> QED
    BY <1>5, <2>1
<1> HIDE DEF paid
<1>7. paid = TRUE \/ paid = FALSE
  BY <1>2
<1> QED
  BY <1>6, <1>7

Stages == {"idle", "refused", "accepted", "parsed", "built", "completed"}

Declared ==
  [sent |-> Total(printed, DOMAIN printed, TRUE),
   received |-> Total(printed, DOMAIN printed, FALSE), printed |-> TRUE]

\* What is persisted is made of what was parsed, and compared with what is printed.
ReadingInv ==
  /\ printed \in Seq(Payments) /\ stage \in Stages
  /\ parsed \subseteq DOMAIN printed
  /\ stage \in {"idle", "refused", "accepted"} => parsed = {}
  /\ declared = NoTotals \/ declared = Declared
  /\ stage \notin {"built", "completed"} => statement = Unread
  /\ stage = "built" => statement = [Unread EXCEPT !.rows = _build_transactions]
  /\ stage = "completed" =>
       /\ statement.rows = _build_transactions
       /\ statement.reconciled = _check_reconciliation(Total(printed, parsed, TRUE),
                                                       Total(printed, parsed, FALSE))
       /\ statement.rows # {} => statement.insights # {}

\* The rows are one for each payment that was found.
LEMMA RowsAre ==
  /\ {r.payment : r \in _build_transactions} = parsed
  /\ \A i \in parsed : \E r \in _build_transactions :
       r.payment = i /\ r.amount = printed[i].amount /\ r.paid = printed[i].paid
<1> DEFINE Row(i) ==
      [payment |-> i, paid |-> printed[i].paid, merchant |-> printed[i].name,
       amount |-> printed[i].amount,
       category |-> IF printed[i].paid THEN categorize(printed[i].name) ELSE Income]
<1>1. _build_transactions = {Row(i) : i \in parsed}
  BY DEF _build_transactions
<1>2. \A i : /\ Row(i).payment = i /\ Row(i).amount = printed[i].amount
             /\ Row(i).paid = printed[i].paid
  OBVIOUS
<1> HIDE DEF Row
<1> QED
  BY <1>1, <1>2

\* There is always something to say about money, whatever the model replies.
LEMMA SomethingToSay ==
  ASSUME printed \in Seq(Payments), parsed \subseteq DOMAIN printed, NEW reply, NEW recurring,
         _build_transactions # {}
  PROVE  generate(reply, _build_transactions, recurring) # {}
<1> DEFINE rows == _build_transactions
<1>1. {r.payment : r \in rows} = parsed /\ parsed # {}
  BY RowsAre DEF _build_transactions
<1>2. _computed_insights(rows, recurring) # {}
  <2>1. ~(Total(printed, parsed, TRUE) = 0 /\ Total(printed, parsed, FALSE) = 0)
    BY <1>1, MoneyMoved
  <2> DEFINE sent == Total(printed, {r.payment : r \in rows}, TRUE)
  <2> DEFINE got == Total(printed, {r.payment : r \in rows}, FALSE)
  <2>2. ~(sent = 0 /\ got = 0)
    BY <1>1, <2>1
  <2> HIDE DEF rows, sent, got
  <2>3. \/ Item("net", "in", got - sent) \in _computed_insights(rows, recurring)
        \/ Item("net", "out", sent - got) \in _computed_insights(rows, recurring)
    BY <2>2 DEF _computed_insights, sent, got
  <2> QED
    BY <2>3
<1> QED
  BY <1>2 DEF generate

LEMMA InitReading == ReadingInit => ReadingInv
BY DEF ReadingInit, ReadingInv, Stages

LEMMA StepAccept ==
  ASSUME ReadingInv, NEW n \in 0 .. MaxPayments, NEW payments \in [1 .. n -> Payments],
         Accept(payments)
  PROVE  ReadingInv'
<1>1. printed' = payments /\ stage' = "accepted" /\ parsed' = {} /\ statement' = Unread
  BY DEF Accept, ReadingInv
<1>2. payments \in Seq(Payments)
  BY ReadingAssumption
<1>3. declared' = NoTotals \/ declared' = Declared'
  BY <1>1 DEF Accept, Declared
<1> QED
  BY <1>1, <1>2, <1>3 DEF ReadingInv, Stages

LEMMA StepReading == ReadingInv /\ [ReadingNext]_readingVars => ReadingInv'
<1> SUFFICES ASSUME ReadingInv, [ReadingNext]_readingVars PROVE ReadingInv'
  OBVIOUS
<1>0. /\ printed \in Seq(Payments) /\ parsed \subseteq DOMAIN printed
      /\ declared = NoTotals \/ declared = Declared
  BY DEF ReadingInv
<1>1. CASE UNCHANGED readingVars
  <2>1. /\ printed' = printed /\ declared' = declared /\ stage' = stage /\ parsed' = parsed
        /\ statement' = statement
    BY <1>1 DEF readingVars
  <2>2. /\ Declared' = Declared /\ _build_transactions' = _build_transactions
        /\ _check_reconciliation(Total(printed, parsed, TRUE), Total(printed, parsed, FALSE))'
             = _check_reconciliation(Total(printed, parsed, TRUE), Total(printed, parsed, FALSE))
    BY <2>1 DEF Declared, _build_transactions, _check_reconciliation
  <2> QED
    BY <2>1, <2>2 DEF ReadingInv
<1>2. CASE Refuse
  BY <1>2 DEF Refuse, ReadingInv, Declared, Stages
<1>3. CASE Parse
  <2>1. parsed' \subseteq DOMAIN printed
    BY <1>0, <1>3, ParsedIs, PaymentsAre DEF Parse
  <2> QED
    BY <1>3, <2>1 DEF Parse, ReadingInv, Declared, Stages
<1>4. CASE Build
  <2>1. /\ statement = Unread /\ stage' = "built"
        /\ statement' = [statement EXCEPT !.rows = _build_transactions]
        /\ printed' = printed /\ declared' = declared /\ parsed' = parsed
    BY <1>4 DEF Build, ReadingInv
  <2>2. Declared' = Declared /\ _build_transactions' = _build_transactions
    BY <2>1 DEF Declared, _build_transactions
  <2>3. statement' = [Unread EXCEPT !.rows = _build_transactions']
    BY <2>1, <2>2
  <2> QED
    BY <1>0, <2>1, <2>2, <2>3 DEF ReadingInv, Stages
<1>5. ASSUME NEW reply \in Replies, Conclude(reply) PROVE ReadingInv'
  <2>1. /\ statement = [Unread EXCEPT !.rows = _build_transactions] /\ stage' = "completed"
        /\ UNCHANGED <<printed, declared, parsed>>
    BY <1>5 DEF Conclude, ReadingInv
  <2>2. statement.rows = _build_transactions
    BY <2>1 DEF Unread
  <2>3. PICK recurring :
          statement' = [statement EXCEPT
            !.sent = Total(printed, parsed, TRUE), !.received = Total(printed, parsed, FALSE),
            !.reconciled = _check_reconciliation(Total(printed, parsed, TRUE),
                                                 Total(printed, parsed, FALSE)),
            !.insights = generate(reply, statement.rows, recurring)]
    BY <1>5 DEF Conclude
  <2>4. /\ statement'.rows = _build_transactions
        /\ statement'.reconciled = _check_reconciliation(Total(printed, parsed, TRUE),
                                                         Total(printed, parsed, FALSE))
        /\ statement'.insights = generate(reply, _build_transactions, recurring)
    BY <2>1, <2>2, <2>3 DEF Unread
  <2>5. _build_transactions' = _build_transactions
        /\ _check_reconciliation(Total(printed, parsed, TRUE), Total(printed, parsed, FALSE))'
             = _check_reconciliation(Total(printed, parsed, TRUE), Total(printed, parsed, FALSE))
    BY <2>1 DEF _build_transactions, _check_reconciliation
  <2>6. _build_transactions # {} => statement'.insights # {}
    BY <1>0, <2>4, SomethingToSay
  <2> QED
    BY <1>0, <2>1, <2>4, <2>5, <2>6 DEF ReadingInv, Declared, Stages
<1> QED
  BY <1>1, <1>2, <1>3, <1>4, <1>5, StepAccept DEF ReadingNext

\* Whatever the statement prints and the language model answers, what is persisted
\* is made of the payments found and compared with the totals printed.
THEOREM ReadingKept == ReadingSpec => []ReadingInv
<1> QED
  BY InitReading, StepReading, PTL DEF ReadingSpec

LEMMA ReconciledLemma == ReadingInv => ReconciledIsComplete
<1> SUFFICES ASSUME ReadingInv, statement.reconciled = "yes", NEW i \in DOMAIN printed
             PROVE  \E r \in statement.rows :
                      r.payment = i /\ r.amount = printed[i].amount /\ r.paid = printed[i].paid
  BY DEF ReconciledIsComplete
<1>1. stage = "completed"
  BY DEF ReadingInv, Unread, Stages
<1>2. /\ Total(printed, parsed, TRUE) = Total(printed, DOMAIN printed, TRUE)
      /\ Total(printed, parsed, FALSE) = Total(printed, DOMAIN printed, FALSE)
  <2>1. _check_reconciliation(Total(printed, parsed, TRUE), Total(printed, parsed, FALSE)) = "yes"
    BY <1>1 DEF ReadingInv
  <2>2. /\ declared.printed /\ Total(printed, parsed, TRUE) = declared.sent
        /\ Total(printed, parsed, FALSE) = declared.received
    BY <2>1 DEF _check_reconciliation
  <2>3. declared = Declared
    BY <2>2 DEF ReadingInv, NoTotals
  <2> QED
    BY <2>2, <2>3 DEF Declared
<1>3. printed[i].paid \in BOOLEAN
  BY PaymentsAre DEF ReadingInv
<1>4. i \in parsed
  BY <1>2, <1>3, NothingMissing DEF ReadingInv
<1> QED
  BY <1>1, <1>4, RowsAre DEF ReadingInv

LEMMA ReadingTypes == ReadingInv => ReadingTypeOK
<1> SUFFICES ASSUME ReadingInv PROVE ReadingTypeOK
  OBVIOUS
<1>1. \A i \in DOMAIN printed : printed[i] \in Payments
  BY DEF ReadingInv
<1>2. \A r \in _build_transactions : r.payment \in parsed
  BY RowsAre
<1>3. Unread.rows = {} /\ Unread.reconciled = "unknown"
      /\ [Unread EXCEPT !.rows = _build_transactions].rows = _build_transactions
      /\ [Unread EXCEPT !.rows = _build_transactions].reconciled = "unknown"
  BY DEF Unread
<1>4. \A s, r : _check_reconciliation(s, r) \in {"yes", "no", "unknown"}
  BY DEF _check_reconciliation
<1>5. /\ \A r \in statement.rows : r.payment \in parsed
      /\ statement.reconciled \in {"yes", "no", "unknown"}
  <2>1. CASE stage \notin {"built", "completed"}
    BY <1>3, <2>1 DEF ReadingInv
  <2>2. CASE stage = "built"
    BY <1>2, <1>3, <2>2 DEF ReadingInv
  <2>3. CASE stage = "completed"
    BY <1>2, <1>4, <2>3 DEF ReadingInv
  <2> QED
    BY <2>1, <2>2, <2>3
<1> QED
  BY <1>1, <1>5 DEF ReadingInv, ReadingTypeOK, Stages

\* The variables of the reading hold values of their kinds, for statements of any
\* length and any amounts.
THEOREM ReadingTypeCorrect == ReadingSpec => []ReadingTypeOK
<1> QED
  BY ReadingKept, ReadingTypes, PTL

\* The totals only agree with the declared ones when no payment was passed over
\* (_check_reconciliation, parse_transactions): amounts are positive, so a missing
\* one makes its side smaller.  For statements of any length and any amounts.
THEOREM ReconciledCorrect == ReadingSpec => []ReconciledIsComplete
<1> QED
  BY ReadingKept, ReconciledLemma, PTL

\* The computed insights are not empty when there is a transaction, since the sides
\* are then not both nothing; and they are what is left when the model's are of no
\* use (generate, _computed_insights).
THEOREM InsightsCorrect == ReadingSpec => []InsightsForMoney
<1>1. ReadingInv => InsightsForMoney
  BY DEF ReadingInv, InsightsForMoney
<1> QED
  BY ReadingKept, <1>1, PTL
================================================================================
