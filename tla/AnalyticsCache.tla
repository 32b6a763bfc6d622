---------------------------- MODULE AnalyticsCache ----------------------------
(***************************************************************************)
(* The cache-aside reads of /v1/analytics, on the month-over-month trend   *)
(* whose key and answer both depend on the clock.  Redis holds an answer   *)
(* per user and month for three minutes; when Redis fails every read is a  *)
(* miss and every write is dropped.                                        *)
(***************************************************************************)
EXTENDS Naturals

CONSTANTS
  Readers,    \* the users; each has at most one request in progress
  LastMonth,  \* bound on the months that pass
  NoAnswer

ASSUME CacheAssumption == LastMonth \in Nat \ {0}

VARIABLES
  month,    \* the server's clock
  cache,    \* the answers in Redis, by key
  lookup,   \* a request that missed: the month of its key, and its answer once computed
  answer    \* the last answer of each user, and the month in which it was asked for

cacheVars == <<month, cache, lookup, answer>>

Months   == 1 .. LastMonth
NoLookup == [asked |-> 0, value |-> NoAnswer]

\* Mutant of _mom_cache_key: the key is the user alone.
KeyWithoutMonth(u, m) == <<u, 1>>

_mom_cache_key(u, m) == <<u, m>>

Respond(u, asked, value) == answer' = [answer EXCEPT ![u] = [asked |-> asked, value |-> value]]

Hit(u) ==
  LET found == cache[_mom_cache_key(u, month)] IN
  /\ lookup[u] = NoLookup /\ found # NoAnswer
  /\ Respond(u, month, found)
  /\ UNCHANGED <<month, cache, lookup>>

\* Nothing under the key, or no answer from Redis.
Miss(u) ==
  /\ lookup[u] = NoLookup
  /\ lookup' = [lookup EXCEPT ![u] = [asked |-> month, value |-> NoAnswer]]
  /\ UNCHANGED <<month, cache, answer>>

\* The totals of the user's transactions of that month and of the one before.
calculate_mom_growth(u, m) == [user |-> u, month |-> m]

\* The handler takes the month from the clock again.
Compute(u) ==
  /\ lookup[u] # NoLookup /\ lookup[u].value = NoAnswer
  /\ lookup' = [lookup EXCEPT ![u].value = calculate_mom_growth(u, month)]
  /\ UNCHANGED <<month, cache, answer>>

\* The answer is stored, unless Redis fails, under the key of the question.
Put(u) ==
  LET r == lookup[u] IN
  /\ r.value # NoAnswer
  /\ \/ cache' = [cache EXCEPT ![_mom_cache_key(u, r.asked)] = r.value]
     \/ UNCHANGED cache
  /\ Respond(u, r.asked, r.value)
  /\ lookup' = [lookup EXCEPT ![u] = NoLookup]
  /\ UNCHANGED month

\* Three minutes later.
Expire(u, m) ==
  /\ cache[<<u, m>>] # NoAnswer
  /\ cache' = [cache EXCEPT ![<<u, m>>] = NoAnswer]
  /\ UNCHANGED <<month, lookup, answer>>

NextMonth ==
  /\ month < LastMonth
  /\ month' = month + 1
  /\ UNCHANGED <<cache, lookup, answer>>

CacheInit ==
  /\ month = 1
  /\ cache = [k \in Readers \X Months |-> NoAnswer]
  /\ lookup = [u \in Readers |-> NoLookup]
  /\ answer = [u \in Readers |-> NoLookup]

CacheNext ==
  \/ \E u \in Readers : \/ Hit(u) \/ Miss(u) \/ Compute(u) \/ Put(u)
                       \/ \E m \in Months : Expire(u, m)
  \/ NextMonth

CacheSpec == CacheInit /\ [][CacheNext]_cacheVars

\* The variables hold values of their kinds; a request of the past is about the past.
CacheTypeOK ==
  /\ month \in Months
  /\ \A k \in Readers \X Months : cache[k] = NoAnswer \/ cache[k].month \in Months
  /\ \A u \in Readers : {lookup[u].asked, answer[u].asked} \subseteq 0 .. month

\* An answer is about the user who asked, and never about a month before the one
\* in which it was asked: an entry of last month is not served after midnight,
\* even if it was computed before and stored after.
AnswersTheQuestion ==
  \A u \in Readers : answer[u] # NoLookup =>
    answer[u].value.user = u /\ answer[u].value.month >= answer[u].asked
================================================================================
