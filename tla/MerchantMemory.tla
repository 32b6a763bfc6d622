--------------------------- MODULE MerchantMemory ----------------------------
(***************************************************************************)
(* The merchant memory: POST /memory/update counts an encounter and moves  *)
(* the profile between memory states, a sweep is to archive the profiles   *)
(* not seen for 180 days.                                                  *)
(*                                                                         *)
(* An encounter is two awaited writes, an atomic increment and, if the     *)
(* state changes, a later unconditional write of the state.                *)
(***************************************************************************)
EXTENDS Naturals

CONSTANTS
  Merchants,
  Callers,              \* bound on encounters in progress
  TEMPORARY_THRESHOLD, PERMANENT_THRESHOLD,
  MaxEncounters,        \* bound on encounters
  MaxLosses,            \* bound on the encounters that break off halfway
  NoMerchant

ASSUME MemoryAssumption ==
  /\ TEMPORARY_THRESHOLD \in Nat /\ PERMANENT_THRESHOLD \in Nat
  /\ 1 < TEMPORARY_THRESHOLD /\ TEMPORARY_THRESHOLD < PERMANENT_THRESHOLD
  /\ MaxEncounters \in Nat /\ MaxLosses \in Nat
  /\ NoMerchant \notin Merchants

VARIABLES
  profile,    \* merchant_profiles; an unseen merchant has frequency 0
  encounters, \* so far
  promotion,  \* the state each encounter in progress has yet to write
  losses,
  raced       \* merchants whose last encounters overlapped or broke off

memoryVars == <<profile, encounters, promotion, losses, raced>>

MemoryStates == {"EPHEMERAL", "TEMPORARY", "PERMANENT", "ARCHIVED"}

Unseen == [frequency |-> 0, memory_state |-> "UNSEEN", stale |-> FALSE]
Idle   == [merchant |-> NoMerchant, state |-> "UNSEEN"]

Promoting(m) == \E q \in Callers : promotion[q].merchant = m

--------------------------------------------------------------------------------
(* Encounters *)

increment_encounter(p) ==
  [frequency    |-> p.frequency + 1,
   memory_state |-> IF p.frequency = 0 THEN "EPHEMERAL" ELSE p.memory_state,
   stale        |-> FALSE]

\* Mutant of evaluate_promotion: a threshold is looked for, not a range.
EvaluateOnCrossing(p) ==
  CASE p.frequency = PERMANENT_THRESHOLD -> "PERMANENT"
    [] p.frequency = TEMPORARY_THRESHOLD -> "TEMPORARY"
    [] OTHER -> p.memory_state

evaluate_promotion(p) ==
  IF p.memory_state \in {"PERMANENT", "ARCHIVED"} THEN p.memory_state
  ELSE IF p.frequency >= PERMANENT_THRESHOLD THEN "PERMANENT"
  ELSE IF p.frequency >= TEMPORARY_THRESHOLD THEN "TEMPORARY" ELSE "EPHEMERAL"

\* Mutant of NewState: every profile out of the first states wakes as TEMPORARY.
NewStateWakingAll(p) ==
  IF p.memory_state \in {"ARCHIVED", "PERMANENT"} THEN "TEMPORARY" ELSE evaluate_promotion(p)

\* The state decided on the profile that this encounter's increment returned.
NewState(p) ==
  IF p.memory_state = "ARCHIVED" THEN "TEMPORARY" ELSE evaluate_promotion(p)

Encounter(q, m) ==
  LET p == increment_encounter(profile[m]) IN
  /\ promotion[q] = Idle
  /\ encounters < MaxEncounters /\ encounters' = encounters + 1
  /\ profile' = [profile EXCEPT ![m] = p]
  /\ promotion' = IF p.frequency = 1 \/ NewState(p) = p.memory_state THEN promotion
                  ELSE [promotion EXCEPT ![q] = [merchant |-> m, state |-> NewState(p)]]
  /\ raced' = IF Promoting(m) THEN raced \cup {m} ELSE raced \ {m}
  /\ UNCHANGED losses

set_memory_state(q) ==
  /\ promotion[q] # Idle
  /\ profile' = [profile EXCEPT ![promotion[q].merchant].memory_state = promotion[q].state]
  /\ promotion' = [promotion EXCEPT ![q] = Idle]
  /\ UNCHANGED <<encounters, losses, raced>>

\* The process or the database connection goes between the two writes.
LoseEncounter(q) ==
  /\ promotion[q] # Idle
  /\ losses < MaxLosses
  /\ losses' = losses + 1
  /\ promotion' = [promotion EXCEPT ![q] = Idle]
  /\ raced' = raced \cup {promotion[q].merchant}
  /\ UNCHANGED <<profile, encounters>>

--------------------------------------------------------------------------------
(* Decay *)

\* 180 days without an encounter.
GoStale(m) ==
  /\ profile[m].frequency > 0 /\ ~profile[m].stale
  /\ profile' = [profile EXCEPT ![m].stale = TRUE]
  /\ UNCHANGED <<encounters, promotion, losses, raced>>

get_stale_profiles == {m \in Merchants : profile[m].stale /\ profile[m].memory_state # "ARCHIVED"}

\* The query keeps each document's _id, an ObjectId, and MerchantProfile accepts
\* only a string there: building the first one raises, and the sweep ends before
\* it has archived any.
run_archive_sweep ==
  /\ get_stale_profiles # {}
  /\ UNCHANGED memoryVars

--------------------------------------------------------------------------------

MemoryInit ==
  /\ profile = [m \in Merchants |-> Unseen]
  /\ encounters = 0
  /\ promotion = [q \in Callers |-> Idle]
  /\ losses = 0
  /\ raced = {}

EncounterStep ==
  \/ \E q \in Callers, m \in Merchants : Encounter(q, m)
  \/ \E q \in Callers : set_memory_state(q) \/ LoseEncounter(q)

DecayStep == run_archive_sweep \/ \E m \in Merchants : GoStale(m)

MemoryNext == EncounterStep \/ DecayStep

MemorySpec == MemoryInit /\ [][MemoryNext]_memoryVars

--------------------------------------------------------------------------------
(* Properties *)

\* The variables hold values of their kinds, and a frequency and a memory state
\* are stored together: a profile that was never counted has no state.
MemoryTypeOK ==
  /\ profile \in [Merchants -> [frequency : 0 .. encounters,
                                memory_state : MemoryStates \cup {"UNSEEN"},
                                stale : BOOLEAN]]
  /\ \A m \in Merchants : profile[m].frequency = 0 <=> profile[m].memory_state = "UNSEEN"
  /\ promotion \in [Callers -> [merchant : Merchants, state : MemoryStates] \cup {Idle}]
  /\ encounters \in 0 .. MaxEncounters /\ losses \in 0 .. MaxLosses
  /\ raced \subseteq Merchants

Earned(f) ==
  IF f < TEMPORARY_THRESHOLD THEN "EPHEMERAL"
  ELSE IF f < PERMANENT_THRESHOLD THEN "TEMPORARY" ELSE "PERMANENT"

\* Whatever overlapping or broken-off encounters did to a profile, the next one
\* that runs alone leaves it in the state its frequency has earned.
MemoryHeals ==
  \A m \in Merchants :
    profile[m].frequency > 0 /\ ~Promoting(m) /\ m \notin raced
      => profile[m].memory_state = Earned(profile[m].frequency)

Rank(s) == CASE s = "UNSEEN" -> 0 [] s = "EPHEMERAL" -> 1 [] s = "TEMPORARY" -> 2
             [] s = "PERMANENT" -> 3 [] s = "ARCHIVED" -> 0

\* Memory is not lost: a profile goes to a lower state only by archiving, or
\* when the write of one encounter arrives after that of a later one.
NeverDemoted ==
  [][\A m \in Merchants :
       Rank(profile'[m].memory_state) < Rank(profile[m].memory_state)
         => profile'[m].memory_state = "ARCHIVED" \/ m \in raced]_profile
================================================================================
