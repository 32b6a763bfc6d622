------------------------- MODULE MerchantMemoryProofs --------------------------
(***************************************************************************)
(* Proofs about MerchantMemory, for any merchants, thresholds and numbers  *)
(* of encounters in progress.                                              *)
(***************************************************************************)
EXTENDS MerchantMemory, TLAPS

Profiles   == [frequency : Nat, memory_state : MemoryStates \cup {"UNSEEN"}, stale : BOOLEAN]
Promotions == [merchant : Merchants, state : MemoryStates]

\* No profile's state, stored or yet to be written, is ahead of its frequency.
NotAhead ==
  /\ \A m \in Merchants : profile[m].frequency > 0 =>
       /\ profile[m].memory_state # "UNSEEN" /\ profile[m].memory_state # "ARCHIVED"
       /\ Rank(profile[m].memory_state) <= Rank(Earned(profile[m].frequency))
  /\ \A q \in Callers : promotion[q] # Idle =>
       /\ profile[promotion[q].merchant].frequency > 0
       /\ promotion[q].state # "ARCHIVED"
       /\ Rank(promotion[q].state) <= Rank(Earned(profile[promotion[q].merchant].frequency))

\* While encounters do not race, a write that is due is the only one and will
\* bring the profile to the state it has earned.
DueIsEarned ==
  \A q \in Callers : promotion[q] # Idle /\ promotion[q].merchant \notin raced =>
    /\ promotion[q].state = Earned(profile[promotion[q].merchant].frequency)
    /\ \A p \in Callers : promotion[p].merchant = promotion[q].merchant => p = q

MemoryInv ==
  /\ profile \in [Merchants -> Profiles]
  /\ \A m \in Merchants : profile[m].frequency = 0 <=> profile[m].memory_state = "UNSEEN"
  /\ promotion \in [Callers -> Promotions \cup {Idle}]
  /\ encounters \in Nat /\ losses \in Nat
  /\ raced \subseteq Merchants
  /\ NotAhead /\ DueIsEarned /\ MemoryHeals

\* What evaluate_promotion and the waking of archived profiles come to, for a
\* profile that is not ahead of its frequency.
LEMMA NewStateEarned ==
  ASSUME NEW p \in Profiles, p.frequency > 0, p.memory_state \notin {"UNSEEN", "ARCHIVED"},
         Rank(p.memory_state) <= Rank(Earned(p.frequency))
  PROVE  NewState(p) = Earned(p.frequency)
BY MemoryAssumption DEF Profiles, MemoryStates, NewState, evaluate_promotion, Earned, Rank

\* The earned state never goes down as the frequency grows.
LEMMA EarnedGrows ==
  ASSUME NEW f \in Nat, NEW g \in Nat, f <= g
  PROVE  Rank(Earned(f)) <= Rank(Earned(g)) /\ Rank(Earned(f)) \in Nat
BY MemoryAssumption DEF Earned, Rank

LEMMA EarnedIsAState == \A f : Earned(f) \in MemoryStates \ {"ARCHIVED"}
BY DEF Earned, MemoryStates

LEMMA InitMemory == MemoryInit => MemoryInv
<1> SUFFICES ASSUME MemoryInit PROVE MemoryInv
  OBVIOUS
<1>1. profile \in [Merchants -> Profiles]
  BY DEF MemoryInit, Unseen, Profiles
<1>2. \A m \in Merchants : profile[m].frequency = 0 /\ profile[m].memory_state = "UNSEEN"
  BY DEF MemoryInit, Unseen
<1>3. NotAhead /\ DueIsEarned
  BY <1>2 DEF MemoryInit, NotAhead, DueIsEarned
<1>4. MemoryHeals
  BY <1>2 DEF MemoryHeals
<1> QED
  BY <1>1, <1>2, <1>3, <1>4 DEF MemoryInit, MemoryInv

LEMMA EncounterKeeps ==
  ASSUME MemoryInv, NEW q \in Callers, NEW m \in Merchants, Encounter(q, m)
  PROVE  MemoryInv'
<1> DEFINE p   == increment_encounter(profile[m])
           due == [merchant |-> m, state |-> NewState(p)]
           still == p.frequency = 1 \/ NewState(p) = p.memory_state
<1> USE DEF MemoryInv, Encounter
<1>1. profile[m] \in Profiles /\ profile[m].frequency \in Nat /\ promotion[q] = Idle
  BY DEF Profiles
<1>2. p \in Profiles /\ p.frequency = profile[m].frequency + 1 /\ p.frequency > 0
  BY <1>1 DEF increment_encounter, Profiles, MemoryStates
<1>3. p.memory_state = IF profile[m].frequency = 0 THEN "EPHEMERAL" ELSE profile[m].memory_state
  BY DEF increment_encounter
<1>4. /\ p.memory_state \notin {"UNSEEN", "ARCHIVED"}
      /\ Rank(p.memory_state) <= Rank(Earned(p.frequency))
  <2>1. CASE profile[m].frequency = 0
    BY <1>1, <1>2, <1>3, <2>1, MemoryAssumption DEF Earned, Rank
  <2>2. CASE profile[m].frequency > 0
    <3>1. p.memory_state = profile[m].memory_state
      BY <1>1, <1>3, <2>2
    <3>2. profile[m].memory_state \in MemoryStates /\ Rank(profile[m].memory_state) \in Nat
      BY <1>1, <2>2 DEF Profiles, MemoryStates, Rank, NotAhead
    <3>3. Rank(Earned(profile[m].frequency)) <= Rank(Earned(p.frequency))
          /\ Rank(Earned(profile[m].frequency)) \in Nat /\ Rank(Earned(p.frequency)) \in Nat
      BY <1>1, <1>2, EarnedGrows
    <3> QED
      BY <2>2, <3>1, <3>2, <3>3 DEF NotAhead
  <2> QED
    BY <1>1, <2>1, <2>2
<1>5. NewState(p) = Earned(p.frequency)
  BY <1>2, <1>4, NewStateEarned
<1>6. profile'[m] = p /\ \A n \in Merchants \ {m} : profile'[n] = profile[n]
  OBVIOUS
<1>7. \A r \in Callers \ {q} : promotion'[r] = promotion[r]
  OBVIOUS
<1>8. promotion'[q] = IF still THEN Idle ELSE due
  BY <1>1
<1>9. due \in Promotions /\ Idle.merchant \notin Merchants /\ due # Idle
  BY <1>5, EarnedIsAState, MemoryAssumption DEF Promotions, Idle
<1>10. \A r \in Callers : promotion[r] # Idle => promotion[r] \in Promotions
  OBVIOUS
<1>11. raced' \subseteq Merchants /\ (m \notin raced' => ~Promoting(m))
       /\ \A n \in Merchants \ {m} : n \in raced' <=> n \in raced
  OBVIOUS
<1>12. NotAhead'
  <2>1. \A r \in Callers : promotion'[r] # Idle =>
          /\ profile'[promotion'[r].merchant].frequency > 0
          /\ promotion'[r].state # "ARCHIVED"
          /\ Rank(promotion'[r].state) <= Rank(Earned(profile'[promotion'[r].merchant].frequency))
    <3> SUFFICES ASSUME NEW r \in Callers, promotion'[r] # Idle
                 PROVE  /\ profile'[promotion'[r].merchant].frequency > 0
                        /\ promotion'[r].state # "ARCHIVED"
                        /\ Rank(promotion'[r].state)
                             <= Rank(Earned(profile'[promotion'[r].merchant].frequency))
      OBVIOUS
    <3>1. CASE r = q
      <4>1. promotion'[r] = due
        BY <1>8, <3>1
      <4>2. Rank(Earned(p.frequency)) \in Nat
        BY <1>2, EarnedGrows DEF Profiles
      <4> QED
        BY <1>2, <1>5, <1>6, <4>1, <4>2, EarnedIsAState
    <3>2. CASE r # q
      <4> DEFINE n == promotion[r].merchant
      <4>1. promotion'[r] = promotion[r] /\ promotion[r] \in Promotions /\ n \in Merchants
        BY <1>7, <1>10, <3>2 DEF Promotions
      <4>2. profile[n].frequency \in Nat /\ profile'[n].frequency \in Nat
            /\ profile[n].frequency <= profile'[n].frequency
        BY <1>1, <1>2, <1>6, <4>1 DEF Profiles
      <4>3. Rank(Earned(profile[n].frequency)) <= Rank(Earned(profile'[n].frequency))
            /\ Rank(Earned(profile[n].frequency)) \in Nat
            /\ Rank(Earned(profile'[n].frequency)) \in Nat
        BY <4>2, EarnedGrows
      <4>4. Rank(promotion[r].state) \in Nat
        BY <4>1 DEF Promotions, MemoryStates, Rank
      <4>5. /\ profile[n].frequency > 0 /\ promotion[r].state # "ARCHIVED"
            /\ Rank(promotion[r].state) <= Rank(Earned(profile[n].frequency))
        BY <4>1 DEF NotAhead
      <4>6. Rank(promotion[r].state) <= Rank(Earned(profile'[n].frequency))
        BY <4>3, <4>4, <4>5
      <4> QED
        BY <4>1, <4>2, <4>5, <4>6
    <3> QED
      BY <3>1, <3>2
  <2> QED
    BY <1>4, <1>6, <2>1 DEF NotAhead
<1>13. DueIsEarned'
  <2> SUFFICES ASSUME NEW r \in Callers, promotion'[r] # Idle, promotion'[r].merchant \notin raced'
               PROVE  /\ promotion'[r].state = Earned(profile'[promotion'[r].merchant].frequency)
                      /\ \A o \in Callers :
                           promotion'[o].merchant = promotion'[r].merchant => o = r
    BY DEF DueIsEarned
  <2>1. CASE r = q
    <3>1. promotion'[r] = due
      BY <1>8, <2>1
    <3>2. \A o \in Callers : promotion[o].merchant # m
      BY <1>11, <3>1 DEF Promoting
    <3> QED
      BY <1>5, <1>6, <1>7, <2>1, <3>1, <3>2
  <2>2. CASE r # q
    <3>1. promotion'[r] = promotion[r] /\ promotion[r].merchant \in Merchants
      BY <1>7, <1>10, <2>2 DEF Promotions
    <3>2. promotion[r].merchant # m
      BY <1>11, <3>1 DEF Promoting
    <3>3. promotion[r].merchant \notin raced
      BY <1>11, <3>1, <3>2
    <3>4. promotion'[q].merchant # promotion[r].merchant
      BY <1>8, <1>9, <3>1, <3>2
    <3> QED
      BY <1>6, <1>7, <3>1, <3>2, <3>3, <3>4 DEF DueIsEarned
  <2> QED
    BY <2>1, <2>2
<1>14. MemoryHeals'
  <2> SUFFICES ASSUME NEW n \in Merchants, ~Promoting(n)', n \notin raced', profile'[n].frequency > 0
               PROVE  profile'[n].memory_state = Earned(profile'[n].frequency)
    BY DEF MemoryHeals
  <2>1. CASE n = m
    <3>1. still
      BY <1>8, <2>1 DEF Promoting
    <3>2. CASE p.frequency = 1
      BY <1>1, <1>2, <1>3, <1>6, <2>1, <3>2, MemoryAssumption DEF Earned
    <3> QED
      BY <1>5, <1>6, <2>1, <3>1, <3>2
  <2>2. CASE n # m
    <3>1. ~Promoting(n)
      BY <1>1, <1>7, <1>9 DEF Promoting
    <3> QED
      BY <1>6, <1>11, <2>2, <3>1 DEF MemoryHeals
  <2> QED
    BY <2>1, <2>2
<1>15. profile' \in [Merchants -> Profiles] /\ promotion' \in [Callers -> Promotions \cup {Idle}]
  BY <1>2, <1>9
<1>16. \A n \in Merchants : profile'[n].frequency = 0 <=> profile'[n].memory_state = "UNSEEN"
  BY <1>2, <1>4, <1>6
<1> QED
  BY <1>11, <1>12, <1>13, <1>14, <1>15, <1>16

LEMMA SetStateKeeps ==
  ASSUME MemoryInv, NEW q \in Callers, set_memory_state(q)
  PROVE  MemoryInv'
<1> DEFINE m == promotion[q].merchant
<1> USE DEF MemoryInv, set_memory_state
<1>1. promotion[q] \in Promotions /\ m \in Merchants /\ promotion[q].state \in MemoryStates
  BY DEF Promotions
<1>2. profile[m] \in Profiles
  BY <1>1
<1>3. profile'[m] = [profile[m] EXCEPT !.memory_state = promotion[q].state]
      /\ profile'[m] \in Profiles /\ profile'[m].memory_state = promotion[q].state
      /\ profile'[m].frequency = profile[m].frequency
  BY <1>1, <1>2 DEF Profiles
<1>4. \A n \in Merchants \ {m} : profile'[n] = profile[n]
  OBVIOUS
<1>5. \A n \in Merchants : profile'[n].frequency = profile[n].frequency
  BY <1>3, <1>4
<1>6. promotion'[q] = Idle /\ \A r \in Callers \ {q} : promotion'[r] = promotion[r]
  OBVIOUS
<1>7. \A r \in Callers : promotion[r] # Idle => promotion[r].merchant \in Merchants
  BY DEF Promotions
<1>8. NotAhead'
  <2>1. \A n \in Merchants : profile'[n].frequency > 0 =>
          /\ profile'[n].memory_state # "UNSEEN" /\ profile'[n].memory_state # "ARCHIVED"
          /\ Rank(profile'[n].memory_state) <= Rank(Earned(profile'[n].frequency))
    BY <1>1, <1>3, <1>4 DEF NotAhead, MemoryStates
  <2> QED
    BY <1>5, <1>6, <1>7, <2>1 DEF NotAhead
<1>9. DueIsEarned'
  BY <1>5, <1>6, <1>7, MemoryAssumption DEF DueIsEarned, Idle
<1>10. MemoryHeals'
  <2> SUFFICES ASSUME NEW n \in Merchants, ~Promoting(n)', n \notin raced', profile'[n].frequency > 0
               PROVE  profile'[n].memory_state = Earned(profile'[n].frequency)
    BY DEF MemoryHeals
  <2>1. CASE n = m
    BY <1>3, <2>1 DEF DueIsEarned
  <2>2. CASE n # m
    <3>1. ~Promoting(n)
      BY <1>6, <2>2 DEF Promoting
    <3> QED
      BY <1>4, <2>2, <3>1 DEF MemoryHeals
  <2> QED
    BY <2>1, <2>2
<1>11. \A n \in Merchants : profile'[n].frequency = 0 <=> profile'[n].memory_state = "UNSEEN"
  BY <1>1, <1>3, <1>4 DEF NotAhead, MemoryStates
<1>12. profile' \in [Merchants -> Profiles] /\ promotion' \in [Callers -> Promotions \cup {Idle}]
  BY <1>3
<1> QED
  BY <1>8, <1>9, <1>10, <1>11, <1>12

LEMMA LoseKeeps ==
  ASSUME MemoryInv, NEW q \in Callers, LoseEncounter(q)
  PROVE  MemoryInv'
<1> DEFINE m == promotion[q].merchant
<1> USE DEF MemoryInv, LoseEncounter
<1>1. m \in Merchants
  BY DEF Promotions
<1>2. promotion'[q] = Idle /\ \A r \in Callers \ {q} : promotion'[r] = promotion[r]
  OBVIOUS
<1>3. \A r \in Callers : promotion[r] # Idle => promotion[r].merchant \in Merchants
  BY DEF Promotions
<1>4. NotAhead'
  BY <1>2 DEF NotAhead
<1>5. DueIsEarned'
  BY <1>2, <1>3, MemoryAssumption DEF DueIsEarned, Idle
<1>6. MemoryHeals'
  <2> SUFFICES ASSUME NEW n \in Merchants, ~Promoting(n)', n \notin raced', profile'[n].frequency > 0
               PROVE  profile'[n].memory_state = Earned(profile'[n].frequency)
    BY DEF MemoryHeals
  <2>1. n # m /\ n \notin raced
    OBVIOUS
  <2>2. ~Promoting(n)
    BY <1>2, <2>1 DEF Promoting
  <2> QED
    BY <2>1, <2>2 DEF MemoryHeals
<1>7. losses' \in Nat /\ promotion' \in [Callers -> Promotions \cup {Idle}]
  OBVIOUS
<1> QED
  BY <1>1, <1>4, <1>5, <1>6, <1>7

LEMMA DecayKeeps ==
  ASSUME MemoryInv, DecayStep
  PROVE  MemoryInv'
<1> USE DEF MemoryInv
<1>1. CASE run_archive_sweep
  BY <1>1 DEF run_archive_sweep, NotAhead, DueIsEarned, MemoryHeals, Promoting, memoryVars
<1>2. ASSUME NEW m \in Merchants, GoStale(m) PROVE MemoryInv'
  <2> USE <1>2 DEF GoStale
  <2>1. profile'[m] = [profile[m] EXCEPT !.stale = TRUE] /\ profile'[m] \in Profiles
    BY DEF Profiles
  <2>2. \A n \in Merchants : /\ profile'[n].frequency = profile[n].frequency
                             /\ profile'[n].memory_state = profile[n].memory_state
    BY <2>1 DEF Profiles
  <2>3. \A q \in Callers : promotion[q] # Idle => promotion[q].merchant \in Merchants
    BY DEF Promotions
  <2>4. NotAhead' /\ DueIsEarned'
    BY <2>2, <2>3 DEF NotAhead, DueIsEarned
  <2>5. MemoryHeals'
    BY <2>2 DEF MemoryHeals, Promoting
  <2>6. profile' \in [Merchants -> Profiles]
    BY <2>1
  <2> QED
    BY <2>2, <2>4, <2>5, <2>6
<1> QED
  BY <1>1, <1>2 DEF DecayStep

LEMMA StepMemory == MemoryInv /\ [MemoryNext]_memoryVars => MemoryInv'
<1> SUFFICES ASSUME MemoryInv, [MemoryNext]_memoryVars PROVE MemoryInv'
  OBVIOUS
<1>1. CASE UNCHANGED memoryVars
  BY <1>1 DEF memoryVars, MemoryInv, NotAhead, DueIsEarned, MemoryHeals, Promoting
<1>2. CASE MemoryNext
  BY <1>2, EncounterKeeps, SetStateKeeps, LoseKeeps, DecayKeeps DEF MemoryNext, EncounterStep
<1> QED
  BY <1>1, <1>2

\* The invariant holds through every interleaving of encounters and sweeps.
THEOREM MemoryCorrect == MemorySpec => []MemoryInv
BY InitMemory, StepMemory, PTL DEF MemorySpec

\* A profile whose last encounter ran alone is in the state its frequency earned,
\* whatever races or losses came before it.
THEOREM MemoryHealsCorrect == MemorySpec => []MemoryHeals
<1>1. MemoryInv => MemoryHeals
  BY DEF MemoryInv
<1> QED
  BY <1>1, MemoryCorrect, PTL

\* Only a write that raced with a later encounter takes a profile to a lower state.
THEOREM NeverDemotedCorrect == MemorySpec => NeverDemoted
<1> DEFINE Kept == \A m \in Merchants :
             Rank(profile'[m].memory_state) < Rank(profile[m].memory_state)
               => profile'[m].memory_state = "ARCHIVED" \/ m \in raced
<1>1. MemoryInv /\ [MemoryNext]_memoryVars => [Kept]_profile
  <2> SUFFICES ASSUME MemoryInv, MemoryNext, profile' # profile, NEW n \in Merchants,
                      Rank(profile'[n].memory_state) < Rank(profile[n].memory_state)
               PROVE  profile'[n].memory_state = "ARCHIVED" \/ n \in raced
    BY DEF memoryVars
  <2> USE DEF MemoryInv
  <2>1. /\ profile[n] \in Profiles /\ profile[n].frequency \in Nat
        /\ Rank(profile[n].memory_state) \in Nat
        /\ Rank(Earned(profile[n].frequency)) \in Nat
    <3>1. profile[n] \in Profiles
      OBVIOUS
    <3>2. profile[n].frequency \in Nat /\ profile[n].memory_state \in MemoryStates \cup {"UNSEEN"}
      BY <3>1 DEF Profiles
    <3>3. Rank(profile[n].memory_state) \in Nat
      BY <3>2 DEF MemoryStates, Rank
    <3>4. Rank(Earned(profile[n].frequency)) \in Nat
      BY <3>2, EarnedGrows
    <3> QED
      BY <3>1, <3>2, <3>3, <3>4
  <2>2. ASSUME NEW q \in Callers, NEW m \in Merchants, Encounter(q, m) PROVE FALSE
    <3>1. profile'[n] = IF n = m THEN increment_encounter(profile[m]) ELSE profile[n]
      BY <2>2 DEF Encounter
    <3>2. n = m
      BY <2>1, <3>1
    <3>3. CASE profile[n].frequency = 0
      <4>1. profile[n].memory_state = "UNSEEN" /\ profile'[n].memory_state = "EPHEMERAL"
        BY <3>1, <3>2, <3>3 DEF increment_encounter
      <4> QED
        BY <4>1 DEF Rank
    <3>4. CASE profile[n].frequency > 0
      <4>1. profile'[n].memory_state = profile[n].memory_state
        BY <3>1, <3>2, <3>4 DEF increment_encounter
      <4> QED
        BY <2>1, <4>1
    <3> QED
      BY <2>1, <3>3, <3>4
  <2>3. ASSUME NEW q \in Callers, set_memory_state(q) PROVE n \in raced
    <3> DEFINE m == promotion[q].merchant
    <3>1. promotion[q] \in Promotions /\ m \in Merchants
      BY <2>3 DEF set_memory_state, Promotions
    <3>2. profile'[n] = IF n = m THEN [profile[m] EXCEPT !.memory_state = promotion[q].state]
                        ELSE profile[n]
      BY <2>3 DEF set_memory_state
    <3>3. n = m /\ profile'[n].memory_state = promotion[q].state
      BY <2>1, <3>2 DEF Profiles
    <3>4. profile[m].frequency > 0 /\ promotion[q] # Idle
      BY <2>3 DEF set_memory_state, NotAhead
    <3>5. Rank(profile[m].memory_state) <= Rank(Earned(profile[m].frequency))
      BY <3>1, <3>4 DEF NotAhead
    <3> QED
      BY <2>1, <3>3, <3>4, <3>5 DEF DueIsEarned
  <2>4. ASSUME NEW m \in Merchants, GoStale(m) PROVE FALSE
    <3>1. profile'[n].memory_state = profile[n].memory_state
      BY <2>1, <2>4 DEF GoStale, Profiles
    <3> QED
      BY <2>1, <3>1
  <2> QED
    BY <2>2, <2>3, <2>4 DEF MemoryNext, EncounterStep, DecayStep, LoseEncounter, run_archive_sweep,
        memoryVars
<1>2. MemorySpec => [][MemoryNext]_memoryVars
  BY DEF MemorySpec
<1> QED
  BY <1>1, <1>2, MemoryCorrect, PTL DEF NeverDemoted

LEMMA InitMemoryType == MemoryInit => MemoryTypeOK
BY MemoryAssumption DEF MemoryInit, MemoryTypeOK, Unseen

LEMMA StepMemoryType == MemoryInv /\ MemoryTypeOK /\ [MemoryNext]_memoryVars => MemoryTypeOK'
<1> SUFFICES ASSUME MemoryInv, MemoryTypeOK, [MemoryNext]_memoryVars PROVE MemoryTypeOK'
  OBVIOUS
<1>0. MemoryInv'
  BY StepMemory
<1>1. /\ \A m \in Merchants : profile'[m].frequency = 0 <=> profile'[m].memory_state = "UNSEEN"
      /\ promotion' \in [Callers -> [merchant : Merchants, state : MemoryStates] \cup {Idle}]
      /\ raced' \subseteq Merchants
  BY <1>0 DEF MemoryInv, Promotions
<1> DEFINE Counts(n) == [frequency : 0 .. n, memory_state : MemoryStates \cup {"UNSEEN"},
                         stale : BOOLEAN]
<1>2. /\ profile \in [Merchants -> Counts(encounters)]
      /\ encounters \in 0 .. MaxEncounters /\ losses \in 0 .. MaxLosses
      /\ encounters \in Nat /\ MaxEncounters \in Nat /\ MaxLosses \in Nat
  BY MemoryAssumption DEF MemoryTypeOK
<1>3. SUFFICES /\ profile' \in [Merchants -> Counts(encounters')]
               /\ encounters' \in 0 .. MaxEncounters /\ losses' \in 0 .. MaxLosses
  BY <1>1 DEF MemoryTypeOK
<1>4. ASSUME NEW q \in Callers, NEW m \in Merchants, Encounter(q, m)
      PROVE  /\ profile' \in [Merchants -> Counts(encounters')]
             /\ encounters' \in 0 .. MaxEncounters /\ losses' \in 0 .. MaxLosses
  <2>1. /\ encounters' = encounters + 1 /\ encounters < MaxEncounters
        /\ profile' = [profile EXCEPT ![m] = increment_encounter(profile[m])]
        /\ losses' = losses
    BY <1>4 DEF Encounter
  <2>2. profile[m] \in Counts(encounters)
    BY <1>2
  <2>3. increment_encounter(profile[m]) \in Counts(encounters + 1)
    BY <1>2, <2>2 DEF increment_encounter, MemoryStates
  <2>4. Counts(encounters) \subseteq Counts(encounters + 1)
    BY <1>2
  <2>5. profile \in [Merchants -> Counts(encounters + 1)]
    <3> HIDE DEF Counts
    <3> QED
      BY <1>2, <2>4
  <2>6. profile' \in [Merchants -> Counts(encounters')]
    <3> HIDE DEF Counts
    <3> QED
      BY <2>1, <2>3, <2>5
  <2> QED
    BY <1>2, <2>1, <2>6
<1>5. ASSUME NEW q \in Callers, set_memory_state(q)
      PROVE  /\ profile' \in [Merchants -> Counts(encounters)]
             /\ UNCHANGED <<encounters, losses>>
  <2>1. promotion[q].merchant \in Merchants /\ promotion[q].state \in MemoryStates
    BY <1>5 DEF set_memory_state, MemoryInv, Promotions
  <2> QED
    BY <1>2, <1>5, <2>1 DEF set_memory_state
<1>6. ASSUME NEW q \in Callers, LoseEncounter(q)
      PROVE  UNCHANGED <<profile, encounters>> /\ losses' \in 0 .. MaxLosses
  BY <1>2, <1>6 DEF LoseEncounter
<1>7. ASSUME DecayStep
      PROVE  /\ profile' \in [Merchants -> Counts(encounters)]
             /\ UNCHANGED <<encounters, losses>>
  BY <1>2, <1>7 DEF DecayStep, run_archive_sweep, GoStale, memoryVars
<1> HIDE DEF Counts
<1> QED
  BY <1>2, <1>4, <1>5, <1>6, <1>7 DEF MemoryNext, EncounterStep, memoryVars

\* A frequency and a memory state are stored together, and no profile counts more
\* encounters than there were.
THEOREM MemoryTypeCorrect == MemorySpec => []MemoryTypeOK
<1>1. MemorySpec => [](MemoryInv /\ MemoryTypeOK)
  BY InitMemory, StepMemory, InitMemoryType, StepMemoryType, PTL DEF MemorySpec
<1> QED
  BY <1>1, PTL

================================================================================
