--------------------------- MODULE CorrectionsProofs ---------------------------
(***************************************************************************)
(* Proofs about Corrections, for any rows, owners, merchants and           *)
(* categories, any threshold and any number of checks in progress.         *)
(***************************************************************************)
EXTENDS Corrections, FiniteSetTheorems, TLAPS

Steps == {"none", "lookup", "save", "apply", "queue", "done", "broken"}

Records == [step : Steps, about : Transactions, gone : BOOLEAN,
            merchant : {MerchantOf[t] : t \in Transactions} \cup {Unnamed}, to : Categories]

(***************************************************************************)
(* The rows and the corrections made to them.                              *)
(***************************************************************************)

\* What a correction is about, and which rows it reaches, is fixed.
Settled(n) == correction[n].step \in {"queue", "done", "broken"}

\* It has been applied, and not broken off.
InEffect(n) == correction[n].step \in {"queue", "done"}

\* A correction that reached the queueing was recorded, and is not queued before its
\* last step; what had ended when another was submitted stays ended.
Recorded ==
  \A n \in Corrected :
    /\ correction[n].step \in {"apply", "queue", "done"} => n \in feedback
    /\ queue[n] # "none" => correction[n].step = "done"
    /\ before[n] \subseteq Ended

\* The correction that decided a row had reached it.
Decisive ==
  \A t \in Transactions : decided[t] # NoCorrection =>
    decided[t] \in feedback /\ Settled(decided[t]) /\ t \in Reached(decided[t])

\* The rows a correction reached are decided by it or by one that was applied later,
\* which had not ended when it was submitted.
InForce ==
  \A n \in Corrected : InEffect(n) => \A t \in Reached(n) :
    /\ decided[t] # NoCorrection /\ decided[t] \notin before[n]
    /\ fresh[decided[t]] \subseteq fresh[n]

IntakeTypes ==
  /\ category \in [Transactions -> Categories \cup {NoRow}]
  /\ verified \subseteq Stored
  /\ decided \in [Transactions -> Corrected \cup {NoCorrection}]
  /\ fresh \in [Corrected -> SUBSET Transactions] /\ before \in [Corrected -> SUBSET Corrected]
  /\ correction \in [Corrected -> Records]
  /\ feedback \subseteq Corrected
  /\ queue \in [Corrected -> {"none", "pending", "processing"}]

IntakeInv ==
  IntakeTypes /\ Recorded /\ Decisive /\ InForce /\ CorrectionCoversMerchant /\ OwnRowsOnly

LEMMA NoCorrectionIsNone == NoCorrection \notin Corrected
BY CorrectionsBounds DEF NoCorrection, Corrected

LEMMA InitIntake == CorrectionsInit => IntakeInv
<1> SUFFICES ASSUME CorrectionsInit PROVE IntakeInv
  OBVIOUS
<1>1. (CHOOSE t \in Transactions : TRUE) \in Transactions
  BY CorrectionsAssumption
<1>2. Stored = {}
  BY DEF CorrectionsInit, Stored
<1>3. correction \in [Corrected -> Records]
  BY <1>1, CorrectionsAssumption DEF CorrectionsInit, Steps, Records
<1>4. IntakeTypes
  BY <1>2, <1>3 DEF CorrectionsInit, IntakeTypes
<1>5. Recorded /\ Decisive /\ InForce
  BY DEF CorrectionsInit, Recorded, Decisive, InForce, InEffect
<1>6. CorrectionCoversMerchant /\ OwnRowsOnly
  BY <1>2 DEF CorrectionCoversMerchant, OwnRowsOnly
<1> QED
  BY <1>4, <1>5, <1>6 DEF IntakeInv

\* Which rows a correction reaches depends on its own record.
LEMMA ReachKept ==
  ASSUME NEW n \in Corrected,
         /\ correction'[n].about = correction[n].about /\ correction'[n].gone = correction[n].gone
         /\ correction'[n].merchant = correction[n].merchant
  PROVE  Reached(n)' = Reached(n)
BY DEF Reached, RowsFor

\* Settled corrections are left as they are.
SettledKept ==
  \A n \in Corrected : Settled(n) =>
    /\ Settled(n)'
    /\ correction'[n].about = correction[n].about /\ correction'[n].gone = correction[n].gone
    /\ correction'[n].merchant = correction[n].merchant /\ correction'[n].to = correction[n].to

\* No correction is applied.
LEMMA ForceKept ==
  ASSUME IntakeInv, SettledKept, decided' = decided, feedback \subseteq feedback',
         \A n \in Corrected : InEffect(n)' => InEffect(n) /\ before'[n] = before[n],
         \A m, n \in Corrected : Settled(m) /\ Settled(n) /\ fresh[m] \subseteq fresh[n]
                                   => fresh'[m] \subseteq fresh'[n]
  PROVE  Decisive' /\ InForce'
<1>1. \A n \in Corrected : Settled(n) => Reached(n)' = Reached(n) /\ Settled(n)'
  BY ReachKept DEF SettledKept
<1>2. \A t \in Transactions : decided[t] # NoCorrection => decided[t] \in Corrected
  BY DEF IntakeInv, IntakeTypes
<1>3. Decisive'
  BY <1>1, <1>2 DEF IntakeInv, Decisive
<1>4. ASSUME NEW n \in Corrected, InEffect(n)', NEW t \in Reached(n)'
      PROVE  /\ decided'[t] # NoCorrection /\ decided'[t] \notin before'[n]
             /\ fresh'[decided'[t]] \subseteq fresh'[n]
  <2>1. InEffect(n) /\ Settled(n) /\ before'[n] = before[n] /\ t \in Reached(n)
    BY <1>1, <1>4 DEF InEffect, Settled
  <2>2. /\ decided[t] # NoCorrection /\ decided[t] \notin before[n]
        /\ fresh[decided[t]] \subseteq fresh[n]
    BY <2>1 DEF IntakeInv, InForce
  <2>3. t \in Transactions
    BY <2>1 DEF Reached, RowsFor, IntakeInv, IntakeTypes, Records
  <2>4. decided[t] \in Corrected /\ Settled(decided[t])
    BY <1>2, <2>2, <2>3 DEF IntakeInv, Decisive
  <2> QED
    BY <2>1, <2>2, <2>4
<1>5. InForce'
  BY <1>4 DEF InForce
<1> QED
  BY <1>3, <1>5

\* Nor does a row change.
LEMMA RowsKept ==
  ASSUME IntakeInv, SettledKept, UNCHANGED <<rows, fresh>>
  PROVE  CorrectionCoversMerchant' /\ OwnRowsOnly' /\ Stored' = Stored
<1>1. UNCHANGED <<category, verified, decided, fresh>>
  BY DEF rows
<1>2. Stored' = Stored
  BY <1>1 DEF Stored
<1>3. ASSUME NEW n \in Corrected, NEW t \in Stored \ fresh[n], decided[t] = n
      PROVE  category[t] = correction'[n].to /\ t \in verified
  <2>1. t \in Transactions /\ decided[t] # NoCorrection
    BY <1>3, NoCorrectionIsNone DEF Stored
  <2>2. Settled(n)
    BY <1>3, <2>1 DEF IntakeInv, Decisive
  <2> QED
    BY <1>3, <2>2 DEF IntakeInv, CorrectionCoversMerchant, SettledKept
<1>4. CorrectionCoversMerchant'
  BY <1>1, <1>2, <1>3 DEF CorrectionCoversMerchant
<1>5. OwnRowsOnly'
  BY <1>1, <1>2 DEF IntakeInv, OwnRowsOnly
<1> QED
  BY <1>2, <1>4, <1>5

\* What an upload does to the rows.
LEMMA UploadKeeps ==
  ASSUME IntakeInv, NEW ts \in SUBSET Transactions, bulk_upsert(ts)
  PROVE  IntakeInv'
<1>0. /\ IntakeTypes /\ Recorded
      /\ category' = [t \in Transactions |-> IF t \in ts THEN RuleCategory ELSE category[t]]
      /\ verified' = verified \ ts
      /\ fresh' = [n \in Corrected |-> IF At(n, "none") THEN {} ELSE fresh[n] \cup ts]
      /\ UNCHANGED <<correction, feedback, queue, decided, before>>
  BY DEF IntakeInv, bulk_upsert, intake
<1>1. Stored' = Stored \cup ts
  BY <1>0, CorrectionsAssumption DEF Stored, NoRow, IntakeTypes
<1>2. IntakeTypes'
  BY <1>0, <1>1, CorrectionsAssumption DEF IntakeTypes
<1>3. Recorded'
  BY <1>0 DEF Recorded, Ended
<1>4. \A n \in Corrected : Settled(n) => fresh'[n] = fresh[n] \cup ts
  BY <1>0 DEF Settled, At
<1>5. Decisive' /\ InForce'
  <2>1. SettledKept
    BY <1>0 DEF SettledKept, Settled
  <2>2. \A n \in Corrected : InEffect(n)' => InEffect(n) /\ before'[n] = before[n]
    BY <1>0 DEF InEffect
  <2> QED
    BY <1>0, <1>4, <2>1, <2>2, ForceKept
<1>6. CorrectionCoversMerchant'
  <2> SUFFICES ASSUME NEW n \in Corrected, NEW t \in Stored' \ fresh'[n], decided'[t] = n
               PROVE  category'[t] = correction'[n].to /\ t \in verified'
    BY DEF CorrectionCoversMerchant
  <2>1. t \in Transactions /\ decided[t] = n /\ Settled(n)
    BY <1>0, NoCorrectionIsNone DEF Stored, IntakeInv, Decisive
  <2>2. t \notin ts /\ t \notin fresh[n] /\ t \in Stored
    BY <1>1, <1>4, <2>1
  <2> QED
    BY <1>0, <2>1, <2>2 DEF IntakeInv, CorrectionCoversMerchant
<1>7. OwnRowsOnly'
  BY <1>0, <1>1 DEF IntakeInv, OwnRowsOnly, Stored
<1> QED
  BY <1>2, <1>3, <1>5, <1>6, <1>7 DEF IntakeInv

\* What a delete does to them.
LEMMA DeleteKeeps ==
  ASSUME IntakeInv, NEW ts \in SUBSET Transactions, delete_for_statement(ts)
  PROVE  IntakeInv'
<1>0. /\ IntakeTypes /\ Recorded
      /\ category' = [t \in Transactions |-> IF t \in ts THEN NoRow ELSE category[t]]
      /\ verified' = verified \ ts
      /\ UNCHANGED <<feedback, queue, decided, fresh, before>>
  BY DEF IntakeInv, delete_for_statement
<1>1. /\ correction' \in [Corrected -> Records]
      /\ \A n \in Corrected :
           /\ correction'[n].step = correction[n].step /\ correction'[n].to = correction[n].to
           /\ correction'[n].about = correction[n].about
           /\ correction'[n].merchant = correction[n].merchant
           /\ ~Unapplied(n) => correction'[n].gone = correction[n].gone
  <2>1. correction' = [n \in Corrected |->
          [correction[n] EXCEPT !.gone = @ \/ (Unapplied(n) /\ correction[n].about \in ts)]]
    BY DEF delete_for_statement
  <2>2. \A n \in Corrected : correction[n] \in Records
    BY <1>0 DEF IntakeTypes
  <2> QED
    BY <2>1, <2>2 DEF Records
<1>2. Stored' = Stored \ ts
  BY <1>0 DEF Stored
<1>3. IntakeTypes'
  BY <1>0, <1>1, <1>2 DEF IntakeTypes
<1>4. Recorded'
  BY <1>0, <1>1 DEF Recorded, Ended
<1>5. SettledKept
  BY <1>1 DEF SettledKept, Settled, Unapplied
<1>6. Decisive' /\ InForce'
  <2>1. \A n \in Corrected : InEffect(n)' => InEffect(n) /\ before'[n] = before[n]
    BY <1>0, <1>1 DEF InEffect
  <2> QED
    BY <1>0, <1>5, <2>1, ForceKept
<1>7. CorrectionCoversMerchant'
  BY <1>0, <1>1, <1>2 DEF IntakeInv, CorrectionCoversMerchant, Stored
<1>8. OwnRowsOnly'
  BY <1>0, <1>2 DEF IntakeInv, OwnRowsOnly, Stored
<1> QED
  BY <1>3, <1>4, <1>6, <1>7, <1>8 DEF IntakeInv

\* The submission of a correction.
LEMMA SubmitKeeps ==
  ASSUME IntakeInv, NEW n \in Corrected, NEW t \in Transactions, NEW c \in Categories,
         submit_feedback(n, t, c)
  PROVE  IntakeInv'
<1> DEFINE r == [step |-> "lookup", about |-> t, gone |-> FALSE, merchant |-> Unnamed, to |-> c]
<1>0. /\ IntakeTypes /\ Recorded /\ correction[n].step = "none"
      /\ correction' = [correction EXCEPT ![n] = r] /\ before' = [before EXCEPT ![n] = Ended]
      /\ UNCHANGED <<rows, fresh, feedback, queue>>
  BY DEF IntakeInv, submit_feedback, At
<1>1. r \in Records /\ r.step = "lookup"
  BY DEF Records, Steps
<1> HIDE DEF r
<1>2. /\ correction' \in [Corrected -> Records] /\ correction'[n] = r
      /\ \A i \in Corrected \ {n} : correction'[i] = correction[i]
  BY <1>0, <1>1 DEF IntakeTypes
<1>3. Ended' = Ended /\ Ended \subseteq Corrected
  BY <1>0, <1>1, <1>2 DEF Ended
<1>4. before' \in [Corrected -> SUBSET Corrected] /\ before'[n] = Ended
      /\ \A i \in Corrected \ {n} : before'[i] = before[i]
  BY <1>0, <1>3 DEF IntakeTypes
<1>5. SettledKept
  BY <1>0, <1>2 DEF SettledKept, Settled
<1>6. CorrectionCoversMerchant' /\ OwnRowsOnly' /\ Stored' = Stored
  BY <1>0, <1>5, RowsKept
<1>7. IntakeTypes'
  BY <1>0, <1>2, <1>4, <1>6 DEF IntakeTypes, rows
<1>8. Recorded'
  BY <1>0, <1>1, <1>2, <1>3, <1>4 DEF Recorded
<1>9. Decisive' /\ InForce'
  <2>1. \A i \in Corrected : InEffect(i)' => InEffect(i) /\ before'[i] = before[i]
    BY <1>1, <1>2, <1>4 DEF InEffect
  <2> QED
    BY <1>0, <1>5, <2>1, ForceKept DEF rows
<1> QED
  BY <1>6, <1>7, <1>8, <1>9 DEF IntakeInv

\* The steps of a correction that touch no row.
LEMMA StepsKeep ==
  ASSUME IntakeInv, NEW n \in Corrected,
         \/ lookup_merchant_name(n) \/ SaveFeedback(n) \/ queue_for_retraining(n)
         \/ CorrectionBreaks(n)
  PROVE  IntakeInv'
<1> DEFINE r == correction[n]
<1>0. /\ IntakeTypes /\ Recorded /\ UNCHANGED <<rows, fresh, before>>
      /\ feedback \subseteq feedback' /\ feedback' \subseteq Corrected
      /\ queue' \in [Corrected -> {"none", "pending", "processing"}]
  BY DEF IntakeInv, IntakeTypes, lookup_merchant_name, SaveFeedback, Save, queue_for_retraining,
         CorrectionBreaks, past
<1>1. r \in Records
  BY <1>0 DEF IntakeTypes
<1>2. /\ correction' \in [Corrected -> Records]
      /\ \A i \in Corrected \ {n} : correction'[i] = correction[i] /\ queue'[i] = queue[i]
      /\ correction'[n].about = r.about /\ correction'[n].gone = r.gone
      /\ correction'[n].to = r.to
      /\ Settled(n) => correction'[n].merchant = r.merchant /\ Settled(n)'
      /\ InEffect(n)' => InEffect(n)
      /\ n \in Ended => n \in Ended'
      /\ correction'[n].step \in {"apply", "queue", "done"} => n \in feedback'
      /\ queue'[n] # "none" => correction'[n].step = "done"
  <2> USE DEF Settled, InEffect, Ended
  <2>1. CASE lookup_merchant_name(n)
    <3> DEFINE merchant == IF r.gone THEN Unnamed ELSE MerchantOf[r.about]
               q        == [r EXCEPT !.merchant = merchant, !.step = "save"]
    <3>1. r.step = "lookup" /\ correction' = [correction EXCEPT ![n] = q] /\ queue' = queue
      BY <1>0, <2>1 DEF lookup_merchant_name, At, IntakeTypes
    <3>2. merchant \in {MerchantOf[t] : t \in Transactions} \cup {Unnamed}
      BY <1>1 DEF Records
    <3> HIDE DEF merchant
    <3>3. /\ q \in Records /\ q.step = "save" /\ q.about = r.about /\ q.gone = r.gone
          /\ q.to = r.to
      BY <1>1, <3>2 DEF Records, Steps
    <3> HIDE DEF q
    <3> QED
      BY <1>0, <3>1, <3>3 DEF IntakeTypes, Recorded
  <2>2. ASSUME NEW step \in Steps, Goto(n, step)
        PROVE  /\ correction' \in [Corrected -> Records]
               /\ \A i \in Corrected \ {n} : correction'[i] = correction[i]
               /\ correction'[n].about = r.about /\ correction'[n].gone = r.gone
               /\ correction'[n].to = r.to /\ correction'[n].merchant = r.merchant
               /\ correction'[n].step = step
    BY <1>0, <1>1, <2>2 DEF Goto, Records, IntakeTypes
  <2>3. CASE SaveFeedback(n)
    <3>1. Goto(n, "apply") /\ r.step = "save" /\ queue' = queue /\ feedback' = feedback \cup {n}
      BY <2>3 DEF SaveFeedback, Save, At
    <3> QED
      BY <1>0, <2>2, <3>1 DEF Recorded, Steps
  <2>4. CASE queue_for_retraining(n)
    <3>1. Goto(n, "done") /\ r.step = "queue" /\ queue' = [queue EXCEPT ![n] = "pending"]
          /\ feedback' = feedback
      BY <2>4 DEF queue_for_retraining, At
    <3> QED
      BY <1>0, <2>2, <3>1 DEF Recorded, Steps, IntakeTypes
  <2>5. CASE CorrectionBreaks(n)
    <3>1. Goto(n, "broken") /\ r.step \in {"lookup", "save", "apply", "queue"} /\ queue' = queue
      BY <2>5 DEF CorrectionBreaks, Unapplied, At
    <3> QED
      BY <1>0, <2>2, <3>1 DEF Recorded, Steps
  <2> QED
    BY <2>1, <2>3, <2>4, <2>5
<1>3. SettledKept
  BY <1>2 DEF SettledKept, Settled
<1>4. CorrectionCoversMerchant' /\ OwnRowsOnly' /\ Stored' = Stored
  BY <1>0, <1>3, RowsKept
<1>5. Decisive' /\ InForce'
  <2>1. \A i \in Corrected : InEffect(i)' => InEffect(i) /\ before'[i] = before[i]
    BY <1>0, <1>2 DEF InEffect
  <2> QED
    BY <1>0, <1>3, <2>1, ForceKept DEF rows
<1>6. IntakeTypes'
  BY <1>0, <1>2, <1>4 DEF IntakeTypes, rows
<1>7. Recorded'
  <2>1. Ended \subseteq Ended'
    BY <1>2 DEF Ended
  <2> QED
    BY <1>0, <1>2, <2>1 DEF Recorded
<1> QED
  BY <1>4, <1>5, <1>6, <1>7 DEF IntakeInv

\* At most the status of a queued correction changes.
LEMMA IntakeSame ==
  ASSUME IntakeInv, UNCHANGED <<rows, fresh, before, correction, feedback>>,
         queue' \in [Corrected -> {"none", "pending", "processing"}],
         \A n \in Corrected : queue'[n] # "none" => queue[n] # "none"
  PROVE  IntakeInv'
<1>1. SettledKept
  BY DEF SettledKept, Settled
<1>2. CorrectionCoversMerchant' /\ OwnRowsOnly' /\ Stored' = Stored
  BY <1>1, RowsKept
<1>3. Decisive' /\ InForce'
  BY <1>1, ForceKept DEF rows, InEffect
<1>4. IntakeTypes' /\ Recorded'
  BY <1>2 DEF IntakeInv, IntakeTypes, Recorded, Ended, rows
<1> QED
  BY <1>2, <1>3, <1>4 DEF IntakeInv

\* The writing of the rows a correction reaches.
LEMMA UpdateKeeps ==
  ASSUME IntakeInv, NEW n \in Corrected, update_category(n)
  PROVE  IntakeInv'
<1> DEFINE r  == correction[n]
           rs == CorrectedRows(n)
<1>0. /\ IntakeTypes /\ Recorded /\ r.step = "apply" /\ r \in Records /\ n \in feedback
      /\ category' = [t \in Transactions |-> IF t \in rs THEN r.to ELSE category[t]]
      /\ verified' = verified \cup rs
      /\ decided' = [t \in Transactions |-> IF t \in Reached(n) THEN n ELSE decided[t]]
      /\ fresh' = [fresh EXCEPT ![n] = {}]
      /\ correction' = [correction EXCEPT ![n].step = "queue"]
      /\ UNCHANGED <<before, feedback, queue>>
  BY DEF IntakeInv, IntakeTypes, Recorded, update_category, At, Goto
<1>1. rs = Reached(n) \cap Stored /\ rs \subseteq Stored /\ rs \subseteq Transactions
  BY DEF CorrectedRows, Stored
<1> HIDE DEF rs
<1>2. /\ correction' \in [Corrected -> Records] /\ correction'[n].step = "queue"
      /\ \A i \in Corrected \ {n} : correction'[i] = correction[i]
      /\ \A i \in Corrected :
           /\ correction'[i].about = correction[i].about /\ correction'[i].gone = correction[i].gone
           /\ correction'[i].merchant = correction[i].merchant
           /\ correction'[i].to = correction[i].to
  BY <1>0 DEF Records, Steps, IntakeTypes
<1>3. \A i \in Corrected : Reached(i)' = Reached(i)
  BY <1>2, ReachKept
<1>4. Stored' = Stored
  BY <1>0, <1>1, CorrectionsAssumption DEF Stored, NoRow, Records, IntakeTypes
<1>5. /\ fresh' \in [Corrected -> SUBSET Transactions] /\ fresh'[n] = {}
      /\ \A i \in Corrected \ {n} : fresh'[i] = fresh[i]
  BY <1>0 DEF IntakeTypes
<1>6. IntakeTypes'
  BY <1>0, <1>1, <1>2, <1>4, <1>5 DEF IntakeTypes, Records
<1>7. Recorded'
  BY <1>0, <1>2 DEF Recorded, Ended
<1>8. \A t \in Transactions \ Reached(n) : decided'[t] = decided[t] /\ decided[t] # n
  BY <1>0, NoCorrectionIsNone DEF IntakeInv, Decisive, Settled
<1>9. \A t \in Transactions \cap Reached(n) : decided'[t] = n
  BY <1>0
<1>10. Decisive'
  <2>1. \A t \in Transactions : decided'[t] # NoCorrection => decided'[t] \in Corrected
    BY <1>6 DEF IntakeTypes
  <2>2. ASSUME NEW t \in Transactions, NEW i \in Corrected, decided'[t] = i
        PROVE  i \in feedback' /\ Settled(i)' /\ t \in Reached(i)
    <3>1. CASE t \in Reached(n)
      BY <1>0, <1>2, <1>9, <2>2, <3>1 DEF Settled
    <3>2. CASE t \notin Reached(n)
      <4>1. decided[t] = i /\ i # n /\ decided[t] # NoCorrection
        BY <1>8, <2>2, <3>2, NoCorrectionIsNone
      <4>2. i \in feedback /\ Settled(i) /\ t \in Reached(i)
        BY <4>1 DEF IntakeInv, Decisive
      <4> QED
        BY <1>0, <1>2, <4>1, <4>2 DEF Settled
    <3> QED
      BY <3>1, <3>2
  <2> QED
    BY <1>3, <2>1, <2>2 DEF Decisive
<1>11. InForce'
  <2> SUFFICES ASSUME NEW i \in Corrected, InEffect(i)', NEW t \in Reached(i)
               PROVE  /\ decided'[t] # NoCorrection /\ decided'[t] \notin before'[i]
                      /\ fresh'[decided'[t]] \subseteq fresh'[i]
    BY <1>3 DEF InForce
  <2>1. t \in Transactions
    BY <1>0 DEF Reached, RowsFor, IntakeTypes, Records
  <2>2. CASE t \in Reached(n)
    <3>1. n \notin before[i]
      BY <1>0 DEF Recorded, Ended
    <3> QED
      BY <1>0, <1>5, <1>9, <2>1, <2>2, <3>1, NoCorrectionIsNone
  <2>3. CASE t \notin Reached(n)
    <3>1. i # n /\ InEffect(i)
      BY <1>2, <2>3 DEF InEffect
    <3>2. decided'[t] = decided[t] /\ decided[t] # n /\ decided[t] \in Corrected \cup {NoCorrection}
      BY <1>0, <1>8, <2>1, <2>3 DEF IntakeTypes
    <3>3. /\ decided[t] # NoCorrection /\ decided[t] \notin before[i]
          /\ fresh[decided[t]] \subseteq fresh[i]
      BY <3>1 DEF IntakeInv, InForce
    <3> QED
      BY <1>0, <1>5, <3>1, <3>2, <3>3
  <2> QED
    BY <2>2, <2>3
<1>12. CorrectionCoversMerchant'
  <2> SUFFICES ASSUME NEW i \in Corrected, NEW t \in Stored \ fresh'[i], decided'[t] = i
               PROVE  category'[t] = correction'[i].to /\ t \in verified'
    BY <1>4 DEF CorrectionCoversMerchant
  <2>1. t \in Transactions
    BY DEF Stored
  <2>2. CASE t \in Reached(n)
    BY <1>0, <1>1, <1>2, <1>9, <2>1, <2>2
  <2>3. CASE t \notin Reached(n)
    <3>1. decided[t] = i /\ i # n /\ t \notin fresh[i] /\ t \notin rs
      BY <1>1, <1>5, <1>8, <2>1, <2>3
    <3>2. category[t] = correction[i].to /\ t \in verified
      BY <3>1 DEF IntakeInv, CorrectionCoversMerchant
    <3> QED
      BY <1>0, <1>2, <2>1, <3>1, <3>2
  <2> QED
    BY <2>2, <2>3
<1>13. OwnRowsOnly'
  <2> SUFFICES ASSUME NEW t \in Stored, decided'[t] = NoCorrection
               PROVE  t \notin verified' /\ category'[t] = RuleCategory
    BY <1>4 DEF OwnRowsOnly
  <2>1. t \in Transactions /\ t \notin Reached(n) /\ t \notin rs /\ decided[t] = NoCorrection
    BY <1>1, <1>8, <1>9, NoCorrectionIsNone DEF Stored
  <2> QED
    BY <1>0, <2>1 DEF IntakeInv, OwnRowsOnly
<1> QED
  BY <1>6, <1>7, <1>10, <1>11, <1>12, <1>13 DEF IntakeInv

(***************************************************************************)
(* The queue and its checks.                                               *)
(***************************************************************************)

Processing == {c \in Corrected : queue[c] = "processing"}
Check      == [step : {"idle", "lock", "dispatch"}, batch : SUBSET Corrected, beside : BOOLEAN]

\* What was locked is in one batch only, under way or in training.
LockedOnce ==
  /\ \A k \in Checkers : check[k].batch \subseteq Processing
  /\ \A k, l \in Checkers : check[k].batch \cap check[l].batch # {} => k = l
  /\ \A i \in DOMAIN trainings : trainings[i].batch \subseteq Processing
  /\ \A k \in Checkers, i \in DOMAIN trainings : check[k].batch \cap trainings[i].batch = {}

\* A check that nobody ran beside is the only one, and found enough.
SoloOnEnough ==
  \A k \in Checkers : Checking(k) /\ ~check[k].beside =>
    /\ \A l \in Checkers : Checking(l) => l = k
    /\ check[k].step = "lock" => Cardinality(Pending) >= Threshold
    /\ check[k].step = "dispatch" => Cardinality(check[k].batch) >= Threshold

BatchInv ==
  /\ check \in [Checkers -> Check]
  /\ \A k \in Checkers : check[k].step # "dispatch" => check[k].batch = {}
  /\ trainings \in Seq([batch : SUBSET Corrected, beside : BOOLEAN])
  /\ LockedOnce /\ TrainedOnce /\ SoloOnEnough /\ TrainedOnEnough

CorrectionsInv == IntakeInv /\ BatchInv

LEMMA FiniteCorrected == \A S \in SUBSET Corrected : IsFiniteSet(S) /\ Cardinality(S) \in Nat
<1>1. 1 \in Int /\ MaxCorrections \in Int
  BY CorrectionsBounds
<1>2. IsFiniteSet(1 .. MaxCorrections)
  BY <1>1, FS_Interval
<1> QED
  BY <1>2, FS_Subset, FS_CardinalityType DEF Corrected

LEMMA InitBatch == CorrectionsInit => BatchInv
BY DEF CorrectionsInit, BatchInv, NoCheck, Check, Checking, LockedOnce, TrainedOnce, SoloOnEnough,
       TrainedOnEnough

\* A step that leaves checks and trainings alone, and at most adds to the queue.
LEMMA QueueingKeepsBatches ==
  ASSUME IntakeInv, BatchInv, check' = check, trainings' = trainings,
         \/ queue' = queue
         \/ \E n \in Corrected : queue_for_retraining(n)
  PROVE  BatchInv'
<1>1. Processing' = Processing /\ Pending \subseteq Pending' /\ Pending' \subseteq Corrected
  <2>1. CASE queue' = queue
    BY <2>1 DEF Processing, Pending
  <2>2. ASSUME NEW n \in Corrected, queue_for_retraining(n)
        PROVE  Processing' = Processing /\ Pending \subseteq Pending' /\ Pending' \subseteq Corrected
    <3>1. queue[n] = "none" /\ queue' = [queue EXCEPT ![n] = "pending"]
      BY <2>2 DEF queue_for_retraining, At, IntakeInv, Recorded
    <3> QED
      BY <3>1 DEF Processing, Pending, IntakeInv, IntakeTypes
  <2> QED
    BY <2>1, <2>2
<1>2. Cardinality(Pending) <= Cardinality(Pending') /\ Cardinality(Pending) \in Nat
      /\ Cardinality(Pending') \in Nat
  BY <1>1, FiniteCorrected, FS_Subset
<1>3. LockedOnce' /\ TrainedOnce' /\ TrainedOnEnough'
  BY <1>1 DEF BatchInv, LockedOnce, TrainedOnce, TrainedOnEnough
<1>4. Cardinality(Pending) >= Threshold => Cardinality(Pending') >= Threshold
  BY <1>2, CorrectionsBounds
<1>5. SoloOnEnough'
  BY <1>4 DEF BatchInv, SoloOnEnough, Checking
<1> QED
  BY <1>3, <1>5 DEF BatchInv

LEMMA CheckKeeps ==
  ASSUME BatchInv, NEW k \in Checkers, check_retraining_status(k)
  PROVE  BatchInv'
<1> USE DEF BatchInv, check_retraining_status, StartCheck
<1>1. check'[k] = [step |-> "lock", batch |-> {}, beside |-> Beside(k)] /\ check'[k] \in Check
  BY DEF Check, Beside
<1>2. \A l \in Checkers \ {k} :
        /\ check'[l] = [check[l] EXCEPT !.beside = Checking(l)] /\ check'[l] \in Check
        /\ check'[l].step = check[l].step /\ check'[l].batch = check[l].batch
        /\ check'[l].beside = Checking(l)
  BY DEF Check, Checking
<1>3. check' \in [Checkers -> Check]
  BY <1>1, <1>2
<1>4. trainings' = trainings /\ queue' = queue /\ check[k].batch = {}
  BY DEF Checking, batches
<1>5. \A l \in Checkers : check'[l].batch = check[l].batch
  BY <1>1, <1>2, <1>4
<1>6. LockedOnce' /\ TrainedOnce' /\ TrainedOnEnough'
  BY <1>4, <1>5 DEF LockedOnce, TrainedOnce, TrainedOnEnough, Processing
<1>7. SoloOnEnough'
  <2> SUFFICES ASSUME NEW j \in Checkers, Checking(j)', ~check'[j].beside
               PROVE  /\ \A l \in Checkers : Checking(l)' => l = j
                      /\ check'[j].step = "lock" => Cardinality(Pending') >= Threshold
                      /\ check'[j].step = "dispatch" => Cardinality(check'[j].batch) >= Threshold
    BY DEF SoloOnEnough
  <2>1. j = k
    BY <1>2 DEF Checking
  <2>2. \A l \in Checkers \ {k} : ~Checking(l)
    BY <1>1, <2>1 DEF Beside
  <2>3. Pending' = Pending
    BY <1>4 DEF Pending
  <2> QED
    BY <1>1, <1>2, <2>1, <2>2, <2>3 DEF Checking
<1>8. \A l \in Checkers : check'[l].step # "dispatch" => check'[l].batch = {}
  BY <1>1, <1>2
<1> QED
  BY <1>3, <1>4, <1>6, <1>7, <1>8

LEMMA LockKeeps ==
  ASSUME IntakeInv, BatchInv, NEW k \in Checkers, LockPending(k)
  PROVE  BatchInv'
<1> USE DEF BatchInv, LockPending, Lock
<1>1. check[k] \in Check /\ check[k].step = "lock" /\ check[k].batch = {}
  OBVIOUS
<1>2. /\ check'[k] = [check[k] EXCEPT !.step = "dispatch", !.batch = Pending]
      /\ check'[k] \in Check
      /\ check'[k].batch = Pending /\ check'[k].step = "dispatch"
      /\ check'[k].beside = check[k].beside
  BY <1>1 DEF Check, Pending
<1>3. \A l \in Checkers \ {k} : check'[l] = check[l]
  OBVIOUS
<1>4. check' \in [Checkers -> Check]
  BY <1>2
<1>5. Processing' = Processing \cup Pending /\ Pending \cap Processing = {}
  BY DEF Processing, Pending, IntakeInv, IntakeTypes
<1>6. trainings' = trainings
  OBVIOUS
<1>7. LockedOnce' /\ TrainedOnce' /\ TrainedOnEnough'
  BY <1>2, <1>3, <1>5, <1>6 DEF LockedOnce, TrainedOnce, TrainedOnEnough
<1>8. SoloOnEnough'
  <2> SUFFICES ASSUME NEW j \in Checkers, Checking(j)', ~check'[j].beside
               PROVE  /\ \A l \in Checkers : Checking(l)' => l = j
                      /\ check'[j].step = "lock" => Cardinality(Pending') >= Threshold
                      /\ check'[j].step = "dispatch" => Cardinality(check'[j].batch) >= Threshold
    BY DEF SoloOnEnough
  <2>1. Checking(k) /\ \A l \in Checkers : Checking(l)' => Checking(l)
    BY <1>1, <1>3 DEF Checking
  <2>2. ~check[j].beside
    BY <1>2, <1>3
  <2>3. j = k
    BY <2>1, <2>2 DEF SoloOnEnough
  <2> QED
    BY <1>1, <1>2, <2>1, <2>2, <2>3 DEF SoloOnEnough
<1> QED
  BY <1>2, <1>3, <1>4, <1>6, <1>7, <1>8

LEMMA DispatchKeeps ==
  ASSUME BatchInv, NEW k \in Checkers, Dispatch(k)
  PROVE  BatchInv'
<1> DEFINE done == [batch |-> check[k].batch, beside |-> check[k].beside]
<1> USE DEF BatchInv, Dispatch
<1>1. check[k] \in Check /\ check[k].step = "dispatch" /\ done \in [batch : SUBSET Corrected, beside : BOOLEAN]
  BY DEF Check
<1>2. check'[k] = NoCheck /\ check' \in [Checkers -> Check]
      /\ \A l \in Checkers \ {k} : check'[l] = check[l]
  BY DEF NoCheck, Check
<1>3. /\ trainings' \in Seq([batch : SUBSET Corrected, beside : BOOLEAN])
      /\ DOMAIN trainings' = DOMAIN trainings \cup {Len(trainings) + 1}
      /\ Len(trainings) + 1 \notin DOMAIN trainings
      /\ trainings'[Len(trainings) + 1] = done
      /\ \A i \in DOMAIN trainings : trainings'[i] = trainings[i]
  BY <1>1
<1>4. Processing' = Processing /\ Pending' = Pending
  BY DEF Processing, Pending
<1>5. LockedOnce'
  BY <1>2, <1>3, <1>4 DEF LockedOnce, NoCheck
<1>6. TrainedOnce'
  BY <1>3 DEF LockedOnce, TrainedOnce
<1>7. TrainedOnEnough'
  BY <1>1, <1>3 DEF SoloOnEnough, TrainedOnEnough, Checking
<1>8. SoloOnEnough'
  BY <1>2, <1>4 DEF SoloOnEnough, Checking, NoCheck
<1> QED
  BY <1>2, <1>3, <1>5, <1>6, <1>7, <1>8 DEF NoCheck

LEMMA BreakKeeps ==
  ASSUME BatchInv, NEW k \in Checkers, CheckBreaks(k)
  PROVE  BatchInv'
<1> USE DEF BatchInv, CheckBreaks
<1>1. check'[k] = NoCheck /\ check' \in [Checkers -> Check]
      /\ \A l \in Checkers \ {k} : check'[l] = check[l]
  BY DEF NoCheck, Check
<1>2. Processing' = Processing /\ Pending' = Pending
  BY DEF Processing, Pending
<1>3. LockedOnce' /\ TrainedOnce' /\ TrainedOnEnough'
  BY <1>1, <1>2 DEF LockedOnce, TrainedOnce, TrainedOnEnough, NoCheck
<1>4. SoloOnEnough'
  BY <1>1, <1>2 DEF SoloOnEnough, Checking, NoCheck
<1> QED
  BY <1>1, <1>3, <1>4 DEF NoCheck

\* A check leaves the rows alone, and what it locks has been queued.
LEMMA ChecksKeepIntake ==
  ASSUME IntakeInv, NEW k \in Checkers,
         check_retraining_status(k) \/ LockPending(k) \/ Dispatch(k) \/ CheckBreaks(k)
  PROVE  IntakeInv'
<1>1. /\ UNCHANGED <<rows, fresh, before, correction, feedback>>
      /\ queue' \in [Corrected -> {"none", "pending", "processing"}]
      /\ \A n \in Corrected : queue'[n] # "none" => queue[n] # "none"
  BY DEF check_retraining_status, StartCheck, LockPending, Lock, Dispatch, CheckBreaks, past, intake,
         Pending, IntakeInv, IntakeTypes
<1> QED
  BY <1>1, IntakeSame

LEMMA StepCorrections == CorrectionsInv /\ [CorrectionsNext]_correctionVars => CorrectionsInv'
<1> SUFFICES ASSUME IntakeInv, BatchInv, [CorrectionsNext]_correctionVars
             PROVE  IntakeInv' /\ BatchInv'
  BY DEF CorrectionsInv
<1>1. CASE UNCHANGED correctionVars
  <2>1. IntakeInv'
    BY <1>1, IntakeSame DEF correctionVars, rows, IntakeInv, IntakeTypes
  <2> QED
    BY <1>1, <2>1, QueueingKeepsBatches DEF correctionVars
<1>2. ASSUME NEW ts \in SUBSET Transactions, bulk_upsert(ts) \/ delete_for_statement(ts)
      PROVE  IntakeInv' /\ BatchInv'
  BY <1>2, UploadKeeps, DeleteKeeps, QueueingKeepsBatches
     DEF bulk_upsert, delete_for_statement, batches
<1>3. ASSUME NEW n \in Corrected, NEW t \in Transactions, NEW c \in Categories,
             submit_feedback(n, t, c)
      PROVE  IntakeInv' /\ BatchInv'
  BY <1>3, SubmitKeeps, QueueingKeepsBatches DEF submit_feedback, batches
<1>4. ASSUME NEW n \in Corrected,
             \/ lookup_merchant_name(n) \/ SaveFeedback(n) \/ queue_for_retraining(n)
             \/ CorrectionBreaks(n)
      PROVE  IntakeInv' /\ BatchInv'
  BY <1>4, StepsKeep, QueueingKeepsBatches
     DEF lookup_merchant_name, SaveFeedback, Save, queue_for_retraining,
         CorrectionBreaks, batches
<1>5. ASSUME NEW n \in Corrected, update_category(n) PROVE IntakeInv' /\ BatchInv'
  BY <1>5, UpdateKeeps, QueueingKeepsBatches DEF update_category, batches
<1>6. ASSUME NEW k \in Checkers,
             check_retraining_status(k) \/ LockPending(k) \/ Dispatch(k) \/ CheckBreaks(k)
      PROVE  IntakeInv' /\ BatchInv'
  BY <1>6, ChecksKeepIntake, CheckKeeps, LockKeeps, DispatchKeeps, BreakKeeps
<1>7. CASE CorrectionsNext
  <2>1. ASSUME NEW u \in Owners, NEW ts \in SUBSET RowsOf(u),
               bulk_upsert(ts) \/ delete_for_statement(ts)
        PROVE  IntakeInv' /\ BatchInv'
    <3>1. ts \in SUBSET Transactions
      BY DEF RowsOf
    <3> QED
      BY <1>2, <2>1, <3>1
  <2>2. ASSUME NEW t \in Transactions, categorize_transaction(t)
        PROVE  IntakeInv' /\ BatchInv'
    <3>1. {t} \in SUBSET Transactions /\ bulk_upsert({t})
      BY <2>2 DEF categorize_transaction
    <3> QED
      BY <1>2, <3>1
  <2> QED
    BY <1>3, <1>4, <1>5, <1>6, <1>7, <2>1, <2>2 DEF CorrectionsNext
<1> QED
  BY <1>1, <1>7

\* The invariant holds through every interleaving of corrections, uploads, deletes
\* and checks of the queue, wherever one of them breaks off.
THEOREM CorrectionsCorrect == CorrectionsSpec => []CorrectionsInv
<1>1. CorrectionsInit => CorrectionsInv
  BY InitIntake, InitBatch DEF CorrectionsInv
<1> QED
  BY <1>1, StepCorrections, PTL DEF CorrectionsSpec

\* Every row of the merchant shows the correction applied last, unless written since.
THEOREM CoversMerchantCorrect == CorrectionsSpec => []CorrectionCoversMerchant
<1>1. CorrectionsInv => CorrectionCoversMerchant
  BY DEF CorrectionsInv, IntakeInv
<1> QED
  BY <1>1, CorrectionsCorrect, PTL

\* No correction touches a row of another user.
THEOREM OwnRowsCorrect == CorrectionsSpec => []OwnRowsOnly
<1>1. CorrectionsInv => OwnRowsOnly
  BY DEF CorrectionsInv, IntakeInv
<1> QED
  BY <1>1, CorrectionsCorrect, PTL

\* What waits for retraining was recorded, and every row it is for that no upload
\* wrote since shows it or a correction that ran beside or after it, never one that
\* was answered before: for any number of corrections of the same rows.
THEOREM QueuedIsAppliedCorrect == CorrectionsSpec => []QueuedIsApplied
<1>1. ASSUME CorrectionsInv PROVE QueuedIsApplied
  <2> SUFFICES ASSUME NEW n \in Corrected, queue[n] # "none",
                      NEW t \in (Reached(n) \cap Stored) \ fresh[n]
               PROVE  n \in feedback /\ Shows(t, n)
    BY <1>1 DEF QueuedIsApplied, Applied, CorrectionsInv, IntakeInv, Recorded
  <2>1. n \in feedback /\ InEffect(n) /\ t \in Transactions
    BY <1>1 DEF CorrectionsInv, IntakeInv, Recorded, InEffect, Stored
  <2>2. /\ decided[t] # NoCorrection /\ decided[t] \notin before[n] /\ t \notin fresh[decided[t]]
    BY <1>1, <2>1 DEF CorrectionsInv, IntakeInv, InForce
  <2>3. decided[t] \in feedback /\ decided[t] \in Corrected /\ t \in Reached(decided[t])
    BY <1>1, <2>1, <2>2 DEF CorrectionsInv, IntakeInv, IntakeTypes, Decisive
  <2>4. category[t] = correction[decided[t]].to /\ t \in verified
    BY <1>1, <2>2, <2>3 DEF CorrectionsInv, IntakeInv, CorrectionCoversMerchant
  <2> QED
    BY <2>1, <2>2, <2>3, <2>4 DEF Shows
<1> QED
  BY <1>1, CorrectionsCorrect, PTL

\* No correction is in the batches of two trainings, however many checks overlap.
THEOREM TrainedOnceCorrect == CorrectionsSpec => []TrainedOnce
<1>1. CorrectionsInv => TrainedOnce
  BY DEF CorrectionsInv, BatchInv
<1> QED
  BY <1>1, CorrectionsCorrect, PTL

\* A check that no other ran beside trains on a full batch.
THEOREM TrainedOnEnoughCorrect == CorrectionsSpec => []TrainedOnEnough
<1>1. CorrectionsInv => TrainedOnEnough
  BY DEF CorrectionsInv, BatchInv
<1> QED
  BY <1>1, CorrectionsCorrect, PTL

\* What of the types the invariants above leave open.
Spending == writes \in 0 .. MaxWrites /\ deaths \in 0 .. MaxDeaths

LEMMA InitSpending == CorrectionsInit => Spending
BY CorrectionsBounds DEF CorrectionsInit, Spending

LEMMA StepSpending == Spending /\ [CorrectionsNext]_correctionVars => Spending'
<1> SUFFICES ASSUME Spending, [CorrectionsNext]_correctionVars PROVE Spending'
  OBVIOUS
<1> USE CorrectionsBounds DEF Spending, rows, intake, batches
<1>1. ASSUME NEW ts \in SUBSET Transactions, bulk_upsert(ts) \/ delete_for_statement(ts)
      PROVE  Spending'
  BY <1>1 DEF bulk_upsert, delete_for_statement
<1>2. ASSUME NEW t \in Transactions, categorize_transaction(t) PROVE Spending'
  <2>1. {t} \in SUBSET Transactions
    OBVIOUS
  <2> QED
    BY <1>1, <1>2, <2>1 DEF categorize_transaction
<1>3. ASSUME NEW n \in Corrected, NEW t \in Transactions, NEW c \in Categories,
             submit_feedback(n, t, c)
      PROVE  Spending'
  BY <1>3 DEF submit_feedback
<1>4. ASSUME NEW n \in Corrected,
             \/ lookup_merchant_name(n) \/ SaveFeedback(n) \/ update_category(n)
             \/ queue_for_retraining(n) \/ CorrectionBreaks(n)
      PROVE  Spending'
  BY <1>4 DEF lookup_merchant_name, SaveFeedback, Save, update_category, queue_for_retraining,
              CorrectionBreaks
<1>5. ASSUME NEW k \in Checkers,
             check_retraining_status(k) \/ LockPending(k) \/ Dispatch(k) \/ CheckBreaks(k)
      PROVE  Spending'
  BY <1>5 DEF check_retraining_status, StartCheck, LockPending, Lock, Dispatch, CheckBreaks
<1>6. CASE UNCHANGED correctionVars
  BY <1>6 DEF correctionVars
<1>7. \A u \in Owners : SUBSET RowsOf(u) \subseteq SUBSET Transactions
  BY DEF RowsOf
<1> QED
  BY <1>1, <1>2, <1>3, <1>4, <1>5, <1>6, <1>7 DEF CorrectionsNext

\* Only stored rows are verified, and every check and every record of the queue is
\* about corrections that were made to rows there are.
THEOREM CorrectionsTypeCorrect == CorrectionsSpec => []CorrectionsTypeOK
<1>1. CorrectionsInv /\ Spending => CorrectionsTypeOK
  BY DEF CorrectionsInv, IntakeInv, IntakeTypes, Records, BatchInv, LockedOnce, Processing, Spending,
         CorrectionsTypeOK
<1> QED
  BY <1>1, CorrectionsCorrect, InitSpending, StepSpending, PTL DEF CorrectionsSpec

================================================================================
