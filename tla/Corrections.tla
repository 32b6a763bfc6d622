----------------------------- MODULE Corrections ------------------------------
(***************************************************************************)
(* A user corrects the category of a transaction (POST /v1/feedback): the  *)
(* row's merchant is looked up, the correction recorded, applied to all of *)
(* the user's transactions of the merchant and queued for retraining;      *)
(* enough queued corrections start a training.  Uploads and deletions      *)
(* write the same rows meanwhile.                                          *)
(*                                                                         *)
(* Each step is one awaited store operation of the handler, of a check of  *)
(* the queue (after a correction or by the beat) or of an upload.          *)
(***************************************************************************)
EXTENDS Naturals, FiniteSets, Sequences

CONSTANTS
  Transactions, OwnerOf, MerchantOf,  \* rows the statements contain, whose, from which merchant
  Unnamed,          \* the merchant of a row that has none
  Categories, RuleCategory,
  MaxCorrections,   \* bound on corrections
  MaxWrites,        \* bound on uploads, categorisations and deletions
  MaxDeaths,        \* bound on handlers and checks that break off
  Checkers,         \* bound on queue checks in progress
  Threshold         \* the 100 pending corrections that start a training

ASSUME CorrectionsAssumption ==
  /\ RuleCategory \in Categories /\ "no row" \notin Categories
  /\ DOMAIN OwnerOf = Transactions /\ DOMAIN MerchantOf = Transactions /\ Transactions # {}

ASSUME CorrectionsBounds ==
  /\ MaxCorrections \in Nat /\ MaxWrites \in Nat /\ MaxDeaths \in Nat
  /\ Threshold \in Nat \ {0}

Corrected == 1 .. MaxCorrections

VARIABLES
  category,    \* the stored rows; NoRow if there is none
  verified,    \* the rows with confidence 1.0: a user decided the category
  correction,  \* the corrections submitted, in order: how far each got, the row it is
               \* about, whether that document is gone, the merchant looked up
  feedback,    \* the corrections in the feedback collection
  queue,       \* the status of each correction's retraining_queue record
  check,       \* what each check of the queue is doing
  trainings,   \* the batches of the trainings dispatched, the overlapped ones marked
  writes, deaths,
  decided,     \* the correction applied to a row last, or to it before it was stored
  fresh,       \* rows an upload wrote since a correction was submitted, then since it was applied
  before       \* the corrections that had ended when one was submitted

correctionVars == <<category, verified, correction, feedback, queue, check, trainings,
                    writes, deaths, decided, fresh, before>>

rows   == <<category, verified, decided>>
past   == <<fresh, before>>
intake == <<correction, feedback>>
batches == <<check, trainings>>

NoRow        == "no row"
NoCorrection == 0

Stored    == {t \in Transactions : category[t] # NoRow}
Owners    == {OwnerOf[t] : t \in Transactions}
RowsOf(u) == {t \in Transactions : OwnerOf[t] = u}
Pending   == {c \in Corrected : queue[c] = "pending"}

At(n, step)   == correction[n].step = step
Goto(n, step) == correction' = [correction EXCEPT ![n].step = step]
Unapplied(n)  == correction[n].step \in {"lookup", "save", "apply"}
Ended         == {n \in Corrected : correction[n].step \in {"done", "broken"}}

NoCheck == [step |-> "idle", batch |-> {}, beside |-> FALSE]
Checking(k) == check[k].step # "idle"

--------------------------------------------------------------------------------
(* Rows *)

\* The parsed rows are upserted whole, category and confidence included.
bulk_upsert(ts) ==
  /\ writes < MaxWrites /\ ts # {}
  /\ writes' = writes + 1
  /\ category' = [t \in Transactions |-> IF t \in ts THEN RuleCategory ELSE category[t]]
  /\ verified' = verified \ ts
  /\ fresh' = [n \in Corrected |-> IF At(n, "none") THEN {} ELSE fresh[n] \cup ts]
  /\ UNCHANGED <<intake, queue, batches, deaths, decided, before>>

\* POST /v1/categorize inserts a row of its own.
categorize_transaction(t) ==
  /\ t \notin Stored
  /\ bulk_upsert({t})

\* An uploaded row that was deleted comes back as another document.
delete_for_statement(ts) ==
  /\ writes < MaxWrites /\ ts # {} /\ ts \subseteq Stored
  /\ writes' = writes + 1
  /\ category' = [t \in Transactions |-> IF t \in ts THEN NoRow ELSE category[t]]
  /\ verified' = verified \ ts
  /\ correction' = [n \in Corrected |->
       [correction[n] EXCEPT !.gone = @ \/ (Unapplied(n) /\ correction[n].about \in ts)]]
  /\ UNCHANGED <<feedback, queue, batches, deaths, decided, fresh, before>>

--------------------------------------------------------------------------------
(* A correction *)

\* get_by_id: the row is the caller's own (404 otherwise).  The client says what
\* the category was, and that it differs.
submit_feedback(n, t, c) ==
  /\ At(n, "none") /\ \A i \in 1 .. n - 1 : ~At(i, "none")
  /\ t \in Stored
  /\ correction' = [correction EXCEPT ![n] =
       [step |-> "lookup", about |-> t, gone |-> FALSE, merchant |-> Unnamed, to |-> c]]
  /\ before' = [before EXCEPT ![n] = Ended]
  /\ UNCHANGED <<rows, fresh, feedback, queue, batches, writes, deaths>>

\* The row is read a second time; None if it is not there any more.
lookup_merchant_name(n) ==
  LET r == correction[n] IN
  /\ At(n, "lookup")
  /\ correction' = [correction EXCEPT
       ![n].merchant = IF r.gone THEN Unnamed ELSE MerchantOf[r.about],
       ![n].step = "save"]
  /\ UNCHANGED <<rows, past, feedback, queue, batches, writes, deaths>>

Save(n, next) ==
  /\ At(n, "save")
  /\ feedback' = feedback \cup {n}
  /\ Goto(n, next)
  /\ UNCHANGED <<rows, past, queue, batches, writes, deaths>>

\* Mutant of SaveFeedback: the correction is queued without being applied.
SaveThenQueue(n) == Save(n, "queue")

SaveFeedback(n) == Save(n, "apply")

\* All rows of the user's from that merchant; only the row if it names none.
RowsFor(n, merchant) ==
  LET r == correction[n] IN
  IF merchant = Unnamed THEN (IF r.gone THEN {} ELSE {r.about})
  ELSE {t \in Transactions : OwnerOf[t] = OwnerOf[r.about] /\ MerchantOf[t] = merchant}

Reached(n) == RowsFor(n, correction[n].merchant)

\* Mutant of CorrectedRows: only the row itself.
CorrectedAlone(n) == {correction[n].about} \cap Stored

\* Mutant of CorrectedRows: the merchant's rows of every user.
CorrectedOfAnyone(n) == {t \in Stored : MerchantOf[t] = correction[n].merchant}

CorrectedRows(n) == Reached(n) \cap Stored

\* update_category_for_merchant, or update_category of the one row.
update_category(n) ==
  /\ At(n, "apply")
  /\ category' = [t \in Transactions |->
       IF t \in CorrectedRows(n) THEN correction[n].to ELSE category[t]]
  /\ verified' = verified \cup CorrectedRows(n)
  /\ decided' = [t \in Transactions |-> IF t \in Reached(n) THEN n ELSE decided[t]]
  /\ fresh' = [fresh EXCEPT ![n] = {}]
  /\ Goto(n, "queue")
  /\ UNCHANGED <<before, feedback, queue, batches, writes, deaths>>

queue_for_retraining(n) ==
  /\ At(n, "queue")
  /\ queue' = [queue EXCEPT ![n] = "pending"]
  /\ Goto(n, "done")
  /\ UNCHANGED <<rows, past, feedback, batches, writes, deaths>>

\* The process or the connection goes, or the client's request is cancelled.
CorrectionBreaks(n) ==
  /\ Unapplied(n) \/ At(n, "queue")
  /\ deaths < MaxDeaths
  /\ deaths' = deaths + 1
  /\ Goto(n, "broken")
  /\ UNCHANGED <<rows, past, feedback, queue, batches, writes>>

--------------------------------------------------------------------------------
(* Retraining *)

Beside(k) == \E l \in Checkers \ {k} : Checking(l)

StartCheck(k, records) ==
  /\ ~Checking(k) /\ Cardinality(records) >= Threshold
  /\ check' = [l \in Checkers |->
       IF l = k THEN [step |-> "lock", batch |-> {}, beside |-> Beside(k)]
       ELSE [check[l] EXCEPT !.beside = Checking(l)]]
  /\ UNCHANGED <<rows, past, intake, queue, trainings, writes, deaths>>

\* Mutant of check_retraining_status: processed records count again.
CountAll(k) == StartCheck(k, {c \in Corrected : queue[c] # "none"})

check_retraining_status(k) == StartCheck(k, Pending)

Lock(k, records) ==
  /\ check[k].step = "lock"
  /\ queue' = [c \in Corrected |-> IF c \in records THEN "processing" ELSE queue[c]]
  /\ check' = [check EXCEPT ![k].step = "dispatch", ![k].batch = records]
  /\ UNCHANGED <<rows, past, intake, trainings, writes, deaths>>

\* Mutant of LockPending: processed records are locked again.
LockAll(k) == Lock(k, {c \in Corrected : queue[c] # "none"})

LockPending(k) == Lock(k, Pending)

\* The task is put on the Celery broker.  Whatever becomes of it, the records stay
\* as they are.
Dispatch(k) ==
  /\ check[k].step = "dispatch"
  /\ trainings' = Append(trainings, [batch |-> check[k].batch, beside |-> check[k].beside])
  /\ check' = [check EXCEPT ![k] = NoCheck]
  /\ UNCHANGED <<rows, past, intake, queue, writes, deaths>>

\* No broker answers, or the process goes.
CheckBreaks(k) ==
  /\ Checking(k) /\ deaths < MaxDeaths
  /\ deaths' = deaths + 1
  /\ check' = [check EXCEPT ![k] = NoCheck]
  /\ UNCHANGED <<rows, past, intake, queue, trainings, writes>>

--------------------------------------------------------------------------------

CorrectionsInit ==
  /\ category = [t \in Transactions |-> NoRow]
  /\ verified = {}
  /\ correction = [n \in Corrected |->
       [step |-> "none", about |-> CHOOSE t \in Transactions : TRUE, gone |-> FALSE,
        merchant |-> Unnamed, to |-> RuleCategory]]
  /\ feedback = {}
  /\ queue = [n \in Corrected |-> "none"]
  /\ check = [k \in Checkers |-> NoCheck]
  /\ trainings = <<>>
  /\ writes = 0 /\ deaths = 0
  /\ decided = [t \in Transactions |-> NoCorrection]
  /\ fresh = [n \in Corrected |-> {}] /\ before = [n \in Corrected |-> {}]

CorrectionsNext ==
  \/ \E u \in Owners : \E ts \in SUBSET RowsOf(u) : bulk_upsert(ts) \/ delete_for_statement(ts)
  \/ \E t \in Transactions : categorize_transaction(t)
  \/ \E n \in Corrected :
       \/ \E t \in Transactions, c \in Categories : submit_feedback(n, t, c)
       \/ lookup_merchant_name(n) \/ SaveFeedback(n) \/ update_category(n)
       \/ queue_for_retraining(n) \/ CorrectionBreaks(n)
  \/ \E k \in Checkers :
       check_retraining_status(k) \/ LockPending(k) \/ Dispatch(k) \/ CheckBreaks(k)

CorrectionsSpec == CorrectionsInit /\ [][CorrectionsNext]_correctionVars

--------------------------------------------------------------------------------
(* Properties *)

\* The variables hold values of their kinds; only stored rows are verified.
CorrectionsTypeOK ==
  /\ category \in [Transactions -> Categories \cup {NoRow}]
  /\ verified \subseteq Stored
  /\ decided \in [Transactions -> Corrected \cup {NoCorrection}]
  /\ fresh \in [Corrected -> SUBSET Transactions] /\ before \in [Corrected -> SUBSET Corrected]
  /\ feedback \subseteq Corrected
  /\ queue \in [Corrected -> {"none", "pending", "processing"}]
  /\ \A n \in Corrected : correction[n].about \in Transactions /\ correction[n].to \in Categories
  /\ \A k \in Checkers : check[k].batch \subseteq Corrected
  /\ writes \in 0 .. MaxWrites /\ deaths \in 0 .. MaxDeaths

\* "Correcting one Zomato transaction should recategorize every other": every row
\* of the user's from the merchant shows the correction applied last, unless an
\* upload wrote it since.
CorrectionCoversMerchant ==
  \A n \in Corrected : \A t \in Stored \ fresh[n] :
    decided[t] = n => category[t] = correction[n].to /\ t \in verified

\* A user's rows change by that user's corrections only, whoever else corrects
\* the same merchant.
OwnRowsOnly ==
  \A t \in Stored : decided[t] = NoCorrection => t \notin verified /\ category[t] = RuleCategory

\* The row shows correction n, or one that had not ended when n was submitted.
Shows(t, n) ==
  /\ t \in verified
  /\ \E m \in feedback \ before[n] : t \in Reached(m) /\ category[t] = correction[m].to

Applied(n, ts) == \A t \in (ts \cap Stored) \ fresh[n] : Shows(t, n)

\* What waits for retraining was recorded and applied to every row it is for that
\* no upload wrote since: the row shows that very correction or one that ran
\* beside or after it, never one answered before it was submitted.
QueuedIsApplied ==
  \A n \in Corrected : queue[n] # "none" => n \in feedback /\ Applied(n, Reached(n))

\* What the comment in process_feedback says: the correction is applied to every
\* transaction from the merchant of the one corrected, and queued.
QueuedReachesMerchant ==
  \A n \in Corrected : queue[n] # "none" => Applied(n, RowsFor(n, MerchantOf[correction[n].about]))

\* "Lock the pending records so they aren't processed twice": no correction is in
\* the batches of two trainings.
TrainedOnce ==
  \A i, j \in DOMAIN trainings : trainings[i].batch \cap trainings[j].batch # {} => i = j

\* A training starts for a full batch, unless two checks overlapped.
TrainedOnEnough ==
  \A i \in DOMAIN trainings :
    ~trainings[i].beside => Cardinality(trainings[i].batch) >= Threshold
================================================================================
