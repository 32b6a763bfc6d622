--------------------------- MODULE StatementReading ---------------------------
(***************************************************************************)
(* What a Google Pay statement says and what is made of it: the text of    *)
(* the PDF, the records found in it, the transactions built from them, the *)
(* comparison with the totals the statement declares, and the insights,    *)
(* from the language model or computed.                                    *)
(*                                                                         *)
(* StatementPipeline interleaves this work with other requests; here one   *)
(* statement is read at a time, and its content matters.                   *)
(***************************************************************************)
EXTENDS Naturals, Sequences, FiniteSetsExt

CONSTANTS
  Counterparties,
  AliasOf,       \* the category of the first alias in a counterparty's text, or Uncategorized
  KeywordOf,     \* the category of the first business word in it, or Uncategorized
  Uncategorized, Income,
  min_occurrences,         \* the payments that may make a merchant recur: 3
  MaxPayments, MaxAmount   \* bounds on a statement

ASSUME ReadingAssumption ==
  /\ AliasOf \in [Counterparties -> STRING] /\ KeywordOf \in [Counterparties -> STRING]
  /\ min_occurrences \in Nat /\ MaxPayments \in Nat /\ MaxAmount \in Nat \ {0}

VARIABLES
  printed,   \* the payments of the statement in hand, in order, and how each is laid out
  declared,  \* the totals in its header, or NoTotals
  stage,     \* what was done last
  parsed,    \* the payments found in the text
  statement  \* what is persisted of it

readingVars == <<printed, declared, stage, parsed, statement>>

Layouts  == {"whole", "wrapped", "page break"}
Payments == [paid : BOOLEAN, name : Counterparties, amount : 1 .. MaxAmount, layout : Layouts]
NoTotals == [sent |-> 0, received |-> 0, printed |-> FALSE]
Unread   == [rows |-> {}, sent |-> 0, received |-> 0, reconciled |-> "unknown", insights |-> {}]

--------------------------------------------------------------------------------
(* The text *)

Line(kind, i) == [kind |-> kind, of |-> i]

\* A record is three lines, unless its first one is wrapped or a page ends in it.
Lines(i, layout) ==
  CASE layout = "whole" -> <<Line("head", i), Line("reference", i), Line("bank", i)>>
    [] layout = "wrapped" ->
         <<Line("half", i), Line("half", i), Line("reference", i), Line("bank", i)>>
    [] layout = "page break" ->
         <<Line("head", i), Line("footer", i), Line("reference", i), Line("bank", i)>>

extract_text ==
  LET upTo[i \in 0 .. Len(printed)] ==
        IF i = 0 THEN <<>> ELSE upTo[i - 1] \o Lines(i, printed[i].layout)
  IN upTo[Len(printed)]

\* The pattern spans three consecutive lines; what it does not match is left out
\* without a word.
parse_transactions(text) ==
  {text[i].of : i \in {k \in DOMAIN text :
     /\ k + 2 \in DOMAIN text
     /\ <<text[k].kind, text[k+1].kind, text[k+2].kind>> = <<"head", "reference", "bank">>}}

\* The amounts paid, or received, of some of the payments.
Total(payments, some, paid) ==
  MapThenSumSet(LAMBDA i : payments[i].amount, {i \in some : payments[i].paid = paid})

--------------------------------------------------------------------------------
(* Transactions *)

\* The first alias, or else the first business word.
categorize(name) == IF AliasOf[name] # Uncategorized THEN AliasOf[name] ELSE KeywordOf[name]

_build_transactions ==
  {[payment |-> i, paid |-> printed[i].paid, merchant |-> printed[i].name,
    amount |-> printed[i].amount,
    category |-> IF printed[i].paid THEN categorize(printed[i].name) ELSE Income] : i \in parsed}

\* Mutant of _check_reconciliation: only the balance is compared.
CheckBalance(sent, received) ==
  IF ~declared.printed THEN "unknown"
  ELSE IF sent + declared.received = received + declared.sent THEN "yes" ELSE "no"

_check_reconciliation(sent, received) ==
  IF ~declared.printed THEN "unknown"
  ELSE IF sent = declared.sent /\ received = declared.received THEN "yes" ELSE "no"

--------------------------------------------------------------------------------
(* Insights *)

Item(kind, about, amount) == [kind |-> kind, about |-> about, amount |-> amount]
Told == Item("told", "anything", 0)  \* a well-formed item of the model's

Spent(rows, field, value) ==
  MapThenSumSet(LAMBDA r : r.amount, {r \in rows : r.paid /\ r[field] = value})

\* The value of the field on which most was spent.
Largest(rows, field, values) ==
  LET top == CHOOSE v \in values :
        \A w \in values : Spent(rows, field, v) >= Spent(rows, field, w)
  IN IF values = {} THEN {} ELSE {Item("top " \o field, top, Spent(rows, field, top))}

\* The merchants paid often enough to recur.
Repeated(rows) ==
  {n \in Counterparties : Quantify(rows, LAMBDA r : r.paid /\ r.merchant = n) >= min_occurrences}

_computed_insights(rows, recurring) ==
  LET sent  == Total(printed, {r.payment : r \in rows}, TRUE)
      got   == Total(printed, {r.payment : r \in rows}, FALSE)
      known == {r.category : r \in rows} \ {Income, Uncategorized}
  IN Largest(rows, "category", known)
       \cup Largest(rows, "merchant", {r.merchant : r \in {q \in rows : q.paid}})
       \cup (IF recurring = {} THEN {} ELSE {Item("recurring", "all", 0)})
       \cup (IF sent = 0 /\ got = 0 THEN {}
             ELSE IF got >= sent THEN {Item("net", "in", got - sent)}
                                 ELSE {Item("net", "out", sent - got)})

\* What the model may answer: nothing in time, no list, a list of items of which
\* some may be malformed, an object around lists, or a single item.
Replies ==
  LET ListsOf == SUBSET {"item", "malformed"} IN
  {<<"failure">>, <<"scalar">>, <<"item">>, <<"object">>}
    \cup ({"list", "object of lists"} \X ListsOf)

\* The first list of an object counts; an object without one is taken for an item.
_to_insight_items(reply) ==
  IF \/ reply = <<"item">>
     \/ Len(reply) > 1 /\ "item" \in reply[2]
  THEN {Told} ELSE {}

\* Mutant of generate: what the model answers is taken as it is.
GenerateTrusting(reply, rows, recurring) ==
  IF reply = <<"failure">> THEN _computed_insights(rows, recurring) ELSE _to_insight_items(reply)

generate(reply, rows, recurring) ==
  IF reply = <<"failure">> \/ _to_insight_items(reply) = {}
  THEN _computed_insights(rows, recurring) ELSE _to_insight_items(reply)

--------------------------------------------------------------------------------
(* Steps *)

\* A PDF that cannot be opened, is no such statement or names no period is refused
\* and leaves nothing.
Refuse ==
  /\ stage = "idle" /\ stage' = "refused"
  /\ UNCHANGED <<printed, declared, parsed, statement>>

\* The header's totals are those of all payments; it may be missing.
Accept(payments) ==
  /\ stage \in {"idle", "refused"} /\ stage' = "accepted"
  /\ printed' = payments
  /\ \/ declared' = NoTotals
     \/ declared' = [sent |-> Total(payments, DOMAIN payments, TRUE),
                     received |-> Total(payments, DOMAIN payments, FALSE), printed |-> TRUE]
  /\ UNCHANGED <<parsed, statement>>

Parse ==
  /\ stage = "accepted" /\ stage' = "parsed"
  /\ parsed' = parse_transactions(extract_text)
  /\ UNCHANGED <<printed, declared, statement>>

Build ==
  /\ stage = "parsed" /\ stage' = "built"
  /\ statement' = [statement EXCEPT !.rows = _build_transactions]
  /\ UNCHANGED <<printed, declared, parsed>>

\* After the analytics, in which a merchant recurs if its pattern, found in all
\* statements, is regular.  Everything is persisted at once with the insights.
Conclude(reply) ==
  LET sent     == Total(printed, parsed, TRUE)
      received == Total(printed, parsed, FALSE) IN
  /\ stage = "built" /\ stage' = "completed"
  /\ \E recurring \in SUBSET Repeated(statement.rows) :
       statement' = [statement EXCEPT
         !.sent = sent, !.received = received,
         !.reconciled = _check_reconciliation(sent, received),
         !.insights = generate(reply, statement.rows, recurring)]
  /\ UNCHANGED <<printed, declared, parsed>>

ReadingInit ==
  /\ printed = <<>> /\ declared = NoTotals /\ stage = "idle"
  /\ parsed = {} /\ statement = Unread

ReadingNext ==
  \/ Refuse
  \/ \E n \in 0 .. MaxPayments : \E payments \in [1 .. n -> Payments] : Accept(payments)
  \/ Parse \/ Build
  \/ \E reply \in Replies : Conclude(reply)

ReadingSpec == ReadingInit /\ [][ReadingNext]_readingVars

--------------------------------------------------------------------------------
(* Properties *)

\* The variables hold values of their kinds; the rows are of payments found.
ReadingTypeOK ==
  /\ \A i \in DOMAIN printed : printed[i] \in Payments
  /\ stage \in {"idle", "refused", "accepted", "parsed", "built", "completed"}
  /\ parsed \subseteq DOMAIN printed
  /\ \A r \in statement.rows : r.payment \in parsed
  /\ statement.reconciled \in {"yes", "no", "unknown"}

\* A statement that is shown as reconciled has a transaction for every payment on
\* it, with its direction and its amount, although the parser passes over records
\* it does not recognise in silence.
ReconciledIsComplete ==
  statement.reconciled = "yes" =>
    \A i \in DOMAIN printed : \E r \in statement.rows :
      r.payment = i /\ r.amount = printed[i].amount /\ r.paid = printed[i].paid

\* A completed statement on which money moved has insights, whatever the language
\* model answers and also when it does not.
InsightsForMoney ==
  stage = "completed" /\ statement.rows # {} => statement.insights # {}
================================================================================
