---------------------------- MODULE SessionContract ----------------------------
(***************************************************************************)
(* The life of a session, whatever requests, clients and administrators do *)
(* at once: it is opened by a login, is without a redeemable token only    *)
(* while a refresh that has been let in may still bring one, and once it   *)
(* is over never returns.                                                  *)
(***************************************************************************)

CONSTANT Sessions

VARIABLE life  \* of each session

Lives == {"none", "open", "renewing", "over"}

Init == life = [s \in Sessions |-> "none"]

\* A login.
Begin(s) == life[s] = "none" /\ life' = [life EXCEPT ![s] = "open"]

\* A refresh brings the next token, before or after its predecessor is gone.
Renew(s) == life[s] = "renewing" /\ life' = [life EXCEPT ![s] = "open"]

\* Tokens are redeemed, revoked or expire, or refreshes are refused; an alarm or a
\* deletion of an account does so to many sessions at once.
Close ==
  /\ life' \in [Sessions -> Lives]
  /\ \A s \in Sessions : life'[s] # life[s] =>
       \/ life[s] = "open" /\ life'[s] \in {"renewing", "over"}
       \/ life[s] = "renewing" /\ life'[s] = "over"

Next == Close \/ \E s \in Sessions : Begin(s) \/ Renew(s)

Spec == Init /\ [][Next]_life
================================================================================
