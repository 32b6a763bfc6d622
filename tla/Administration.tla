---------------------------- MODULE Administration ----------------------------
(***************************************************************************)
(* The /admin endpoints that write, beside the sessions they act upon:     *)
(* disabling and enabling an account, changing a role, the soft delete and *)
(* the retention clean-up.                                                 *)
(*                                                                         *)
(* The dependencies and the look-up of the target come first; nothing they *)
(* read is used later, so they are one step with the sending of the call.  *)
(***************************************************************************)
EXTENDS Sessions

VARIABLES
  shut,       \* users deleted while nobody was signing them in
  staleRole   \* somebody who was no admin any more demoted another

adminVars == <<shut, staleRole>>
systemVars == <<sessionVars, adminVars>>

AdminOps == {"enable", "disable", "promote", "demote", "delete"}

\* get_current_user reads the account; require_scope reads the access token.
Authenticated(c) == access[c] # "none" /\ UserOf[c] \in registered \cap active
Authorized(c)    == Authenticated(c) /\ access[c] = "admin"

AdminCall ==
  /\ <<mishaps, adminCalls + 1>> \in Within(Claimed)
  /\ adminCalls' = adminCalls + 1 /\ UNCHANGED mishaps

\* Mutant of AdminAccept: one's own role can be changed.
AdminAcceptAny(q, c, op, u) ==
  /\ Authorized(c) /\ u \in registered
  /\ Start(q, [Idle EXCEPT !.op = op, !.client = c, !.step = "accepted", !.target = u])
  /\ AdminCall
  /\ UNCHANGED <<users, tokens, storage, ledger, shut, staleRole>>

\* Mutant of AdminAccept: the account is created if it is not there.
AdminAcceptUnknown(q, c, op, u) ==
  /\ Authorized(c) /\ op \in {"promote", "demote"} => u # UserOf[c]
  /\ Start(q, [Idle EXCEPT !.op = op, !.client = c, !.step = "accepted", !.target = u])
  /\ AdminCall
  /\ UNCHANGED <<users, tokens, storage, ledger, shut, staleRole>>

\* A user cannot change their own role, but can disable or delete themselves.
AdminAccept(q, c, op, u) ==
  /\ Authorized(c) /\ u \in registered
  /\ op \in {"promote", "demote"} => u # UserOf[c]
  /\ Start(q, [Idle EXCEPT !.op = op, !.client = c, !.step = "accepted", !.target = u])
  /\ AdminCall
  /\ UNCHANGED <<users, tokens, storage, ledger, shut, staleRole>>

\* toggle_user_active
SetActive(q) ==
  /\ request[q].op \in {"enable", "disable"} /\ request[q].step = "accepted"
  /\ LET u == request[q].target IN
     /\ active' = IF request[q].op = "enable" THEN active \cup {u} ELSE active \ {u}
     /\ shut' = IF request[q].op = "enable" THEN shut \ {u} ELSE shut
  /\ Answer(q, NoToken)
  /\ UNCHANGED <<registered, admins, devices, tokens, budget, ledger>>
  /\ UNCHANGED staleRole

\* update_user_role
SetRole(q) ==
  /\ request[q].op \in {"promote", "demote"} /\ request[q].step = "accepted"
  /\ LET u == request[q].target IN
     admins' = IF request[q].op = "promote" THEN admins \cup {u} ELSE admins \ {u}
  /\ staleRole' = (staleRole \/ (request[q].op = "demote" /\ User(q) \notin admins))
  /\ Answer(q, NoToken)
  /\ UNCHANGED <<registered, active, devices, tokens, budget, ledger>>
  /\ UNCHANGED shut

\* delete_user: revoke_all_for_user, and then is_active.
DeleteUserSessions(q) ==
  /\ Runs(q, "delete", "accepted")
  /\ Revoke(TokensOf(request[q].target))
  /\ alarmed' = alarmed \cup {request[q].target}
  /\ Goto(q, "revoked")
  /\ UNCHANGED <<users, budget, trouble, loggedOut, overlapped, adminVars>>

\* Nobody is past the check of is_active, and no session outlived the revocation.
Quiet(u) ==
  /\ TokensOf(u) \cap Live = {}
  /\ \A p \in Slots : request[p].op \in {"login", "refresh"} /\ User(p) = u
                        => request[p].step \in {"sent", "load", "burn"}

DeleteUserAccount(q) ==
  /\ Runs(q, "delete", "revoked")
  /\ active' = active \ {request[q].target}
  /\ shut' = IF Quiet(request[q].target) THEN shut \cup {request[q].target} ELSE shut
  /\ Answer(q, NoToken)
  /\ UNCHANGED <<registered, admins, devices, tokens, budget, ledger>>
  /\ UNCHANGED staleRole

\* POST /admin/retention/cleanup.  Of its four parts only the deletion of the
\* tokens revoked more than seven days ago, some of the revoked ones, has an
\* effect: the statements have none of the fields the first one looks for, and
\* the next two fail on collections the connection does not have.
RetentionCleanup(c) ==
  /\ Authorized(c) /\ AdminCall
  /\ \E old \in SUBSET {t \in Tokens : token[t] = "revoked"} :
       old # {} /\ token' = [t \in Tokens |-> IF t \in old THEN "gone" ELSE token[t]]
  /\ UNCHANGED <<users, holder, session, storage, request, ledger, shut, staleRole>>

--------------------------------------------------------------------------------

Init == SessionsInit /\ shut = {} /\ staleRole = FALSE

AdminStep(q) ==
  SetActive(q) \/ SetRole(q) \/ DeleteUserSessions(q) \/ DeleteUserAccount(q)

Next ==
  \/ SessionsNext /\ UNCHANGED adminVars
  \/ \E q \in Slots, c \in Clients, op \in AdminOps, u \in Users : AdminAccept(q, c, op, u)
  \/ \E q \in Slots : AdminStep(q)
  \/ \E c \in Clients : RetentionCleanup(c)

Spec == Init /\ [][Next]_systemVars

--------------------------------------------------------------------------------
(* Properties *)

\* Every variable has its type.
SessionsTypeOK ==
  /\ registered \subseteq Users /\ active \subseteq registered /\ admins \subseteq registered
  /\ devices \in [Users -> SUBSET Clients]
  /\ token \in [Tokens -> {"unused", "live", "revoked", "gone"}]
  /\ holder \in [Tokens -> Clients \cup {Nobody}]
  /\ session \in [Tokens -> Tokens \cup {NoToken}]
  /\ stored \in [Clients -> Tokens \cup {NoToken}]
  /\ access \in [Clients -> {"none", "user", "admin"}]
  /\ request \in [Slots -> [op : Ops \cup AdminOps \cup {"none"},
       client : Clients \cup {Nobody}, step : Steps \cup {"idle", "accepted", "revoked"},
       awaited : BOOLEAN, token : Tokens \cup {NoToken}, scope : {"none", "user", "admin"},
       seen : SUBSET Clients, target : Users \cup {Nobody}]]
  /\ <<mishaps, adminCalls>> \in Within(0) \cup {<<0, 0>>}
  /\ trouble \subseteq Clients /\ alarmed \subseteq Users
  /\ loggedOut \subseteq Tokens /\ overlapped \subseteq Users
  /\ shut \subseteq Users /\ staleRole \in BOOLEAN

\* A session has one redeemable token at a time, through every rotation, lost
\* answer and give-up, unless the app was killed or logged out beside its own
\* refresh.  (Rotation revokes before it issues; refreshes are single-flight.)
OneLivePerSession ==
  \A s, t \in Live : s # t /\ session[s] = session[t] => holder[s] \in trouble

\* What the comment in the refresh handler says of every client: a token that was
\* redeemed can never be redeemed a second time.
RedeemedOnce == \A s, t \in Live : s # t => session[s] # session[t]

\* After an answered logout no token of that session can be redeemed, unless a
\* refresh of the same app ran beside the logout.
LogoutEndsSession ==
  \A t \in Live : session[t] \in loggedOut => holder[t] \in trouble

\* An app's stored token is revoked only by its own refresh or logout in
\* progress, or because reuse was detected or the account was deleted: no other
\* device's login, rotation or logout signs it out.
StaysSignedIn ==
  \A c \in Clients : stored[c] # NoToken /\ token[stored[c]] \in {"revoked", "unused"} =>
    \/ AwaitedBy(c, {"refresh", "logout"}) # {}
    \/ c \in trouble \/ UserOf[c] \in alarmed

\* The alarm is never false where no app was killed or logged out beside its own
\* refresh and no account was deleted: rotation alone never presents a revoked token.
NoFalseAlarm ==
  \A q \in Slots : Runs(q, "refresh", "burn") =>
    request[q].client \in trouble \/ User(q) \in alarmed

\* A deleted user has no session and gets none, by a login or by a refresh that
\* began before, until somebody enables the account again; provided nobody was
\* past the check of is_active when it was deleted.
DeletedStayOut == \A u \in shut : u \notin active /\ TokensOf(u) \cap Live = {}

\* Two admins may demote and promote each other in any order and at the same time:
\* some user stays an admin, unless one demoted the other after having been demoted
\* (with the older access token, or past the check of it).  Nobody demotes themselves.
AnAdminRemains == admins # {} \/ staleRole

\* Every device whose login went through is in its user's list, unless two
\* logins of that user overlapped: each writes back the whole list it read.
DevicesRecorded ==
  \A t \in Tokens : token[t] # "unused" /\ holder[t] \in Tracked =>
    holder[t] \in devices[UserOf[holder[t]]] \/ UserOf[holder[t]] \in overlapped

--------------------------------------------------------------------------------
(* The sessions are what SessionContract says. *)

\* A refresh of session s that found its token live.
LetIn(q, s) ==
  /\ request[q].op = "refresh" /\ request[q].step \in {"load", "rotate", "issue"}
  /\ session[request[q].token] = s

LifeOf(s) ==
  IF token[s] = "unused" \/ session[s] # s THEN "none"
  ELSE IF \E t \in Live : session[t] = s THEN "open"
  ELSE IF \E q \in Slots : LetIn(q, s) THEN "renewing" ELSE "over"

Lifecycle == INSTANCE SessionContract
  WITH Sessions <- Tokens, life <- [s \in Tokens |-> LifeOf(s)]

\* A session that is over never returns: no request that comes late, no lost answer
\* and no race of refreshes, logouts and deletions brings a redeemable token into it
\* again, except a refresh that found its token live before.
ImplementsSessionContract == Lifecycle!Spec
================================================================================
