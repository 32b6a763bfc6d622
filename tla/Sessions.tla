------------------------------- MODULE Sessions -------------------------------
(***************************************************************************)
(* Accounts, refresh tokens and the clients that hold them: POST /auth/..., *)
(* the users and refresh_tokens collections, and the code of the app and   *)
(* of the admin dashboard that refreshes a session.                        *)
(*                                                                         *)
(* A request occupies a slot until it is answered.  Each step of a slot is *)
(* one awaited store operation with the local code up to the next; the     *)
(* last one also delivers the answer, which nobody sees if the client has  *)
(* given up.  Tokens are named in the order in which they are issued.      *)
(***************************************************************************)
EXTENDS Naturals, FiniteSets

CONSTANTS
  Users,
  Founders,     \* registered, and made admins by scripts/create_admin.py
  Clients,      \* installations of the app, and browsers on the dashboard
  Dashboards,   \* the browsers
  UserOf,       \* who uses it
  Tracked,      \* those that send a device_id when they log in
  Slots,        \* bound on requests in progress
  MaxTokens,    \* bound on refresh tokens issued
  Bounds,       \* the numbers of mishaps, admin calls and tokens explored together
  Nobody, NoToken

Tokens == 1 .. MaxTokens

ASSUME SessionsAssumption ==
  /\ Founders \subseteq Users /\ Dashboards \subseteq Clients /\ Tracked \subseteq Clients
  /\ UserOf \in [Clients -> Users]
  /\ MaxTokens \in Nat /\ Bounds \subseteq Nat \X Nat \X (0 .. MaxTokens)
  /\ Nobody \notin Clients \cup Users /\ NoToken \notin Tokens

VARIABLES
  registered, active, admins,  \* the users collection: who exists, is_active, role
  devices,   \* the installations in each user's devices list
  token,     \* the state of the refresh token documents
  holder,    \* the client a token was issued to; its user is the user_id
  session,   \* the token of the login it descends from
  stored,    \* the refresh token in a client's storage
  access,    \* the scope of the access token stored with it
  request,   \* what each slot is doing
  mishaps,   \* lost answers, killed clients and expired tokens so far
  adminCalls,
  trouble,   \* clients killed during a refresh or logout, or with two at once
  alarmed,   \* users whose sessions were ended by reuse detection or a deletion
  loggedOut, \* sessions whose logout reached the store
  overlapped \* users two of whose logins ran at once

users       == <<registered, active, admins, devices>>
tokens      == <<token, holder, session>>
storage     == <<stored, access>>
budget      == <<mishaps, adminCalls>>
ledger      == <<trouble, alarmed, loggedOut, overlapped>>
sessionVars == <<users, tokens, storage, request, budget, ledger>>

--------------------------------------------------------------------------------
(* Requests *)

Ops   == {"register", "login", "refresh", "logout"}
Steps == {"sent", "checked", "track", "issue", "burn", "load", "rotate"}
Idle  == [op |-> "none", client |-> Nobody, step |-> "idle", awaited |-> FALSE,
          token |-> NoToken, scope |-> "none", seen |-> {}, target |-> Nobody]

Busy(q)           == request[q].op # "none"
Runs(q, op, step) == request[q].op = op /\ request[q].step = step
User(q)           == UserOf[request[q].client]
AwaitedBy(c, ops) == {q \in Slots : /\ request[q].op \in ops /\ request[q].client = c
                                    /\ request[q].awaited}

Start(q, r) == ~Busy(q) /\ request' = [request EXCEPT ![q] = r]

Call(op, c, step) ==
  [Idle EXCEPT !.op = op, !.client = c, !.step = step, !.awaited = TRUE, !.token = stored[c]]

Goto(q, step) == request' = [request EXCEPT ![q].step = step] /\ UNCHANGED storage

Store(c, t, scope) ==
  /\ stored' = [stored EXCEPT ![c] = t]
  /\ access' = [access EXCEPT ![c] = scope]

\* The end of a request, with the reaction of a client that still waits.  Tokens
\* are saved whatever happened to the session in between; a refused refresh and
\* an answered logout clear the storage.
Answer(q, t) ==
  /\ request' = [request EXCEPT ![q] = Idle]
  /\ LET r == request[q] IN
     IF r.awaited /\ (t # NoToken \/ r.op \in {"refresh", "logout"})
     THEN Store(r.client, t, IF t = NoToken THEN "none" ELSE r.scope)
     ELSE UNCHANGED storage

\* The mishaps and admin calls explored beside n tokens.
Within(n) == UNION {(0 .. b[1]) \X (0 .. b[2]) : b \in {b \in Bounds : n <= b[3]}}

ScopeOf(u) == IF u \in admins THEN "admin" ELSE "user"

TokensOf(u) == {t \in Tokens : token[t] # "unused" /\ UserOf[holder[t]] = u}
Live        == {t \in Tokens : token[t] = "live"}
Unused      == {t \in Tokens : token[t] = "unused"}

\* The tokens issued, and one for each login in progress.
Claimed == Cardinality(Tokens \ Unused) + Cardinality({p \in Slots : request[p].op = "login"})

\* update_one / update_many of the documents whose revoked_at is None.
Revoke(T) ==
  /\ token' = [t \in Tokens |-> IF t \in T \cap Live THEN "revoked" ELSE token[t]]
  /\ UNCHANGED <<holder, session>>

--------------------------------------------------------------------------------
(* POST /auth/register *)

\* get_by_email: the address is free.  A 409 changes nothing.
RegisterCheck(q, c) ==
  /\ stored[c] = NoToken /\ UserOf[c] \notin registered
  /\ AwaitedBy(c, {"register"}) = {}
  /\ Start(q, Call("register", c, "checked"))
  /\ UNCHANGED <<users, tokens, storage, budget, ledger>>

\* Mutant of RegisterCreate: no unique index on the address.
RegisterCreateAgain(q) ==
  /\ Runs(q, "register", "checked")
  /\ registered' = registered \cup {User(q)}
  /\ active' = active \cup {User(q)}
  /\ admins' = admins \ {User(q)}
  /\ devices' = [devices EXCEPT ![User(q)] = {}]
  /\ Answer(q, NoToken)
  /\ UNCHANGED <<tokens, budget, ledger>>

\* The unique index turns the second of two creations into a 409.
RegisterCreate(q) ==
  /\ Runs(q, "register", "checked")
  /\ registered' = registered \cup {User(q)}
  /\ active' = active \cup ({User(q)} \ registered)
  /\ Answer(q, NoToken)
  /\ UNCHANGED <<admins, devices, tokens, budget, ledger>>

--------------------------------------------------------------------------------
(* POST /auth/login *)

LoggingIn(u) == {p \in Slots : request[p].op = "login" /\ User(p) = u}

\* get_by_email and the checks on what it returned.  A login that is refused
\* (unknown, disabled, wrong password, attestation) changes nothing.
LoginFind(q, c) ==
  /\ stored[c] = NoToken
  /\ AwaitedBy(c, {"login", "logout"}) = {}
  /\ UserOf[c] \in registered \cap active
  /\ <<mishaps, adminCalls>> \in Within(Claimed + 1)
  /\ Start(q, [Call("login", c, IF c \in Tracked THEN "track" ELSE "issue") EXCEPT
       !.scope = ScopeOf(UserOf[c]),
       !.seen = IF c \in Tracked THEN devices[UserOf[c]] ELSE {}])
  /\ overlapped' = IF LoggingIn(UserOf[c]) = {} THEN overlapped
                   ELSE overlapped \cup {UserOf[c]}
  /\ UNCHANGED <<users, tokens, storage, budget, trouble, alarmed, loggedOut>>

\* The whole list is written back as it was read, with this device in it.
LoginTrack(q) ==
  /\ Runs(q, "login", "track")
  /\ devices' = [devices EXCEPT ![User(q)] = request[q].seen \cup {request[q].client}]
  /\ request' = [request EXCEPT ![q].step = "issue", ![q].seen = {}]
  /\ UNCHANGED <<registered, active, admins, tokens, storage, budget, ledger>>

\* store, for a login and for a refresh.
IssuePair(q) ==
  /\ request[q].op \in {"login", "refresh"} /\ request[q].step = "issue"
  /\ request[q].op = "refresh" => <<mishaps, adminCalls>> \in Within(Claimed + 1)
  /\ \E t \in Unused :
       /\ \A s \in Unused : t <= s
       /\ token' = [token EXCEPT ![t] = "live"]
       /\ holder' = [holder EXCEPT ![t] = request[q].client]
       /\ session' = [session EXCEPT ![t] =
            IF request[q].op = "login" THEN t ELSE session[request[q].token]]
       /\ Answer(q, t)
  /\ UNCHANGED <<users, budget, ledger>>

--------------------------------------------------------------------------------
(* POST /auth/refresh and POST /auth/logout *)

\* A refresh or a logout of the session c holds is in progress already.
Beside(c) == \E p \in Slots :
  /\ request[p].op \in {"refresh", "logout"} /\ request[p].client = c
  /\ session[request[p].token] = session[stored[c]]

\* The access token has expired.  The app's calls share the refresh in flight;
\* every page of the dashboard starts one of its own.
RefreshSend(q, c) ==
  /\ stored[c] # NoToken
  /\ c \in Dashboards \/ AwaitedBy(c, {"refresh"}) = {}
  /\ Start(q, Call("refresh", c, "sent"))
  /\ trouble' = IF Beside(c) THEN trouble \cup {c} ELSE trouble
  /\ UNCHANGED <<users, tokens, storage, budget, alarmed, loggedOut, overlapped>>

\* Mutant of RefreshFind: revoked_at is not looked at.
RefreshFindAny(q) ==
  /\ Runs(q, "refresh", "sent")
  /\ \/ token[request[q].token] = "gone" /\ Answer(q, NoToken)
     \/ token[request[q].token] # "gone" /\ Goto(q, "load")
  /\ UNCHANGED <<users, tokens, budget, ledger>>

RefreshFind(q) ==
  /\ Runs(q, "refresh", "sent")
  /\ \/ token[request[q].token] = "gone" /\ Answer(q, NoToken)
     \/ token[request[q].token] = "revoked" /\ Goto(q, "burn")
     \/ token[request[q].token] = "live" /\ Goto(q, "load")
  /\ UNCHANGED <<users, tokens, budget, ledger>>

\* A revoked token was presented: every session of its user ends.
RefreshBurn(q) ==
  /\ Runs(q, "refresh", "burn")
  /\ Revoke(TokensOf(User(q)))
  /\ alarmed' = alarmed \cup {User(q)}
  /\ Answer(q, NoToken)
  /\ UNCHANGED <<users, budget, trouble, loggedOut, overlapped>>

\* Mutant of RefreshLoadUser: is_active is not looked at.
RefreshLoadAnyUser(q) ==
  /\ Runs(q, "refresh", "load")
  /\ request' = [request EXCEPT ![q].step = "rotate", ![q].scope = ScopeOf(User(q))]
  /\ UNCHANGED <<users, tokens, storage, budget, ledger>>

RefreshLoadUser(q) ==
  /\ Runs(q, "refresh", "load")
  /\ \/ /\ User(q) \in active
        /\ request' = [request EXCEPT ![q].step = "rotate", ![q].scope = ScopeOf(User(q))]
        /\ UNCHANGED storage
     \/ User(q) \notin active /\ Answer(q, NoToken)
  /\ UNCHANGED <<users, tokens, budget, ledger>>

\* Mutant of RefreshRotate: the presented token is left as it is.
RefreshKeep(q) ==
  /\ Runs(q, "refresh", "rotate")
  /\ Goto(q, "issue")
  /\ UNCHANGED <<users, tokens, budget, ledger>>

\* revoke: whether the token was still live is not looked at.
RefreshRotate(q) ==
  /\ Runs(q, "refresh", "rotate")
  /\ Revoke({request[q].token})
  /\ Goto(q, "issue")
  /\ UNCHANGED <<users, budget, ledger>>

LogoutSend(q, c) ==
  /\ stored[c] # NoToken /\ AwaitedBy(c, {"logout"}) = {}
  /\ Start(q, Call("logout", c, "sent"))
  /\ trouble' = IF Beside(c) THEN trouble \cup {c} ELSE trouble
  /\ UNCHANGED <<users, tokens, storage, budget, alarmed, loggedOut, overlapped>>

\* Mutant of LogoutRevoke: the token is left as it is.
LogoutForget(q) ==
  /\ Runs(q, "logout", "sent")
  /\ loggedOut' = loggedOut \cup {session[request[q].token]}
  /\ Answer(q, NoToken)
  /\ UNCHANGED <<users, tokens, budget, trouble, alarmed, overlapped>>

\* Mutant of LogoutRevoke: it ends all of the user's sessions.
LogoutEverywhere(q) ==
  /\ Runs(q, "logout", "sent")
  /\ Revoke(TokensOf(User(q)))
  /\ loggedOut' = loggedOut \cup {session[request[q].token]}
  /\ Answer(q, NoToken)
  /\ UNCHANGED <<users, budget, trouble, alarmed, overlapped>>

LogoutRevoke(q) ==
  /\ Runs(q, "logout", "sent")
  /\ Revoke({request[q].token})
  /\ loggedOut' = loggedOut \cup {session[request[q].token]}
  /\ Answer(q, NoToken)
  /\ UNCHANGED <<users, budget, trouble, alarmed, overlapped>>

--------------------------------------------------------------------------------
(* What goes wrong, and time *)

Mishap ==
  /\ <<mishaps + 1, adminCalls>> \in Within(Claimed)
  /\ mishaps' = mishaps + 1 /\ UNCHANGED adminCalls

\* Mutant of GiveUp: the app keeps its tokens and will present them again.
GiveUpKeeping(q) ==
  /\ request[q].awaited /\ Mishap
  /\ request' = [request EXCEPT ![q].awaited = FALSE]
  /\ UNCHANGED <<users, tokens, storage, ledger>>

\* A timeout or a lost connection, before or after the server saw the request:
\* a refresh and a logout clear the storage all the same.
GiveUp(q) ==
  /\ request[q].awaited /\ Mishap
  /\ request' = [request EXCEPT ![q].awaited = FALSE]
  /\ IF request[q].op \in {"refresh", "logout"}
     THEN Store(request[q].client, NoToken, "none") ELSE UNCHANGED storage
  /\ UNCHANGED <<users, tokens, ledger>>

\* A request nobody waits for may never arrive.
LoseRequest(q) ==
  /\ request[q].step = "sent" /\ ~request[q].awaited
  /\ request' = [request EXCEPT ![q] = Idle]
  /\ UNCHANGED <<users, tokens, storage, budget, ledger>>

\* The client is killed: its storage stays, what it waited for is forgotten.
Kill(c) ==
  /\ \E q \in Slots : request[q].client = c /\ request[q].awaited
  /\ Mishap
  /\ request' = [q \in Slots |->
       [request[q] EXCEPT !.awaited = request[q].awaited /\ request[q].client # c]]
  /\ trouble' = IF AwaitedBy(c, {"refresh", "logout"}) = {}
                THEN trouble ELSE trouble \cup {c}
  /\ UNCHANGED <<users, tokens, storage, alarmed, loggedOut, overlapped>>

\* expires_at passes, from when on the token is refused, and soon afterwards the
\* TTL index removes the document.
Expire(t) ==
  /\ token[t] \in {"live", "revoked"} /\ Mishap
  /\ token' = [token EXCEPT ![t] = "gone"]
  /\ UNCHANGED <<users, holder, session, storage, request, ledger>>

--------------------------------------------------------------------------------

SessionsInit ==
  /\ registered = Founders /\ active = Founders /\ admins = Founders
  /\ devices = [u \in Users |-> {}]
  /\ token = [t \in Tokens |-> "unused"]
  /\ holder = [t \in Tokens |-> Nobody]
  /\ session = [t \in Tokens |-> NoToken]
  /\ stored = [c \in Clients |-> NoToken]
  /\ access = [c \in Clients |-> "none"]
  /\ request = [q \in Slots |-> Idle]
  /\ mishaps = 0 /\ adminCalls = 0
  /\ trouble = {} /\ alarmed = {} /\ loggedOut = {} /\ overlapped = {}

AuthStep(q) ==
  \/ RegisterCreate(q) \/ LoginTrack(q) \/ IssuePair(q)
  \/ RefreshFind(q) \/ RefreshBurn(q) \/ RefreshLoadUser(q) \/ RefreshRotate(q)
  \/ LogoutRevoke(q)

ClientStep(q, c) ==
  RegisterCheck(q, c) \/ LoginFind(q, c) \/ RefreshSend(q, c) \/ LogoutSend(q, c)

SessionsNext ==
  \/ \E q \in Slots : AuthStep(q) \/ GiveUp(q) \/ LoseRequest(q)
  \/ \E q \in Slots, c \in Clients : ClientStep(q, c)
  \/ \E c \in Clients : Kill(c)
  \/ \E t \in Tokens : Expire(t)

================================================================================
