----------------------------- MODULE SessionsProofs -----------------------------
(***************************************************************************)
(* Proofs about Administration and the Sessions it extends, for any users, *)
(* clients and slots, any number of tokens, mishaps and calls of           *)
(* administrators.                                                         *)
(*                                                                         *)
(* Three invariants build on each other: what requests and tokens look     *)
(* like (FormInv), what a client that nothing happened to can rely on      *)
(* (CalmInv), and what accounts and device lists are like (AccountsInv).   *)
(* From the first follows that the sessions are what SessionContract says. *)
(***************************************************************************)
EXTENDS Administration, TLAPS

(***************************************************************************)
(* Requests and tokens.                                                    *)
(***************************************************************************)

\* What is explored beside some tokens is explored beside none.
LEMMA MishapsBounded ==
  Mishap \/ AdminCall => <<mishaps', adminCalls'>> \in Within(0)
<1>1. \A b \in Bounds : 0 <= b[3]
  BY SessionsAssumption
<1>2. \A n : Within(n) \subseteq Within(0)
  BY <1>1 DEF Within
<1> QED
  BY <1>2 DEF Mishap, AdminCall

Holding == {"refresh", "logout"}
Used    == {t \in Tokens : token[t] # "unused"}

\* A request is at a step of its operation, and presents a token of its client.
RequestForm(q) ==
  LET r == request[q] IN
  /\ r.op = "none" => r = Idle
  /\ r.op # "none" => r.client \in Clients
  /\ r.op = "register" => r.step = "checked"
  /\ r.op = "login" => r.step \in {"track", "issue"}
  /\ r.op = "refresh" => r.step \in {"sent", "burn", "load", "rotate", "issue"}
  /\ r.op = "logout" => r.step = "sent"
  /\ r.op \in Holding => r.token \in Used /\ holder[r.token] = r.client
  /\ r.awaited => r.op \in Ops
  /\ r.op \in AdminOps => r.target \in registered
  /\ r.op \in {"promote", "demote"} => r.target # User(q)

\* A session is named by its first token and belongs to one client, which stores
\* no token of another.
TokenForm ==
  /\ \A t \in Used : /\ holder[t] \in Clients /\ session[t] \in Used
                     /\ holder[session[t]] = holder[t]
  /\ \A c \in Clients : stored[c] # NoToken => stored[c] \in Used /\ holder[stored[c]] = c
  /\ loggedOut \subseteq Used

FormInv == SessionsTypeOK /\ (\A q \in Slots : RequestForm(q)) /\ TokenForm

(***************************************************************************)
(* Clients that were not killed beside a refresh or logout and never had   *)
(* two at once.                                                            *)
(***************************************************************************)

Calm(c)    == c \notin trouble
SessionOf(q) == session[request[q].token]

\* Two requests of a calm client are about two sessions.
Apart ==
  \A p, q \in Slots :
    /\ p # q /\ request[p].op \in Holding /\ request[q].op \in Holding
    /\ SessionOf(p) = SessionOf(q)
    => ~Calm(request[p].client)

\* A calm client waits for a refresh or logout of the token it stores, for a
\* login without one; what it no longer waits for is about another session.
InStep ==
  \A q \in Slots : LET c == request[q].client IN
    request[q].op \in Holding \cup {"login"} /\ Calm(c) =>
      /\ request[q].op \in Holding /\ request[q].awaited => stored[c] = request[q].token
      /\ request[q].op = "login" /\ request[q].awaited => stored[c] = NoToken
      /\ request[q].op \in Holding /\ ~request[q].awaited /\ stored[c] # NoToken =>
           session[stored[c]] # SessionOf(q)

\* The live token of a session in use is the one a calm client stores or presents,
\* and the session was not logged out.
Sole ==
  /\ \A c \in Clients : Calm(c) /\ stored[c] # NoToken =>
       /\ \A t \in Live : session[t] = session[stored[c]] => t = stored[c]
       /\ session[stored[c]] \notin loggedOut
  /\ \A q \in Slots : request[q].op \in Holding /\ Calm(request[q].client) =>
       /\ \A t \in Live : session[t] = SessionOf(q) =>
            t = request[q].token /\ request[q].step # "issue"
       /\ SessionOf(q) \notin loggedOut

\* A calm client presents a revoked token only after an alarm.
Unrevoked ==
  \A q \in Slots :
    /\ request[q].op = "refresh" /\ request[q].step = "sent"
    /\ token[request[q].token] = "revoked"
    => ~Calm(request[q].client) \/ User(q) \in alarmed

\* A client waits for one login at a time.
LoginAlone ==
  \A p, q \in Slots :
    /\ request[p].op = "login" /\ request[q].op = "login"
    /\ request[p].awaited /\ request[q].awaited /\ request[p].client = request[q].client
    => p = q

CalmInv ==
  /\ Apart /\ InStep /\ Sole /\ Unrevoked /\ LoginAlone
  /\ OneLivePerSession /\ LogoutEndsSession /\ StaysSignedIn /\ NoFalseAlarm

(***************************************************************************)
(* Accounts and their devices.                                             *)
(***************************************************************************)

\* A deleted user stays quiet.
ShutQuietly == \A u \in shut : u \in registered \ active /\ Quiet(u)

\* Logins of a user that did not overlap know the device list as it is.
ListKnown ==
  \A q \in Slots : request[q].op = "login" /\ User(q) \notin overlapped =>
    /\ \A p \in Slots : request[p].op = "login" /\ User(p) = User(q) => p = q
    /\ request[q].step = "track" => request[q].seen = devices[User(q)]
    /\ request[q].step = "issue" /\ request[q].client \in Tracked =>
         request[q].client \in devices[User(q)]

AccountsInv == ShutQuietly /\ ListKnown /\ DevicesRecorded

--------------------------------------------------------------------------------
(* The parts that steps are made of. *)

Requests ==
  [op : Ops \cup AdminOps \cup {"none"},
   client : Clients \cup {Nobody}, step : Steps \cup {"idle", "accepted", "revoked"},
   awaited : BOOLEAN, token : Tokens \cup {NoToken}, scope : {"none", "user", "admin"},
   seen : SUBSET Clients, target : Users \cup {Nobody}]

Scopes == {"none", "user", "admin"}
States == {"unused", "live", "revoked", "gone"}

LEMMA IdleIs == Idle \in Requests /\ Idle.op = "none" /\ Idle.awaited = FALSE
BY DEF Idle, Requests

LEMMA Types ==
  ASSUME SessionsTypeOK
  PROVE  /\ request \in [Slots -> Requests] /\ token \in [Tokens -> States]
         /\ stored \in [Clients -> Tokens \cup {NoToken}] /\ access \in [Clients -> Scopes]
         /\ UserOf \in [Clients -> Users] /\ NoToken \notin Tokens /\ Nobody \notin Clients
BY SessionsAssumption DEF SessionsTypeOK, Requests, States, Scopes

\* A request is answered; what its client stores afterwards.
LEMMA AnswerIs ==
  ASSUME SessionsTypeOK, NEW q \in Slots, request[q].client \in Clients,
         NEW t \in Tokens \cup {NoToken}, Answer(q, t)
  PROVE  /\ request' \in [Slots -> Requests] /\ request'[q] = Idle
         /\ \A p \in Slots : p # q => request'[p] = request[p]
         /\ stored' \in [Clients -> Tokens \cup {NoToken}] /\ access' \in [Clients -> Scopes]
         /\ \A c \in Clients : c # request[q].client => stored'[c] = stored[c]
         /\ IF request[q].awaited /\ (t # NoToken \/ request[q].op \in Holding)
            THEN stored'[request[q].client] = t ELSE stored' = stored
<1>1. request' = [request EXCEPT ![q] = Idle]
  BY DEF Answer
<1>2. request' \in [Slots -> Requests] /\ request'[q] = Idle
      /\ \A p \in Slots : p # q => request'[p] = request[p]
  BY <1>1, Types, IdleIs
<1>3. request[q] \in Requests
  BY Types
<1> DEFINE r == request[q]
<1>4. CASE r.awaited /\ (t # NoToken \/ r.op \in Holding)
  <2>1. PICK scope \in Scopes : Store(r.client, t, scope)
    BY <1>3, <1>4 DEF Answer, Scopes, Requests, Holding
  <2> QED
    BY <1>2, <1>4, <2>1, Types DEF Store
<1>5. CASE ~(r.awaited /\ (t # NoToken \/ r.op \in Holding))
  BY <1>2, <1>5, Types DEF Answer, storage, Holding
<1> QED
  BY <1>4, <1>5

\* The rest of a request does not change when it goes on.
LEMMA GotoIs ==
  ASSUME SessionsTypeOK, NEW q \in Slots, NEW step \in {"burn", "load", "rotate", "issue", "revoked"},
         Goto(q, step)
  PROVE  /\ request' \in [Slots -> Requests] /\ UNCHANGED storage
         /\ request'[q] = [request[q] EXCEPT !.step = step]
         /\ \A p \in Slots : p # q => request'[p] = request[p]
<1>1. request' = [request EXCEPT ![q].step = step] /\ UNCHANGED storage
  BY DEF Goto
<1>2. [request[q] EXCEPT !.step = step] \in Requests
  BY Types DEF Requests, Steps
<1> QED
  BY <1>1, <1>2, Types

\* Revoked tokens stay in use, and no others are.
LEMMA RevokeIs ==
  ASSUME SessionsTypeOK, NEW T, Revoke(T)
  PROVE  /\ token' \in [Tokens -> States] /\ UNCHANGED <<holder, session>>
         /\ Used' = Used /\ Live' = Live \ T
         /\ \A t \in Tokens : token'[t] # token[t] => token'[t] = "revoked" /\ t \in T
<1>1. token' = [t \in Tokens |-> IF t \in T \cap Live THEN "revoked" ELSE token[t]]
      /\ UNCHANGED <<holder, session>>
  BY DEF Revoke
<1>2. token' \in [Tokens -> States]
  BY <1>1, Types DEF States
<1>3. \A t \in Tokens : token'[t] = IF t \in T /\ token[t] = "live" THEN "revoked" ELSE token[t]
  BY <1>1 DEF Live
<1> QED
  BY <1>1, <1>2, <1>3 DEF Used, Live

--------------------------------------------------------------------------------
(* Requests and tokens keep their form. *)

LEMMA InitForm == Init => FormInv
<1> SUFFICES ASSUME Init PROVE FormInv
  OBVIOUS
<1> USE DEF Init, SessionsInit
<1>1. Used = {}
  BY DEF Used
<1>2. SessionsTypeOK
  <2>1. request \in [Slots -> Requests]
    BY IdleIs
  <2> QED
    BY <2>1, SessionsAssumption DEF SessionsTypeOK, Requests
<1>3. TokenForm
  BY <1>1 DEF TokenForm
<1>4. \A q \in Slots : RequestForm(q)
  BY IdleIs DEF RequestForm, Ops, AdminOps, Holding
<1> QED
  BY <1>2, <1>3, <1>4 DEF FormInv

LEMMA IdleForm ==
  ASSUME NEW q \in Slots, request'[q] = Idle
  PROVE  RequestForm(q)'
BY IdleIs DEF RequestForm, AdminOps, Holding

LEMMA FormKept ==
  ASSUME FormInv, NEW q \in Slots, SessionsTypeOK', RequestForm(q)', TokenForm',
         \A p \in Slots : p # q => request'[p] = request[p],
         registered \subseteq registered', Used \subseteq Used',
         \A t \in Used : holder'[t] = holder[t]
  PROVE  FormInv'
<1>1. ASSUME NEW p \in Slots, p # q PROVE RequestForm(p)'
  BY <1>1 DEF FormInv, RequestForm, User
<1> QED
  BY <1>1 DEF FormInv

LEMMA TokenFormKept ==
  ASSUME FormInv, Used' = Used, UNCHANGED <<holder, session>>,
         \A c \in Clients : stored'[c] = stored[c] \/ stored'[c] = NoToken,
         loggedOut' \subseteq Used
  PROVE  TokenForm'
BY DEF FormInv, TokenForm

\* A step that ends a request without issuing tokens.
LEMMA AnswerForm ==
  ASSUME FormInv, NEW q \in Slots, Busy(q), Answer(q, NoToken),
         token' \in [Tokens -> States], Used' = Used, UNCHANGED <<holder, session, budget>>,
         registered' \subseteq Users, registered \subseteq registered',
         active' \subseteq registered', admins' \subseteq registered', UNCHANGED devices,
         UNCHANGED trouble, UNCHANGED overlapped,
         alarmed' \subseteq Users, loggedOut' \subseteq Used, shut' \subseteq Users,
         staleRole' \in BOOLEAN
  PROVE  FormInv'
<1>1. SessionsTypeOK /\ RequestForm(q) /\ request[q].client \in Clients
  BY DEF FormInv, RequestForm, Busy
<1>2. /\ request' \in [Slots -> Requests] /\ request'[q] = Idle
      /\ \A p \in Slots : p # q => request'[p] = request[p]
      /\ stored' \in [Clients -> Tokens \cup {NoToken}] /\ access' \in [Clients -> Scopes]
      /\ \A c \in Clients : stored'[c] = stored[c] \/ stored'[c] = NoToken
  BY <1>1, AnswerIs
<1>3. SessionsTypeOK'
  BY <1>1, <1>2 DEF SessionsTypeOK, Requests, Scopes, States, Used, budget
<1>4. TokenForm'
  BY <1>2, TokenFormKept
<1> QED
  BY <1>2, <1>3, <1>4, IdleForm, FormKept

\* A step of a request that goes on.
LEMMA GotoForm ==
  ASSUME FormInv, NEW q \in Slots, NEW step \in {"burn", "load", "rotate", "issue", "revoked"},
         Goto(q, step), request[q].op \in {"refresh", "delete"},
         request[q].op = "delete" <=> step = "revoked",
         token' \in [Tokens -> States], Used' = Used, UNCHANGED <<holder, session>>,
         UNCHANGED <<users, budget, trouble, loggedOut, overlapped, adminVars>>,
         alarmed' \subseteq Users
  PROVE  FormInv'
<1>1. SessionsTypeOK /\ RequestForm(q)
  BY DEF FormInv
<1>2. /\ request' \in [Slots -> Requests] /\ UNCHANGED storage
      /\ request'[q] = [request[q] EXCEPT !.step = step]
      /\ \A p \in Slots : p # q => request'[p] = request[p]
  BY <1>1, GotoIs
<1>3. SessionsTypeOK'
  BY <1>1, <1>2 DEF SessionsTypeOK, Requests, States, users, storage, budget, adminVars
<1>4. TokenForm'
  BY <1>2, TokenFormKept DEF storage, FormInv, TokenForm
<1>5. RequestForm(q)'
  <2>1. /\ request'[q].op = request[q].op /\ request'[q].client = request[q].client
        /\ request'[q].awaited = request[q].awaited /\ request'[q].token = request[q].token
        /\ request'[q].target = request[q].target /\ request'[q].step = step
    BY <1>1, <1>2, Types DEF Requests
  <2>2. User(q)' = User(q)
    BY <2>1 DEF User
  <2> QED
    BY <1>1, <2>1, <2>2 DEF RequestForm, users, AdminOps, Ops, Holding
<1> QED
  BY <1>2, <1>3, <1>4, <1>5, FormKept DEF users

\* A free slot takes a call of a client.
LEMMA StartForm ==
  ASSUME FormInv, NEW q \in Slots, NEW r \in Requests, Start(q, r), r.op # "none",
         RequestForm(q)', SessionsTypeOK',
         UNCHANGED <<tokens, stored, loggedOut, registered>>
  PROVE  FormInv'
<1>1. request' = [request EXCEPT ![q] = r]
  BY DEF Start
<1>2. \A p \in Slots : p # q => request'[p] = request[p]
  BY <1>1, Types DEF FormInv
<1>3. Used' = Used
  BY DEF Used, tokens
<1>4. TokenForm'
  BY <1>3, TokenFormKept DEF tokens, FormInv, TokenForm
<1> QED
  BY <1>2, <1>3, <1>4, FormKept DEF tokens

LEMMA StepForm_ClientStep ==
  ASSUME FormInv, NEW q \in Slots, NEW c \in Clients, ClientStep(q, c), UNCHANGED adminVars
  PROVE  FormInv'
<1>0. SessionsTypeOK /\ TokenForm /\ c # Nobody /\ UserOf[c] \in Users
  BY Types DEF FormInv
<1>1. UNCHANGED <<tokens, storage, budget, registered, active, admins, devices, alarmed, loggedOut>>
      /\ trouble' \subseteq Clients /\ overlapped' \subseteq Users
  <2>1. trouble \subseteq Clients /\ overlapped \subseteq Users
    BY <1>0 DEF SessionsTypeOK
  <2>2. CASE RegisterCheck(q, c)
    BY <2>1, <2>2 DEF RegisterCheck, users, ledger
  <2>3. CASE LoginFind(q, c)
    BY <1>0, <2>1, <2>3 DEF LoginFind, users
  <2>4. CASE RefreshSend(q, c)
    BY <2>1, <2>4 DEF RefreshSend, users
  <2>5. CASE LogoutSend(q, c)
    BY <2>1, <2>5 DEF LogoutSend, users
  <2> QED
    BY <2>2, <2>3, <2>4, <2>5 DEF ClientStep
<1>2. ASSUME NEW r \in Requests, Start(q, r), r.op # "none", RequestForm(q)' PROVE FormInv'
  <2>1. request' \in [Slots -> Requests]
    BY <1>0, <1>2, Types DEF Start
  <2>2. SessionsTypeOK'
    BY <1>0, <1>1, <2>1 DEF SessionsTypeOK, Requests, tokens, storage, budget, adminVars
  <2> QED
    BY <1>1, <1>2, <2>2, StartForm DEF storage
<1>3. ASSUME NEW op \in Holding, stored[c] # NoToken, Start(q, Call(op, c, "sent"))
      PROVE  FormInv'
  <2> DEFINE r == Call(op, c, "sent")
  <2>1. r \in Requests /\ r.op = op /\ r.step = "sent" /\ r.client = c /\ r.awaited = TRUE
        /\ r.token = stored[c]
    BY <1>0, IdleIs, Types DEF Call, Requests, Idle, Holding, Ops, Steps
  <2>2. request'[q] = r
    BY <1>0, <1>3, Types DEF Start
  <2>3. r.token \in Used /\ holder[r.token] = c
    BY <1>0, <1>3, <2>1 DEF TokenForm
  <2>4. Start(q, r)
    BY <1>3
  <2> HIDE DEF r
  <2>5. RequestForm(q)'
    BY <1>1, <2>1, <2>2, <2>3 DEF RequestForm, Ops, AdminOps, Holding, tokens, Used
  <2> QED
    BY <1>2, <2>1, <2>4, <2>5 DEF Holding
<1>4. CASE RegisterCheck(q, c)
  <2> DEFINE r == Call("register", c, "checked")
  <2>1. r \in Requests /\ r.op = "register" /\ r.step = "checked" /\ r.client = c
        /\ r.awaited = TRUE
    BY <1>0, IdleIs, Types DEF Call, Requests, Idle, Ops, Steps
  <2>2. Start(q, r)
    BY <1>4 DEF RegisterCheck
  <2>3. request'[q] = r
    BY <1>0, <2>2, Types DEF Start
  <2> HIDE DEF r
  <2>4. RequestForm(q)'
    BY <2>1, <2>3 DEF RequestForm, Ops, AdminOps, Holding
  <2> QED
    BY <1>2, <2>1, <2>2, <2>4
<1>5. CASE RefreshSend(q, c)
  BY <1>3, <1>5 DEF RefreshSend, Holding
<1>6. CASE LogoutSend(q, c)
  BY <1>3, <1>6 DEF LogoutSend, Holding
<1>7. CASE LoginFind(q, c)
  <2> DEFINE step == IF c \in Tracked THEN "track" ELSE "issue"
             seen == IF c \in Tracked THEN devices[UserOf[c]] ELSE {}
             r == [Call("login", c, step) EXCEPT !.scope = ScopeOf(UserOf[c]), !.seen = seen]
  <2>1. seen \in SUBSET Clients /\ ScopeOf(UserOf[c]) \in Scopes /\ step \in {"track", "issue"}
    BY <1>0 DEF SessionsTypeOK, ScopeOf, Scopes
  <2> HIDE DEF step, seen
  <2>2. r \in Requests /\ r.op = "login" /\ r.step = step /\ r.client = c /\ r.awaited = TRUE
    BY <1>0, <2>1, IdleIs, Types DEF Call, Requests, Idle, Ops, Steps, Scopes
  <2>3. Start(q, r)
    BY <1>7 DEF LoginFind, step, seen
  <2>4. request'[q] = r
    BY <1>0, <2>3, Types DEF Start
  <2> HIDE DEF r
  <2>5. RequestForm(q)'
    BY <2>1, <2>2, <2>4 DEF RequestForm, Ops, AdminOps, Holding
  <2> QED
    BY <1>2, <2>2, <2>3, <2>5
<1> QED
  BY <1>4, <1>5, <1>6, <1>7 DEF ClientStep

LEMMA StepForm_IssuePair ==
  ASSUME FormInv, NEW q \in Slots, IssuePair(q), UNCHANGED adminVars
  PROVE  FormInv'
<1> DEFINE r == request[q]
<1>0. SessionsTypeOK /\ TokenForm /\ RequestForm(q) /\ r \in Requests
  BY Types DEF FormInv
<1>1. PICK t \in Unused :
        /\ token' = [token EXCEPT ![t] = "live"]
        /\ holder' = [holder EXCEPT ![t] = r.client]
        /\ session' = [session EXCEPT ![t] = IF r.op = "login" THEN t ELSE session[r.token]]
        /\ Answer(q, t)
  BY DEF IssuePair
<1>2. r.client \in Clients /\ t \in Tokens /\ t \notin Used
      /\ (r.op = "refresh" => r.token \in Used /\ holder[r.token] = r.client)
      /\ (r.op = "login" \/ r.op = "refresh")
  BY <1>0 DEF IssuePair, RequestForm, Holding, Unused, Used
<1>3. /\ request' \in [Slots -> Requests] /\ request'[q] = Idle
      /\ \A p \in Slots : p # q => request'[p] = request[p]
      /\ stored' \in [Clients -> Tokens \cup {NoToken}] /\ access' \in [Clients -> Scopes]
      /\ \A c \in Clients : stored'[c] = stored[c] \/ (stored'[c] = t /\ c = r.client)
  <2>1. t \in Tokens \cup {NoToken} /\ Answer(q, t) /\ request[q].client \in Clients
    BY <1>1, <1>2
  <2>2. /\ request' \in [Slots -> Requests] /\ request'[q] = Idle
        /\ \A p \in Slots : p # q => request'[p] = request[p]
        /\ stored' \in [Clients -> Tokens \cup {NoToken}] /\ access' \in [Clients -> Scopes]
        /\ \A c \in Clients : stored'[c] = stored[c] \/ (c = request[q].client /\ stored'[c] = t)
    BY <1>0, <2>1, AnswerIs
  <2> QED
    BY <2>2
<1>4. Used' = Used \cup {t}
  BY <1>0, <1>1, <1>2, Types DEF Used
<1>5. /\ \A s \in Used : holder'[s] = holder[s] /\ session'[s] = session[s]
      /\ holder'[t] = r.client
      /\ session'[t] = IF r.op = "login" THEN t ELSE session[r.token]
  BY <1>0, <1>1, <1>2 DEF SessionsTypeOK, Used
<1>6. SessionsTypeOK'
  <2>1. token' \in [Tokens -> States] /\ holder' \in [Tokens -> Clients \cup {Nobody}]
    BY <1>0, <1>1, <1>2, Types DEF SessionsTypeOK, States
  <2>2. session' \in [Tokens -> Tokens \cup {NoToken}]
    BY <1>0, <1>1, <1>2 DEF SessionsTypeOK, TokenForm, Used
  <2>3. UNCHANGED <<users, budget, ledger, adminVars>>
    BY DEF IssuePair
  <2> QED
    BY <1>0, <1>3, <2>1, <2>2, <2>3
       DEF SessionsTypeOK, Requests, Scopes, States, users, budget, ledger, adminVars
<1>7. TokenForm'
  <2>1. \A s \in Used' : holder'[s] \in Clients /\ session'[s] \in Used'
                         /\ holder'[session'[s]] = holder'[s]
    BY <1>0, <1>2, <1>4, <1>5 DEF TokenForm
  <2>2. \A c \in Clients : stored'[c] # NoToken => stored'[c] \in Used' /\ holder'[stored'[c]] = c
    BY <1>0, <1>3, <1>4, <1>5 DEF TokenForm
  <2>3. loggedOut' \subseteq Used'
    BY <1>0, <1>4 DEF TokenForm, IssuePair, ledger
  <2> QED
    BY <2>1, <2>2, <2>3 DEF TokenForm
<1> QED
  BY <1>3, <1>4, <1>5, <1>6, <1>7, IdleForm, FormKept DEF IssuePair, users

LEMMA StepForm_AuthStep ==
  ASSUME FormInv, NEW q \in Slots, AuthStep(q), UNCHANGED adminVars
  PROVE  FormInv'
<1> DEFINE r == request[q]
<1>0. SessionsTypeOK /\ TokenForm /\ RequestForm(q) /\ r \in Requests /\ shut \subseteq Users
      /\ staleRole \in BOOLEAN /\ token \in [Tokens -> States] /\ loggedOut \subseteq Used
      /\ registered \subseteq Users /\ active \subseteq registered /\ admins \subseteq registered
      /\ alarmed \subseteq Users
  BY Types DEF FormInv, TokenForm, SessionsTypeOK
<1>1. UNCHANGED <<shut, staleRole>>
  BY DEF adminVars
<1>2. Busy(q) /\ r.client \in Clients /\ User(q) \in Users
  <2>1. Busy(q)
    BY DEF AuthStep, Busy, Runs, RegisterCreate, LoginTrack, IssuePair, RefreshFind, RefreshBurn,
           RefreshLoadUser, RefreshRotate, LogoutRevoke
  <2> QED
    BY <1>0, <2>1, Types DEF RequestForm, Busy, User
<1>3. ASSUME UNCHANGED <<users, tokens, budget, ledger>>, Answer(q, NoToken)
      PROVE  FormInv'
  <2>1. UNCHANGED <<token, holder, session, budget, registered, active, admins, devices, trouble,
                    alarmed, loggedOut, overlapped, shut, staleRole>> /\ Used' = Used
    BY <1>1, <1>3 DEF users, tokens, ledger, Used
  <2> QED
    BY <1>0, <1>2, <1>3, <2>1, AnswerForm DEF TokenForm
<1>4. ASSUME NEW step \in {"burn", "load", "rotate", "issue"}, r.op = "refresh", Goto(q, step),
             token' \in [Tokens -> States], Used' = Used,
             UNCHANGED <<users, holder, session, budget, ledger>>
      PROVE  FormInv'
  <2>1. UNCHANGED <<users, budget, trouble, loggedOut, overlapped, adminVars>>
        /\ UNCHANGED <<holder, session>> /\ alarmed' \subseteq Users
    BY <1>0, <1>4 DEF ledger
  <2>2. step \in {"burn", "load", "rotate", "issue", "revoked"} /\ r.op \in {"refresh", "delete"}
        /\ (r.op = "delete" <=> step = "revoked")
    BY <1>4
  <2> QED
    BY <1>4, <2>1, <2>2, GotoForm
<1>5. CASE RegisterCreate(q)
  <2>1. UNCHANGED <<token, holder, session, budget, devices, admins, trouble, alarmed, loggedOut,
                    overlapped, shut, staleRole>> /\ Used' = Used /\ Answer(q, NoToken)
        /\ registered' = registered \cup {User(q)}
        /\ active' = active \cup ({User(q)} \ registered)
    BY <1>1, <1>5 DEF RegisterCreate, tokens, ledger, Used
  <2> QED
    BY <1>0, <1>2, <2>1, AnswerForm
<1>6. CASE LoginTrack(q)
  <2>1. /\ r.op = "login" /\ r.seen \in SUBSET Clients
        /\ devices' = [devices EXCEPT ![User(q)] = r.seen \cup {r.client}]
        /\ request' = [request EXCEPT ![q].step = "issue", ![q].seen = {}]
        /\ UNCHANGED <<registered, active, admins, tokens, storage, budget, ledger>>
    BY <1>0, <1>6 DEF LoginTrack, Runs, Requests
  <2>2. [r EXCEPT !.step = "issue", !.seen = {}] \in Requests
    BY <1>0 DEF Requests, Steps
  <2>3. /\ request' \in [Slots -> Requests] /\ request'[q] = [r EXCEPT !.step = "issue", !.seen = {}]
        /\ \A p \in Slots : p # q => request'[p] = request[p]
    BY <1>0, <2>1, <2>2, Types
  <2>4. devices' \in [Users -> SUBSET Clients]
    BY <1>0, <1>2, <2>1 DEF SessionsTypeOK
  <2>5. SessionsTypeOK'
    BY <1>0, <1>1, <2>1, <2>3, <2>4
       DEF SessionsTypeOK, Requests, tokens, storage, budget, ledger
  <2>6. UNCHANGED <<holder, session, stored, loggedOut>> /\ Used' = Used
    BY <2>1 DEF tokens, storage, ledger, Used
  <2>7. TokenForm'
    BY <1>0, <2>6, TokenFormKept
  <2>8. RequestForm(q)'
    BY <1>0, <2>1, <2>3 DEF RequestForm, Requests, Ops, AdminOps, Holding
  <2> QED
    BY <2>1, <2>3, <2>5, <2>6, <2>7, <2>8, FormKept
<1>7. CASE IssuePair(q)
  BY <1>7, StepForm_IssuePair
<1>8. CASE RefreshFind(q)
  <2>1. r.op = "refresh" /\ UNCHANGED <<users, tokens, budget, ledger>>
    BY <1>8 DEF RefreshFind, Runs
  <2>2. UNCHANGED <<token, holder, session>> /\ Used' = Used
    BY <2>1 DEF tokens, Used
  <2>3. Answer(q, NoToken) \/ Goto(q, "burn") \/ Goto(q, "load")
    BY <1>8 DEF RefreshFind
  <2> QED
    BY <1>0, <1>3, <1>4, <2>1, <2>2, <2>3
<1>9. CASE RefreshBurn(q)
  <2>1. UNCHANGED <<registered, active, admins, devices, budget, trouble, loggedOut, overlapped,
                    shut, staleRole>> /\ Answer(q, NoToken) /\ alarmed' \subseteq Users
        /\ Revoke(TokensOf(User(q)))
    BY <1>0, <1>1, <1>2, <1>9 DEF RefreshBurn, users
  <2>2. token' \in [Tokens -> States] /\ UNCHANGED <<holder, session>> /\ Used' = Used
    BY <1>0, <2>1, RevokeIs
  <2> QED
    BY <1>0, <1>2, <2>1, <2>2, AnswerForm
<1>10. CASE RefreshLoadUser(q)
  <2>1. r.op = "refresh" /\ UNCHANGED <<users, tokens, budget, ledger>>
    BY <1>10 DEF RefreshLoadUser, Runs
  <2>2. CASE Answer(q, NoToken)
    BY <1>3, <2>1, <2>2
  <2>3. CASE UNCHANGED storage
             /\ request' = [request EXCEPT ![q].step = "rotate", ![q].scope = ScopeOf(User(q))]
    <3>1. [r EXCEPT !.step = "rotate", !.scope = ScopeOf(User(q))] \in Requests
      BY <1>0 DEF Requests, Steps, ScopeOf
    <3>2. /\ request' \in [Slots -> Requests]
          /\ request'[q] = [r EXCEPT !.step = "rotate", !.scope = ScopeOf(User(q))]
          /\ \A p \in Slots : p # q => request'[p] = request[p]
      BY <1>0, <2>3, <3>1, Types
    <3>3. SessionsTypeOK'
      BY <1>0, <1>1, <2>1, <2>3, <3>2
         DEF SessionsTypeOK, Requests, users, tokens, storage, budget, ledger
    <3>4. UNCHANGED <<registered, token, holder, session, stored, loggedOut>> /\ Used' = Used
      BY <2>1, <2>3 DEF users, tokens, storage, ledger, Used
    <3>5. TokenForm'
      BY <1>0, <3>4, TokenFormKept
    <3>6. /\ request'[q].op = r.op /\ request'[q].client = r.client /\ request'[q].step = "rotate"
          /\ request'[q].awaited = r.awaited /\ request'[q].token = r.token
      BY <1>0, <3>2 DEF Requests
    <3>7. RequestForm(q)'
      BY <1>0, <2>1, <3>4, <3>6 DEF RequestForm, Ops, AdminOps, Holding
    <3> QED
      BY <3>2, <3>3, <3>4, <3>5, <3>7, FormKept
  <2> QED
    BY <1>10, <2>2, <2>3 DEF RefreshLoadUser
<1>11. CASE RefreshRotate(q)
  <2>1. r.op = "refresh" /\ UNCHANGED <<users, budget, ledger>> /\ Goto(q, "issue")
        /\ Revoke({r.token})
    BY <1>11 DEF RefreshRotate, Runs
  <2>2. token' \in [Tokens -> States] /\ UNCHANGED <<holder, session>> /\ Used' = Used
    BY <1>0, <2>1, RevokeIs
  <2> QED
    BY <1>4, <2>1, <2>2
<1>12. CASE LogoutRevoke(q)
  <2>1. UNCHANGED <<registered, active, admins, devices, budget, trouble, alarmed, overlapped,
                    shut, staleRole>> /\ Answer(q, NoToken) /\ Revoke({r.token})
        /\ r.op = "logout" /\ loggedOut' = loggedOut \cup {session[r.token]}
    BY <1>0, <1>1, <1>2, <1>12 DEF LogoutRevoke, Runs, users
  <2>2. token' \in [Tokens -> States] /\ UNCHANGED <<holder, session>> /\ Used' = Used
    BY <1>0, <2>1, RevokeIs
  <2>3. loggedOut' \subseteq Used
    BY <1>0, <2>1 DEF TokenForm, RequestForm, Holding
  <2> QED
    BY <1>0, <1>2, <2>1, <2>2, <2>3, AnswerForm
<1> QED
  BY <1>5, <1>6, <1>7, <1>8, <1>9, <1>10, <1>11, <1>12 DEF AuthStep

LEMMA StepForm_GiveUp ==
  ASSUME FormInv, NEW q \in Slots, GiveUp(q), UNCHANGED adminVars
  PROVE  FormInv'
<1> DEFINE r == request[q]
<1>0. SessionsTypeOK /\ TokenForm /\ RequestForm(q) /\ r \in Requests /\ r.awaited
  BY Types DEF FormInv, GiveUp
<1>1. r.op \in Ops /\ r.client \in Clients
  BY <1>0 DEF RequestForm, Ops
<1>2. /\ request' \in [Slots -> Requests] /\ request'[q] = [r EXCEPT !.awaited = FALSE]
      /\ \A p \in Slots : p # q => request'[p] = request[p]
  <2>1. [r EXCEPT !.awaited = FALSE] \in Requests
    BY <1>0 DEF Requests
  <2> QED
    BY <1>0, <2>1, Types DEF GiveUp
<1>3. /\ stored' \in [Clients -> Tokens \cup {NoToken}] /\ access' \in [Clients -> Scopes]
      /\ \A c \in Clients : stored'[c] = stored[c] \/ stored'[c] = NoToken
  <2>1. Store(r.client, NoToken, "none") \/ UNCHANGED storage
    BY DEF GiveUp
  <2>2. "none" \in Scopes
    BY DEF Scopes
  <2> QED
    BY <1>0, <1>1, <2>1, <2>2, Types DEF Store, storage
<1>4. UNCHANGED <<users, tokens, ledger, shut, staleRole>> /\ <<mishaps', adminCalls'>> \in Within(0)
  BY MishapsBounded DEF GiveUp, adminVars
<1>5. SessionsTypeOK'
  BY <1>0, <1>2, <1>3, <1>4
     DEF SessionsTypeOK, Requests, Scopes, users, tokens, ledger
<1>6. Used' = Used /\ UNCHANGED <<registered, holder, session, loggedOut>>
  BY <1>4 DEF Used, tokens, ledger, users
<1>7. TokenForm'
  BY <1>0, <1>3, <1>6, TokenFormKept DEF TokenForm
<1>8. RequestForm(q)'
  BY <1>0, <1>1, <1>2, <1>6 DEF RequestForm, Requests, Ops, AdminOps, Holding
<1> QED
  BY <1>2, <1>5, <1>6, <1>7, <1>8, FormKept

LEMMA StepForm_LoseRequest ==
  ASSUME FormInv, NEW q \in Slots, LoseRequest(q), UNCHANGED adminVars
  PROVE  FormInv'
<1>0. SessionsTypeOK /\ TokenForm
  BY DEF FormInv
<1>1. /\ request' \in [Slots -> Requests] /\ request'[q] = Idle
      /\ \A p \in Slots : p # q => request'[p] = request[p]
  BY <1>0, Types, IdleIs DEF LoseRequest
<1>2. UNCHANGED <<users, tokens, storage, budget, ledger, shut, staleRole>>
  BY DEF LoseRequest, adminVars
<1>3. SessionsTypeOK'
  BY <1>0, <1>1, <1>2 DEF SessionsTypeOK, Requests, users, tokens, storage, budget, ledger
<1>4. Used' = Used /\ UNCHANGED <<registered, holder, session, stored, loggedOut>>
  BY <1>2 DEF Used, tokens, storage, ledger, users
<1>5. TokenForm'
  BY <1>0, <1>4, TokenFormKept DEF TokenForm
<1> QED
  BY <1>1, <1>3, <1>4, <1>5, IdleForm, FormKept

\* What a killed client waited for.
LEMMA KillIs ==
  ASSUME SessionsTypeOK, NEW c \in Clients, Kill(c)
  PROVE  /\ request' \in [Slots -> Requests]
         /\ \A q \in Slots :
              /\ request'[q].op = request[q].op /\ request'[q].client = request[q].client
              /\ request'[q].step = request[q].step /\ request'[q].token = request[q].token
              /\ request'[q].seen = request[q].seen /\ request'[q].target = request[q].target
              /\ request'[q].awaited = (request[q].awaited /\ request[q].client # c)
              /\ (~request[q].awaited => request'[q] = request[q])
<1>1. request' = [q \in Slots |->
        [request[q] EXCEPT !.awaited = request[q].awaited /\ request[q].client # c]]
  BY DEF Kill
<1>2. ASSUME NEW q \in Slots
      PROVE  /\ request'[q] \in Requests
             /\ request'[q].op = request[q].op /\ request'[q].client = request[q].client
             /\ request'[q].step = request[q].step /\ request'[q].token = request[q].token
             /\ request'[q].seen = request[q].seen /\ request'[q].target = request[q].target
             /\ request'[q].awaited = (request[q].awaited /\ request[q].client # c)
             /\ (~request[q].awaited => request'[q] = request[q])
  <2> DEFINE b == request[q].awaited /\ request[q].client # c
  <2>1. request'[q] = [request[q] EXCEPT !.awaited = b] /\ request[q] \in Requests
    BY <1>1, Types
  <2>2. b \in BOOLEAN /\ (~request[q].awaited => b = FALSE)
    BY DEF Requests
  <2> HIDE DEF b
  <2>3. request'[q].awaited = b
    BY <2>1 DEF Requests
  <2>4. ~request[q].awaited => request'[q] = request[q]
    <3>1. request[q].awaited \in BOOLEAN
      BY <2>1 DEF Requests
    <3> QED
      BY <2>1, <2>2, <3>1 DEF Requests
  <2> QED
    BY <2>1, <2>2, <2>3, <2>4 DEF Requests, b
<1>3. request' \in [Slots -> Requests]
  BY <1>1, <1>2
<1> QED
  BY <1>2, <1>3

LEMMA StepForm_Kill ==
  ASSUME FormInv, NEW c \in Clients, Kill(c), UNCHANGED adminVars
  PROVE  FormInv'
<1>0. SessionsTypeOK /\ TokenForm
  BY DEF FormInv
<1>1. UNCHANGED <<users, tokens, storage, alarmed, loggedOut, overlapped, shut, staleRole>>
      /\ <<mishaps', adminCalls'>> \in Within(0) /\ trouble' \in {trouble, trouble \cup {c}}
  BY MishapsBounded DEF Kill, adminVars
<1>2. request' \in [Slots -> Requests]
  BY <1>0, KillIs
<1>3. SessionsTypeOK'
  BY <1>0, <1>1, <1>2 DEF SessionsTypeOK, Requests, users, tokens, storage
<1>4. Used' = Used /\ UNCHANGED <<registered, holder, session, stored, loggedOut>>
  BY <1>1 DEF Used, tokens, storage, users
<1>5. TokenForm'
  BY <1>0, <1>4, TokenFormKept DEF TokenForm
<1>6. ASSUME NEW q \in Slots PROVE RequestForm(q)'
  <2>1. /\ request'[q].op = request[q].op /\ request'[q].client = request[q].client
        /\ request'[q].step = request[q].step /\ request'[q].token = request[q].token
        /\ request'[q].target = request[q].target
        /\ (request'[q].awaited => request[q].awaited)
        /\ (~request[q].awaited => request'[q] = request[q])
    BY <1>0, KillIs
  <2>2. RequestForm(q)
    BY DEF FormInv
  <2>3. request[q].op = "none" => request'[q] = Idle
    BY <2>1, <2>2, IdleIs DEF RequestForm
  <2> QED
    BY <1>4, <2>1, <2>2, <2>3 DEF RequestForm, User
<1> QED
  BY <1>3, <1>5, <1>6 DEF FormInv

\* Tokens expire or are cleaned up.
LEMMA TokensGoForm ==
  ASSUME FormInv, token' \in [Tokens -> States], Used' = Used,
         UNCHANGED <<users, holder, session, storage, request, ledger, shut, staleRole>>,
         <<mishaps', adminCalls'>> \in Within(0)
  PROVE  FormInv'
<1>0. SessionsTypeOK /\ TokenForm
  BY DEF FormInv
<1>1. SessionsTypeOK'
  BY <1>0 DEF SessionsTypeOK, States, users, storage, ledger
<1>2. UNCHANGED <<registered, holder, session, stored, loggedOut>>
  BY DEF users, storage, ledger
<1>3. TokenForm'
  BY <1>0, <1>2, TokenFormKept DEF TokenForm
<1>4. ASSUME NEW q \in Slots PROVE RequestForm(q)'
  BY <1>2 DEF FormInv, RequestForm, User
<1> QED
  BY <1>1, <1>3, <1>4 DEF FormInv

LEMMA StepForm_TokensGo ==
  ASSUME FormInv, \/ UNCHANGED adminVars /\ \E t \in Tokens : Expire(t)
                  \/ \E c \in Clients : RetentionCleanup(c)
  PROVE  FormInv'
<1>1. SessionsTypeOK
  BY DEF FormInv
<1>2. ASSUME NEW t \in Tokens, Expire(t), UNCHANGED adminVars PROVE FormInv'
  <2>1. token' \in [Tokens -> States] /\ Used' = Used
    BY <1>1, <1>2, Types DEF Expire, Used, States
  <2>2. /\ UNCHANGED <<users, holder, session, storage, request, ledger, shut, staleRole>>
        /\ <<mishaps', adminCalls'>> \in Within(0)
    BY <1>2, MishapsBounded DEF Expire, adminVars
  <2> QED
    BY <2>1, <2>2, TokensGoForm
<1>3. ASSUME NEW c \in Clients, RetentionCleanup(c) PROVE FormInv'
  <2>1. token' \in [Tokens -> States] /\ Used' = Used
    <3>1. PICK old \in SUBSET {t \in Tokens : token[t] = "revoked"} :
            token' = [t \in Tokens |-> IF t \in old THEN "gone" ELSE token[t]]
      BY <1>3 DEF RetentionCleanup
    <3>2. token' \in [Tokens -> States]
      BY <1>1, <3>1, Types DEF States
    <3>3. \A t \in Tokens : token'[t] # "unused" <=> token[t] # "unused"
      BY <3>1
    <3> QED
      BY <3>2, <3>3 DEF Used
  <2>2. /\ UNCHANGED <<users, holder, session, storage, request, ledger, shut, staleRole>>
        /\ <<mishaps', adminCalls'>> \in Within(0)
    BY <1>3, MishapsBounded DEF RetentionCleanup
  <2> QED
    BY <2>1, <2>2, TokensGoForm
<1> QED
  BY <1>2, <1>3

LEMMA StepForm_AdminAccept ==
  ASSUME FormInv, NEW q \in Slots, NEW c \in Clients, NEW op \in AdminOps, NEW u \in Users,
         AdminAccept(q, c, op, u)
  PROVE  FormInv'
<1> DEFINE r == [Idle EXCEPT !.op = op, !.client = c, !.step = "accepted", !.target = u]
<1>0. SessionsTypeOK /\ TokenForm
  BY DEF FormInv
<1>1. /\ r \in Requests /\ r.op = op /\ r.client = c /\ r.step = "accepted" /\ r.target = u
      /\ r.awaited = FALSE
  BY IdleIs DEF Requests, Idle
<1>2. /\ Start(q, r) /\ u \in registered /\ (op \in {"promote", "demote"} => u # UserOf[c])
      /\ UNCHANGED <<users, tokens, storage, ledger, shut, staleRole>>
      /\ <<mishaps', adminCalls'>> \in Within(0)
  BY MishapsBounded DEF AdminAccept
<1> HIDE DEF r
<1>3. request' \in [Slots -> Requests] /\ request'[q] = r
  BY <1>0, <1>1, <1>2, Types DEF Start
<1>4. SessionsTypeOK'
  BY <1>0, <1>2, <1>3 DEF SessionsTypeOK, Requests, users, tokens, storage, ledger
<1>5. UNCHANGED <<tokens, stored, loggedOut, registered>>
  BY <1>2 DEF users, storage, ledger
<1>6. RequestForm(q)'
  BY <1>1, <1>2, <1>3, <1>5 DEF RequestForm, User, Ops, AdminOps, Holding
<1>7. r.op # "none"
  BY <1>1 DEF AdminOps
<1> QED
  BY <1>1, <1>2, <1>4, <1>5, <1>6, <1>7, StartForm

LEMMA StepForm_AdminStep ==
  ASSUME FormInv, NEW q \in Slots, AdminStep(q)
  PROVE  FormInv'
<1> DEFINE r == request[q]
<1>0. SessionsTypeOK /\ TokenForm /\ RequestForm(q) /\ r \in Requests /\ shut \subseteq Users
      /\ staleRole \in BOOLEAN /\ token \in [Tokens -> States] /\ loggedOut \subseteq Used
      /\ registered \subseteq Users /\ active \subseteq registered /\ admins \subseteq registered
      /\ alarmed \subseteq Users
  BY Types DEF FormInv, TokenForm, SessionsTypeOK
<1>1. Busy(q) /\ r.op \in AdminOps /\ r.target \in registered /\ r.target \in Users
  <2>1. r.op \in AdminOps
    BY DEF AdminStep, SetActive, SetRole, DeleteUserSessions, DeleteUserAccount, Runs, AdminOps
  <2> QED
    BY <1>0, <2>1 DEF RequestForm, Busy, AdminOps
<1>2. ASSUME Answer(q, NoToken), UNCHANGED <<tokens, budget, ledger, registered, devices>>,
             active' \subseteq registered, admins' \subseteq registered, shut' \subseteq Users,
             staleRole' \in BOOLEAN
      PROVE  FormInv'
  <2>1. Used' = Used /\ UNCHANGED <<token, holder, session, trouble, alarmed, loggedOut, overlapped>>
    BY <1>2 DEF Used, tokens, ledger
  <2> QED
    BY <1>0, <1>1, <1>2, <2>1, AnswerForm
<1>3. CASE SetActive(q)
  BY <1>0, <1>1, <1>2, <1>3 DEF SetActive
<1>4. CASE SetRole(q)
  <2>1. staleRole' \in BOOLEAN
    BY <1>0, <1>4 DEF SetRole
  <2> QED
    BY <1>0, <1>1, <1>2, <1>4, <2>1 DEF SetRole
<1>5. CASE DeleteUserSessions(q)
  <2>1. /\ r.op = "delete" /\ Goto(q, "revoked") /\ Revoke(TokensOf(r.target))
        /\ UNCHANGED <<users, budget, trouble, loggedOut, overlapped, adminVars>>
        /\ alarmed' \subseteq Users
    BY <1>0, <1>1, <1>5 DEF DeleteUserSessions, Runs
  <2>2. token' \in [Tokens -> States] /\ UNCHANGED <<holder, session>> /\ Used' = Used
    BY <1>0, <2>1, RevokeIs
  <2>3. r.op \in {"refresh", "delete"}
    BY <2>1
  <2> QED
    BY <2>1, <2>2, <2>3, GotoForm
<1>6. CASE DeleteUserAccount(q)
  <2>1. shut' \subseteq Users
    BY <1>0, <1>1, <1>6 DEF DeleteUserAccount
  <2> QED
    BY <1>0, <1>1, <1>2, <1>6, <2>1 DEF DeleteUserAccount
<1> QED
  BY <1>3, <1>4, <1>5, <1>6 DEF AdminStep

LEMMA StepForm == FormInv /\ [Next]_systemVars => FormInv'
<1> SUFFICES ASSUME FormInv, [Next]_systemVars PROVE FormInv'
  OBVIOUS
<1>1. CASE UNCHANGED systemVars
  <2>1. UNCHANGED <<users, tokens, storage, request, budget, ledger, shut, staleRole>>
    BY <1>1 DEF systemVars, sessionVars, adminVars
  <2>2. UNCHANGED <<registered, active, admins, devices, token, holder, session, stored, access,
          request, mishaps, adminCalls, trouble, alarmed, loggedOut, overlapped, shut, staleRole>>
    BY <2>1 DEF users, tokens, storage, budget, ledger
  <2>3. SessionsTypeOK'
    BY <2>2 DEF FormInv, SessionsTypeOK
  <2>4. TokenForm'
    BY <2>2 DEF FormInv, TokenForm, Used
  <2>5. ASSUME NEW q \in Slots PROVE RequestForm(q)'
    BY <2>2 DEF FormInv, RequestForm, Used, User
  <2> QED
    BY <2>3, <2>4, <2>5 DEF FormInv
<1>2. CASE SessionsNext /\ UNCHANGED adminVars
  BY <1>2, StepForm_ClientStep, StepForm_AuthStep, StepForm_GiveUp, StepForm_LoseRequest,
     StepForm_Kill, StepForm_TokensGo DEF SessionsNext
<1>3. CASE \E q \in Slots, c \in Clients, op \in AdminOps, u \in Users : AdminAccept(q, c, op, u)
  BY <1>3, StepForm_AdminAccept
<1>4. CASE \E q \in Slots : AdminStep(q)
  BY <1>4, StepForm_AdminStep
<1>5. CASE \E c \in Clients : RetentionCleanup(c)
  BY <1>5, StepForm_TokensGo
<1> QED
  BY <1>1, <1>2, <1>3, <1>4, <1>5 DEF Next

\* Accounts, tokens, clients and requests keep their types and fit each other: no
\* request presents, no client stores and no session names the token of another.
THEOREM SessionsTypeCorrect == Spec => [](SessionsTypeOK /\ FormInv)
<1>1. FormInv => SessionsTypeOK
  BY DEF FormInv
<1> QED
  BY <1>1, InitForm, StepForm, PTL DEF Spec

--------------------------------------------------------------------------------
(* Steps that end requests, revoke tokens and clear storages. *)

\* A request goes on: it rotates what it revoked, and raises the alarm for a
\* revoked token.
GoesOn(p) ==
  /\ request'[p].op = request[p].op /\ request'[p].client = request[p].client
  /\ request'[p].token = request[p].token
  /\ request'[p].awaited => request[p].awaited
  /\ request'[p].step = "sent" => request[p].step = "sent"
  /\ request[p].op = "refresh" /\ request'[p].step = "issue" =>
       request[p].step = "issue" \/ token'[request[p].token] # "live"
  /\ request[p].op = "refresh" /\ request'[p].step = "burn" =>
       request[p].step = "burn" \/ (request[p].step = "sent" /\ token[request[p].token] = "revoked")

Ends(p) == request'[p].op \notin Holding \cup {"login"}

LogsIn(p) ==
  /\ request'[p].op = "login" /\ stored'[request'[p].client] = NoToken
  /\ \A o \in Slots : o # p => request'[o] = request[o]
  /\ AwaitedBy(request'[p].client, {"login"}) = {}

Fades ==
  /\ Used' = Used /\ UNCHANGED <<holder, session>> /\ Live' \subseteq Live
  /\ trouble \subseteq trouble' /\ alarmed \subseteq alarmed'
  /\ \A c \in Clients : stored'[c] \in {stored[c], NoToken}
  /\ \A p \in Slots : GoesOn(p) \/ Ends(p) \/ LogsIn(p)

\* A calm client that waits for a refresh or logout goes on waiting, or is
\* answered and stores nothing.
Waits ==
  \A p \in Slots : LET c == request[p].client IN
    /\ request[p].op \in Holding /\ request[p].awaited /\ c \notin trouble'
    => \/ /\ stored'[c] = NoToken
          /\ \A o \in Slots : ~(/\ request'[o].op \in Holding /\ request'[o].client = c
                              /\ request'[o].awaited)
       \/ /\ stored'[c] = stored[c]
          /\ request'[p].op \in Holding /\ request'[p].client = c /\ request'[p].awaited

\* No calm client has anything to do with a session that was logged out now.
Closes ==
  \A s \in loggedOut' \ loggedOut :
    /\ \A t \in Live' : session[t] = s => holder[t] \in trouble'
    /\ \A c \in Clients : c \notin trouble' /\ stored'[c] # NoToken => session[stored'[c]] # s
    /\ \A p \in Slots : request'[p].op \in Holding /\ request'[p].client \notin trouble' =>
         session[request'[p].token] # s

\* A token is revoked for an alarm, or by the only one that presents it.
Revokes ==
  \A t \in Tokens : token'[t] = "revoked" /\ token[t] # "revoked" =>
    \/ UserOf[holder[t]] \in alarmed'
    \/ /\ \A c \in Clients : stored'[c] = t /\ c \notin trouble' =>
            \E p \in Slots : /\ request'[p].op \in Holding /\ request'[p].client = c
                            /\ request'[p].awaited
       /\ \A p \in Slots : /\ request'[p].op = "refresh" /\ request'[p].step = "sent"
                           /\ request'[p].token = t
                           => request'[p].client \in trouble'

LEMMA FadesCalm ==
  ASSUME FormInv, FormInv', CalmInv, Fades, Waits, Closes, Revokes
  PROVE  CalmInv'
<1>0. SessionsTypeOK /\ TokenForm /\ TokenForm'
  BY DEF FormInv
<1>1. ASSUME NEW p \in Slots, request'[p].op \in Holding
      PROVE  /\ GoesOn(p) /\ request[p].op \in Holding /\ request[p].client \in Clients
             /\ request[p].token \in Used /\ holder[request[p].token] = request[p].client
             /\ SessionOf(p)' = SessionOf(p)
             /\ (request'[p].client \notin trouble' => Calm(request[p].client))
  <2>1. GoesOn(p) /\ request[p].op \in Holding
    BY <1>1 DEF Fades, Ends, LogsIn, GoesOn, Holding
  <2>2. RequestForm(p)
    BY DEF FormInv
  <2> QED
    BY <2>1, <2>2 DEF RequestForm, Holding, GoesOn, SessionOf, Fades, Calm
<1>2. Apart'
  <2>1. ASSUME NEW p \in Slots, NEW q \in Slots, p # q, request'[p].op \in Holding,
               request'[q].op \in Holding, SessionOf(p)' = SessionOf(q)'
        PROVE  request'[p].client \in trouble'
    BY <1>1, <2>1 DEF CalmInv, Apart
  <2> QED
    BY <2>1 DEF Apart, Calm
<1>3. InStep'
  <2>1. ASSUME NEW q \in Slots, request'[q].op \in Holding, request'[q].awaited,
               request'[q].client \notin trouble'
        PROVE  stored'[request'[q].client] = request'[q].token
    BY <1>1, <2>1 DEF CalmInv, InStep, Waits, GoesOn
  <2>2. ASSUME NEW q \in Slots, request'[q].op \in Holding, ~request'[q].awaited,
               request'[q].client \notin trouble', stored'[request'[q].client] # NoToken
        PROVE  session'[stored'[request'[q].client]] # SessionOf(q)'
    <3> DEFINE c == request[q].client
    <3>1. request'[q].client = c /\ c \in Clients /\ c \notin trouble' /\ Calm(c)
          /\ request[q].op \in Holding /\ SessionOf(q)' = SessionOf(q)
      BY <1>1, <2>2 DEF GoesOn
    <3>2. stored'[c] = stored[c]
      BY <2>2, <3>1 DEF Fades
    <3>3. ~request[q].awaited
      BY <2>2, <3>1 DEF Waits
    <3> QED
      BY <2>2, <3>1, <3>2, <3>3 DEF CalmInv, InStep, Fades
  <2>3. ASSUME NEW q \in Slots, request'[q].op = "login", request'[q].awaited,
               request'[q].client \notin trouble'
        PROVE  stored'[request'[q].client] = NoToken
    <3>1. CASE LogsIn(q)
      BY <3>1 DEF LogsIn
    <3>2. CASE GoesOn(q)
      <4>1. request[q].client \in Clients
        BY <2>3, <3>2 DEF FormInv, RequestForm, GoesOn
      <4> QED
        BY <2>3, <3>2, <4>1 DEF GoesOn, CalmInv, InStep, Fades, Calm
    <3> QED
      BY <2>3, <3>1, <3>2 DEF Fades, Ends
  <2> QED
    BY <2>1, <2>2, <2>3 DEF InStep, Holding, Calm
<1>4. Sole'
  <2>1. ASSUME NEW c \in Clients, c \notin trouble', stored'[c] # NoToken
        PROVE  /\ \A t \in Live' : session'[t] = session'[stored'[c]] => t = stored'[c]
               /\ session'[stored'[c]] \notin loggedOut'
    <3>1. stored'[c] = stored[c] /\ Calm(c)
      BY <2>1 DEF Fades, Calm
    <3> QED
      BY <2>1, <3>1 DEF Fades, Closes, CalmInv, Sole
  <2>2. ASSUME NEW q \in Slots, request'[q].op \in Holding, request'[q].client \notin trouble'
        PROVE  /\ \A t \in Live' : session'[t] = SessionOf(q)' =>
                    t = request'[q].token /\ request'[q].step # "issue"
               /\ SessionOf(q)' \notin loggedOut'
    <3>1. SessionOf(q) \notin loggedOut'
      BY <1>1, <2>2 DEF Closes, CalmInv, Sole, SessionOf, GoesOn
    <3>2. ASSUME NEW t \in Live', session'[t] = SessionOf(q)'
          PROVE  t = request'[q].token /\ request'[q].step # "issue"
      <4>1. t \in Live /\ session[t] = SessionOf(q) /\ token'[t] = "live"
        BY <1>1, <2>2, <3>2 DEF Fades, Live
      <4>2. t = request[q].token /\ request[q].step # "issue"
        BY <1>1, <2>2, <4>1 DEF CalmInv, Sole
      <4>3. request'[q].step # "issue"
        <5>1. CASE request[q].op = "refresh"
          BY <1>1, <2>2, <4>1, <4>2, <5>1 DEF GoesOn
        <5>2. CASE request[q].op = "logout"
          BY <1>1, <2>2, <5>2 DEF GoesOn, FormInv, RequestForm
        <5> QED
          BY <1>1, <2>2, <5>1, <5>2 DEF Holding
      <4> QED
        BY <1>1, <2>2, <4>2, <4>3 DEF GoesOn
    <3> QED
      BY <1>1, <2>2, <3>1, <3>2
  <2> QED
    BY <2>1, <2>2 DEF Sole, Calm
<1>5. ASSUME NEW q \in Slots, request'[q].op = "refresh", request'[q].client \notin trouble'
      PROVE  /\ request'[q].step = "sent" /\ token'[request'[q].token] = "revoked"
                => User(q)' \in alarmed'
             /\ request'[q].step = "burn" => User(q)' \in alarmed'
  <2>1. /\ GoesOn(q) /\ request[q].op = "refresh" /\ User(q)' = User(q)
        /\ request[q].token \in Tokens /\ holder[request[q].token] = request[q].client
        /\ Calm(request[q].client)
    BY <1>1, <1>5 DEF GoesOn, User, Used, Holding
  <2>2. alarmed \subseteq alarmed'
    BY DEF Fades
  <2>3. ASSUME request'[q].step = "sent", token'[request'[q].token] = "revoked"
        PROVE  User(q) \in alarmed'
    <3>1. CASE token[request[q].token] = "revoked"
      BY <2>1, <2>2, <2>3, <3>1 DEF GoesOn, CalmInv, Unrevoked
    <3>2. CASE token[request[q].token] # "revoked"
      BY <1>5, <2>1, <2>3, <3>2 DEF GoesOn, Revokes, User
    <3> QED
      BY <3>1, <3>2
  <2>4. ASSUME request'[q].step = "burn"
        PROVE  User(q) \in alarmed'
    BY <2>1, <2>2, <2>4 DEF GoesOn, CalmInv, Unrevoked, NoFalseAlarm, Runs, Calm
  <2> QED
    BY <2>1, <2>3, <2>4
<1>6. Unrevoked'
  BY <1>5 DEF Unrevoked, Calm
<1>7. NoFalseAlarm'
  BY <1>5 DEF NoFalseAlarm, Runs, Calm
<1>8. LoginAlone'
  <2>1. ASSUME NEW p \in Slots, NEW q \in Slots, request'[p].op = "login",
               request'[q].op = "login", request'[p].awaited, request'[q].awaited,
               request'[p].client = request'[q].client
        PROVE  p = q
    <3>1. CASE LogsIn(p)
      BY <2>1, <3>1 DEF LogsIn, AwaitedBy
    <3>2. CASE LogsIn(q)
      BY <2>1, <3>2 DEF LogsIn, AwaitedBy
    <3>3. CASE GoesOn(p) /\ GoesOn(q)
      BY <2>1, <3>3 DEF GoesOn, CalmInv, LoginAlone
    <3> QED
      BY <2>1, <3>1, <3>2, <3>3 DEF Fades, Ends
  <2> QED
    BY <2>1 DEF LoginAlone
<1>9. OneLivePerSession' /\ LogoutEndsSession'
  <2>1. ASSUME NEW t \in Live', session'[t] \in loggedOut' PROVE holder'[t] \in trouble'
    BY <2>1 DEF Fades, Closes, CalmInv, LogoutEndsSession
  <2> QED
    BY <2>1 DEF OneLivePerSession, LogoutEndsSession, CalmInv, Fades
<1>10. StaysSignedIn'
  <2>1. ASSUME NEW c \in Clients, stored'[c] # NoToken, token'[stored'[c]] \in {"revoked", "unused"},
               c \notin trouble', UserOf[c] \notin alarmed'
        PROVE  AwaitedBy(c, Holding)' # {}
    <3>1. stored'[c] = stored[c] /\ Calm(c) /\ UserOf[c] \notin alarmed
      BY <2>1 DEF Fades, Calm
    <3>2. stored[c] \in Used /\ holder[stored[c]] = c /\ stored[c] \in Tokens
      BY <1>0, <2>1, <3>1 DEF TokenForm, Used
    <3>3. token'[stored[c]] = "revoked"
      BY <2>1, <3>1, <3>2 DEF Fades, Used
    <3>4. CASE token[stored[c]] = "revoked"
      <4>1. PICK p \in AwaitedBy(c, Holding) : TRUE
        BY <2>1, <3>1, <3>4 DEF CalmInv, StaysSignedIn, Calm, Holding
      <4> QED
        BY <2>1, <4>1 DEF AwaitedBy, Waits
    <3>5. CASE token[stored[c]] # "revoked"
      BY <2>1, <3>1, <3>2, <3>3, <3>5 DEF Revokes, AwaitedBy
    <3> QED
      BY <3>4, <3>5
  <2> QED
    BY <2>1 DEF StaysSignedIn, Calm, Holding
<1> QED
  BY <1>2, <1>3, <1>4, <1>6, <1>7, <1>8, <1>9, <1>10 DEF CalmInv

--------------------------------------------------------------------------------
(* A calm client stays in step. *)

LEMMA InitCalm == Init => CalmInv
<1> SUFFICES ASSUME Init PROVE CalmInv
  OBVIOUS
<1>1. \A q \in Slots : request[q].op = "none"
  BY IdleIs DEF Init, SessionsInit
<1>2. Live = {} /\ \A c \in Clients : stored[c] = NoToken
  BY DEF Init, SessionsInit, Live
<1>3. Apart /\ InStep /\ Unrevoked /\ LoginAlone /\ NoFalseAlarm
  BY <1>1 DEF Apart, InStep, Unrevoked, LoginAlone, NoFalseAlarm, Holding, Runs
<1>4. Sole
  BY <1>1, <1>2 DEF Sole, Holding
<1>5. OneLivePerSession /\ LogoutEndsSession /\ StaysSignedIn
  BY <1>2 DEF OneLivePerSession, LogoutEndsSession, StaysSignedIn
<1> QED
  BY <1>3, <1>4, <1>5 DEF CalmInv

\* No token is revoked and no storage is cleared.
LEMMA StillCalm ==
  ASSUME FormInv, FormInv', CalmInv, UNCHANGED <<holder, session, stored, loggedOut>>,
         Used' = Used, \A t \in Tokens : token'[t] # token[t] => token'[t] = "gone",
         trouble \subseteq trouble', alarmed \subseteq alarmed',
         \A p \in Slots : GoesOn(p) \/ Ends(p) \/ LogsIn(p),
         \A p \in Slots : request[p].op \in Holding /\ request[p].awaited =>
           \/ request[p].client \in trouble'
           \/ /\ request'[p].op = request[p].op /\ request'[p].client = request[p].client
              /\ request'[p].awaited
  PROVE  CalmInv'
<1>1. Live' \subseteq Live
  <2> SUFFICES ASSUME NEW t \in Tokens, token'[t] = "live" PROVE token[t] = "live"
    BY DEF Live
  <2> QED
    OBVIOUS
<1>2. Fades
  BY <1>1 DEF Fades
<1>3. Waits
  BY DEF Waits, Calm
<1>4. Closes
  BY DEF Closes
<1>5. Revokes
  BY DEF Revokes
<1> QED
  BY <1>2, <1>3, <1>4, <1>5, FadesCalm

\* The same, for a step of one request that is neither a refresh nor a logout.
LEMMA CalmApart ==
  ASSUME FormInv, FormInv', CalmInv, UNCHANGED <<tokens, stored, ledger>>,
         NEW q \in Slots, request[q].op \notin Holding,
         \A p \in Slots : p # q => request'[p] = request[p],
         GoesOn(q) \/ Ends(q) \/ LogsIn(q)
  PROVE  CalmInv'
<1>1. UNCHANGED <<token, holder, session, stored, trouble, alarmed, loggedOut>> /\ Used' = Used
  BY DEF tokens, ledger, Used
<1>2. \A p \in Slots : GoesOn(p) \/ Ends(p) \/ LogsIn(p)
  BY <1>1 DEF GoesOn
<1> QED
  BY <1>1, <1>2, StillCalm

LEMMA CalmStep_LoginFind ==
  ASSUME FormInv, FormInv', CalmInv, NEW q \in Slots, NEW c \in Clients, LoginFind(q, c)
  PROVE  CalmInv'
<1>0. SessionsTypeOK
  BY DEF FormInv
<1>1. /\ request[q].op = "none" /\ request'[q].op = "login" /\ request'[q].client = c
      /\ \A p \in Slots : p # q => request'[p] = request[p]
  BY <1>0, Types DEF LoginFind, Start, Busy, Call, Idle
<1>2. UNCHANGED <<token, holder, session, stored, trouble, alarmed, loggedOut>> /\ Used' = Used
  BY DEF LoginFind, tokens, storage, Used
<1>3. LogsIn(q)
  BY <1>1, <1>2 DEF LogsIn, LoginFind, AwaitedBy
<1>4. \A p \in Slots : p # q => GoesOn(p)
  BY <1>1 DEF GoesOn
<1>5. request[q].op \notin Holding
  BY <1>1 DEF Holding
<1> QED
  BY <1>1, <1>2, <1>3, <1>4, <1>5, StillCalm

LEMMA CalmStep_Send ==
  ASSUME FormInv, FormInv', CalmInv, NEW q \in Slots, NEW c \in Clients,
         RefreshSend(q, c) \/ LogoutSend(q, c)
  PROVE  CalmInv'
<1>0. SessionsTypeOK /\ TokenForm
  BY DEF FormInv
<1>1. /\ stored[c] # NoToken /\ UNCHANGED <<tokens, storage, alarmed, loggedOut>>
      /\ trouble' = IF Beside(c) THEN trouble \cup {c} ELSE trouble
  BY DEF RefreshSend, LogoutSend
<1>2. /\ request'[q].op \in Holding /\ request'[q].client = c /\ request'[q].token = stored[c]
      /\ request'[q].step = "sent" /\ request'[q].awaited
      /\ \A p \in Slots : p # q => request'[p] = request[p]
  <2>1. ASSUME NEW op \in Holding, Start(q, Call(op, c, "sent"))
        PROVE  /\ request'[q].op = op /\ request'[q].client = c /\ request'[q].token = stored[c]
               /\ request'[q].step = "sent" /\ request'[q].awaited
               /\ \A p \in Slots : p # q => request'[p] = request[p]
    <3>1. request'[q] = Call(op, c, "sent") /\ \A p \in Slots : p # q => request'[p] = request[p]
      BY <1>0, <2>1, Types DEF Start
    <3> QED
      BY <3>1 DEF Call, Idle
  <2>2. CASE RefreshSend(q, c)
    BY <2>1, <2>2 DEF RefreshSend, Holding
  <2>3. CASE LogoutSend(q, c)
    BY <2>1, <2>3 DEF LogoutSend, Holding
  <2> QED
    BY <2>2, <2>3
<1>3. UNCHANGED <<token, holder, session, stored>> /\ Used' = Used /\ Live' = Live
      /\ trouble \subseteq trouble'
  BY <1>1 DEF tokens, storage, Used, Live
<1>4. stored[c] \in Used /\ holder[stored[c]] = c /\ SessionOf(q)' = session[stored[c]]
  BY <1>0, <1>1, <1>2, <1>3 DEF TokenForm, SessionOf
<1>5. ASSUME NEW p \in Slots, p # q, request[p].op \in Holding
      PROVE  /\ request[p].token \in Used /\ holder[request[p].token] = request[p].client
             /\ SessionOf(p)' = SessionOf(p) /\ request[p].client \in Clients
             /\ SessionOf(p) = session[stored[c]] => request[p].client = c /\ c \in trouble'
  <2>1. request[p].token \in Used /\ holder[request[p].token] = request[p].client
        /\ request[p].client \in Clients
    BY <1>5 DEF FormInv, RequestForm, Holding
  <2>2. SessionOf(p)' = SessionOf(p)
    BY <1>2, <1>3, <1>5 DEF SessionOf
  <2>3. SessionOf(p) = session[stored[c]] => request[p].client = c
    BY <1>0, <1>4, <2>1 DEF TokenForm, SessionOf
  <2>4. SessionOf(p) = session[stored[c]] => Beside(c)
    BY <1>5, <2>3 DEF Beside, SessionOf, Holding
  <2> QED
    BY <1>1, <2>1, <2>2, <2>3, <2>4
<1>6. Apart'
  <2>1. ASSUME NEW p \in Slots, NEW o \in Slots, p # o, request'[p].op \in Holding,
               request'[o].op \in Holding, SessionOf(p)' = SessionOf(o)'
        PROVE  request'[p].client \in trouble'
    <3>1. CASE p = q \/ o = q
      BY <1>2, <1>4, <1>5, <2>1, <3>1
    <3>2. CASE p # q /\ o # q
      BY <1>2, <1>3, <1>5, <2>1, <3>2 DEF CalmInv, Apart, Calm
    <3> QED
      BY <3>1, <3>2
  <2> QED
    BY <2>1 DEF Apart, Calm
<1>7. InStep'
  <2>1. ASSUME NEW p \in Slots, p # q, request'[p].op \in Holding \cup {"login"},
               request'[p].client \notin trouble'
        PROVE  /\ request'[p].op \in Holding /\ request'[p].awaited
                    => stored'[request'[p].client] = request'[p].token
               /\ request'[p].op = "login" /\ request'[p].awaited
                    => stored'[request'[p].client] = NoToken
               /\ request'[p].op \in Holding /\ ~request'[p].awaited
                    /\ stored'[request'[p].client] # NoToken
                    => session'[stored'[request'[p].client]] # SessionOf(p)'
    BY <1>2, <1>3, <1>5, <2>1 DEF CalmInv, InStep, Calm
  <2> QED
    BY <1>2, <1>3, <2>1 DEF InStep, Calm, Holding
<1>8. Sole'
  <2>1. ASSUME NEW a \in Clients, a \notin trouble', stored'[a] # NoToken
        PROVE  /\ \A t \in Live' : session'[t] = session'[stored'[a]] => t = stored'[a]
               /\ session'[stored'[a]] \notin loggedOut'
    BY <1>1, <1>3, <2>1 DEF CalmInv, Sole, Calm
  <2>2. ASSUME NEW p \in Slots, request'[p].op \in Holding, request'[p].client \notin trouble'
        PROVE  /\ \A t \in Live' : session'[t] = SessionOf(p)' =>
                    t = request'[p].token /\ request'[p].step # "issue"
               /\ SessionOf(p)' \notin loggedOut'
    <3>1. CASE p = q
      BY <1>1, <1>2, <1>3, <1>4, <2>1, <2>2, <3>1
    <3>2. CASE p # q
      BY <1>1, <1>2, <1>3, <1>5, <2>2, <3>2 DEF CalmInv, Sole, Calm
    <3> QED
      BY <3>1, <3>2
  <2> QED
    BY <2>1, <2>2 DEF Sole, Calm
<1>9. Unrevoked' /\ NoFalseAlarm'
  <2>1. ASSUME token[stored[c]] = "revoked" PROVE c \in trouble' \/ UserOf[c] \in alarmed'
    <3>1. c \in trouble \/ UserOf[c] \in alarmed \/ AwaitedBy(c, Holding) # {}
      BY <1>1, <2>1 DEF CalmInv, StaysSignedIn, Holding
    <3>2. ASSUME NEW p \in AwaitedBy(c, Holding), c \notin trouble PROVE c \in trouble'
      <4>1. p \in Slots /\ request[p].op \in Holding /\ stored[c] = request[p].token
        BY <3>2 DEF AwaitedBy, CalmInv, InStep, Calm
      <4>2. p # q
        BY <4>1 DEF RefreshSend, LogoutSend, Start, Busy, Holding
      <4> QED
        BY <1>5, <4>1, <4>2 DEF SessionOf
    <3> QED
      BY <1>1, <1>3, <3>1, <3>2
  <2>2. ASSUME NEW p \in Slots, request'[p].op = "refresh", request'[p].step = "sent",
               token'[request'[p].token] = "revoked"
        PROVE  request'[p].client \in trouble' \/ User(p)' \in alarmed'
    <3>1. CASE p = q
      BY <1>2, <1>3, <2>1, <2>2, <3>1 DEF User
    <3>2. CASE p # q
      BY <1>1, <1>2, <1>3, <2>2, <3>2 DEF CalmInv, Unrevoked, Calm, User
    <3> QED
      BY <3>1, <3>2
  <2>3. ASSUME NEW p \in Slots, request'[p].op = "refresh", request'[p].step = "burn"
        PROVE  request'[p].client \in trouble' \/ User(p)' \in alarmed'
    <3>1. p # q
      BY <1>2, <2>3
    <3> QED
      BY <1>1, <1>2, <1>3, <2>3, <3>1 DEF CalmInv, NoFalseAlarm, Runs, User
  <2> QED
    BY <2>2, <2>3 DEF Unrevoked, NoFalseAlarm, Calm, Runs
<1>10. LoginAlone'
  BY <1>2 DEF LoginAlone, CalmInv, Holding
<1>11. OneLivePerSession' /\ LogoutEndsSession'
  BY <1>1, <1>3 DEF CalmInv, OneLivePerSession, LogoutEndsSession
<1>12. StaysSignedIn'
  <2>1. ASSUME NEW a \in Clients, AwaitedBy(a, Holding) # {} PROVE AwaitedBy(a, Holding)' # {}
    <3>1. PICK p \in AwaitedBy(a, Holding) : TRUE
      BY <2>1
    <3>2. p # q
      BY <3>1 DEF AwaitedBy, RefreshSend, LogoutSend, Start, Busy, Holding
    <3> QED
      BY <1>2, <3>1, <3>2 DEF AwaitedBy
  <2> QED
    BY <1>1, <1>3, <2>1 DEF CalmInv, StaysSignedIn, Holding
<1> QED
  BY <1>6, <1>7, <1>8, <1>9, <1>10, <1>11, <1>12 DEF CalmInv

\* A calm client waits for one refresh or logout at a time.
LEMMA OneAwaited ==
  ASSUME CalmInv, NEW p \in Slots, NEW q \in Slots, p # q,
         request[p].op \in Holding, request[q].op \in Holding,
         request[p].awaited, request[q].awaited, request[p].client = request[q].client
  PROVE  request[p].client \in trouble
BY DEF CalmInv, Apart, InStep, SessionOf, Calm

\* A refresh or logout is answered.
LEMMA AnswerFades ==
  ASSUME FormInv, CalmInv, NEW q \in Slots, request[q].op \in Holding, Answer(q, NoToken),
         Used' = Used, UNCHANGED <<holder, session>>, Live' \subseteq Live,
         trouble \subseteq trouble', alarmed \subseteq alarmed'
  PROVE  /\ Fades /\ Waits
         /\ request'[q].op = "none" /\ \A p \in Slots : p # q => request'[p] = request[p]
         /\ \A c \in Clients : stored'[c] # NoToken =>
              stored'[c] = stored[c] /\ (c = request[q].client => ~request[q].awaited)
<1>0. SessionsTypeOK /\ request[q].client \in Clients /\ NoToken \in Tokens \cup {NoToken}
  BY DEF FormInv, RequestForm, Holding
<1>1. /\ request'[q] = Idle /\ \A p \in Slots : p # q => request'[p] = request[p]
      /\ \A c \in Clients : c # request[q].client => stored'[c] = stored[c]
      /\ IF request[q].awaited THEN stored'[request[q].client] = NoToken ELSE stored' = stored
  BY <1>0, AnswerIs
<1>2. request'[q].op = "none"
  BY <1>1, IdleIs
<1>3. \A p \in Slots : IF p = q THEN Ends(p) ELSE GoesOn(p)
  BY <1>1, <1>2 DEF Ends, GoesOn, Holding
<1>4. Fades
  BY <1>0, <1>1, <1>3 DEF Fades
<1>5. Waits
  <2> SUFFICES ASSUME NEW p \in Slots, request[p].op \in Holding, request[p].awaited,
                      request[p].client \notin trouble'
               PROVE  \/ /\ stored'[request[p].client] = NoToken
                         /\ \A o \in Slots : ~(/\ request'[o].op \in Holding
                                               /\ request'[o].client = request[p].client
                                               /\ request'[o].awaited)
                      \/ /\ stored'[request[p].client] = stored[request[p].client]
                         /\ request'[p].op \in Holding /\ request'[p].client = request[p].client
                         /\ request'[p].awaited
    BY DEF Waits, Calm
  <2>1. request[p].client \in Clients
    BY DEF FormInv, RequestForm, Holding
  <2>2. CASE p = q
    <3>1. ASSUME NEW o \in Slots, request'[o].op \in Holding,
                 request'[o].client = request[p].client, request'[o].awaited
          PROVE  FALSE
      <4>1. o # q /\ request'[o] = request[o]
        BY <1>1, <1>2, <3>1 DEF Holding
      <4> QED
        BY <2>2, <3>1, <4>1, OneAwaited
    <3> QED
      BY <1>1, <2>2, <3>1
  <2>3. CASE p # q /\ request[p].client = request[q].client
    BY <1>1, <2>3, OneAwaited
  <2>4. CASE p # q /\ request[p].client # request[q].client
    BY <1>1, <2>1, <2>4
  <2> QED
    BY <2>2, <2>3, <2>4
<1> QED
  BY <1>0, <1>1, <1>2, <1>4, <1>5

\* The token a refresh or logout revokes is nobody else's.
LEMMA OwnToken ==
  ASSUME FormInv, CalmInv, NEW q \in Slots, request[q].op \in Holding
  PROVE  /\ \A c \in Clients : stored[c] # NoToken /\ session[stored[c]] = SessionOf(q) =>
              /\ c = request[q].client
              /\ c \in trouble \/ (request[q].awaited /\ stored[c] = request[q].token)
         /\ \A p \in Slots : p # q /\ request[p].op \in Holding /\ SessionOf(p) = SessionOf(q)
              => request[p].client \in trouble
         /\ \A t \in Live : session[t] = SessionOf(q) =>
              /\ holder[t] = request[q].client
              /\ holder[t] \in trouble \/ t = request[q].token
<1>1. TokenForm /\ request[q].token \in Used /\ holder[request[q].token] = request[q].client
      /\ request[q].client \in Clients
  BY DEF FormInv, RequestForm, Holding
<1>2. ASSUME NEW c \in Clients, stored[c] # NoToken, session[stored[c]] = SessionOf(q)
      PROVE  /\ c = request[q].client
             /\ c \in trouble \/ (request[q].awaited /\ stored[c] = request[q].token)
  <2>1. c = request[q].client
    BY <1>1, <1>2 DEF TokenForm, SessionOf
  <2> QED
    BY <1>2, <2>1 DEF CalmInv, InStep, Calm
<1>3. ASSUME NEW t \in Live, session[t] = SessionOf(q)
      PROVE  /\ holder[t] = request[q].client
             /\ holder[t] \in trouble \/ t = request[q].token
  <2>1. t \in Used
    BY <1>3 DEF Live, Used
  <2>2. holder[t] = request[q].client
    BY <1>1, <1>3, <2>1 DEF TokenForm, SessionOf
  <2> QED
    BY <1>3, <2>2 DEF CalmInv, Sole, Calm
<1> QED
  BY <1>2, <1>3 DEF CalmInv, Apart, Calm

LEMMA CalmStep_Answer ==
  ASSUME FormInv, FormInv', CalmInv, NEW q \in Slots, request[q].op \in Holding,
         Answer(q, NoToken), UNCHANGED <<tokens, ledger>>
  PROVE  CalmInv'
<1>1. UNCHANGED <<token, holder, session, trouble, alarmed, loggedOut>> /\ Used' = Used
      /\ Live' = Live
  BY DEF tokens, ledger, Used, Live
<1>2. Fades /\ Waits
  BY <1>1, AnswerFades
<1>3. Closes /\ Revokes
  BY <1>1 DEF Closes, Revokes
<1> QED
  BY <1>2, <1>3, FadesCalm

LEMMA CalmStep_RefreshBurn ==
  ASSUME FormInv, FormInv', CalmInv, NEW q \in Slots, RefreshBurn(q)
  PROVE  CalmInv'
<1>1. /\ request[q].op \in Holding /\ Answer(q, NoToken) /\ Revoke(TokensOf(User(q)))
      /\ alarmed' = alarmed \cup {User(q)} /\ UNCHANGED <<trouble, loggedOut>>
  BY DEF RefreshBurn, Runs, Holding
<1>2. /\ Used' = Used /\ UNCHANGED <<holder, session>> /\ Live' \subseteq Live
      /\ \A t \in Tokens : token'[t] # token[t] => t \in TokensOf(User(q))
  BY <1>1, RevokeIs DEF FormInv
<1>3. Fades /\ Waits
  BY <1>1, <1>2, AnswerFades
<1>4. Closes /\ Revokes
  BY <1>1, <1>2 DEF Closes, Revokes, TokensOf
<1> QED
  BY <1>3, <1>4, FadesCalm

LEMMA CalmStep_LogoutRevoke ==
  ASSUME FormInv, FormInv', CalmInv, NEW q \in Slots, LogoutRevoke(q)
  PROVE  CalmInv'
<1> DEFINE s == SessionOf(q)
<1>1. /\ request[q].op \in Holding /\ Answer(q, NoToken) /\ Revoke({request[q].token})
      /\ loggedOut' = loggedOut \cup {s} /\ UNCHANGED <<trouble, alarmed>>
  BY DEF LogoutRevoke, Runs, Holding, SessionOf
<1>2. /\ Used' = Used /\ UNCHANGED <<holder, session>> /\ Live' = Live \ {request[q].token}
      /\ \A t \in Tokens : token'[t] # token[t] => t = request[q].token
  BY <1>1, RevokeIs DEF FormInv
<1>3. Live' \subseteq Live
  BY <1>2
<1>4. /\ Fades /\ Waits
      /\ request'[q].op = "none" /\ \A p \in Slots : p # q => request'[p] = request[p]
      /\ \A c \in Clients : stored'[c] # NoToken =>
           stored'[c] = stored[c] /\ (c = request[q].client => ~request[q].awaited)
  BY <1>1, <1>2, <1>3, AnswerFades
<1>5. ASSUME NEW c \in Clients, stored'[c] # NoToken, c \notin trouble'
      PROVE  session[stored'[c]] # s
  BY <1>1, <1>4, <1>5, OwnToken
<1>6. ASSUME NEW p \in Slots, request'[p].op \in Holding, session[request'[p].token] = s
      PROVE  request'[p].client \in trouble'
  <2>1. p # q /\ request'[p] = request[p]
    BY <1>4, <1>6 DEF Holding
  <2> QED
    BY <1>1, <1>6, <2>1, OwnToken DEF SessionOf
<1>7. Closes
  <2>1. ASSUME NEW t \in Live', session[t] = s PROVE holder[t] \in trouble'
    BY <1>1, <1>2, <2>1, OwnToken
  <2> QED
    BY <1>1, <1>5, <1>6, <2>1 DEF Closes, Calm
<1>8. Revokes
  <2>1. \A c \in Clients : stored'[c] = request[q].token => stored'[c] # NoToken
    BY SessionsAssumption, <1>1 DEF FormInv, RequestForm, Holding, Used
  <2>2. ASSUME NEW t \in Tokens, token'[t] # token[t]
        PROVE  /\ \A c \in Clients : stored'[c] = t => c \in trouble'
               /\ \A p \in Slots : request'[p].op = "refresh" /\ request'[p].token = t
                    => request'[p].client \in trouble'
    BY <1>2, <1>5, <1>6, <2>1, <2>2 DEF SessionOf, Holding
  <2> QED
    BY <2>2 DEF Revokes, Calm
<1> QED
  BY <1>4, <1>7, <1>8, FadesCalm

\* A step of one request that goes on, whose client goes on waiting.
LEMMA GoesOnFades ==
  ASSUME FormInv, CalmInv, NEW q \in Slots, NEW step \in {"burn", "load", "rotate", "issue", "revoked"},
         Goto(q, step), Used' = Used, UNCHANGED <<holder, session>>, Live' \subseteq Live,
         trouble \subseteq trouble', alarmed \subseteq alarmed',
         request[q].op = "refresh" =>
           /\ step = "issue" => token'[request[q].token] # "live"
           /\ step = "burn" => request[q].step = "sent" /\ token[request[q].token] = "revoked"
  PROVE  /\ Fades /\ Waits
         /\ request'[q].op = request[q].op /\ request'[q].client = request[q].client
         /\ request'[q].awaited = request[q].awaited /\ request'[q].step = step
         /\ \A p \in Slots : p # q => request'[p] = request[p]
         /\ stored' = stored
<1>0. SessionsTypeOK
  BY DEF FormInv
<1>1. /\ UNCHANGED storage /\ request'[q] = [request[q] EXCEPT !.step = step]
      /\ \A p \in Slots : p # q => request'[p] = request[p]
  BY <1>0, GotoIs
<1>2. /\ request'[q].op = request[q].op /\ request'[q].client = request[q].client
      /\ request'[q].awaited = request[q].awaited /\ request'[q].token = request[q].token
      /\ request'[q].step = step
  BY <1>0, <1>1, Types DEF Requests
<1>3. GoesOn(q)
  BY <1>2 DEF GoesOn
<1>4. \A p \in Slots : GoesOn(p)
  BY <1>1, <1>3 DEF GoesOn
<1>5. Fades
  BY <1>1, <1>4 DEF Fades, storage
<1>6. Waits
  BY <1>1, <1>2 DEF Waits, storage
<1> QED
  BY <1>1, <1>2, <1>5, <1>6 DEF storage

LEMMA CalmStep_RefreshRotate ==
  ASSUME FormInv, FormInv', CalmInv, NEW q \in Slots, RefreshRotate(q)
  PROVE  CalmInv'
<1> DEFINE r == request[q]
<1>0. SessionsTypeOK
  BY DEF FormInv
<1>1. /\ r.op = "refresh" /\ Goto(q, "issue") /\ Revoke({r.token})
      /\ UNCHANGED <<trouble, alarmed, loggedOut>>
  BY DEF RefreshRotate, Runs, ledger
<1>2. r.op \in Holding /\ r.token \in Used /\ holder[r.token] = r.client /\ r.client \in Clients
  BY <1>1 DEF FormInv, RequestForm, Holding
<1>3. /\ Used' = Used /\ UNCHANGED <<holder, session>> /\ Live' = Live \ {r.token}
      /\ \A t \in Tokens : token'[t] # token[t] => t = r.token
  BY <1>0, <1>1, RevokeIs
<1>4. Live' \subseteq Live /\ token'[r.token] # "live"
  BY <1>2, <1>3 DEF Live, Used
<1>5. /\ Fades /\ Waits
      /\ request'[q].op = r.op /\ request'[q].client = r.client
      /\ request'[q].awaited = r.awaited /\ request'[q].step = "issue"
      /\ \A p \in Slots : p # q => request'[p] = request[p]
      /\ stored' = stored
  BY <1>1, <1>3, <1>4, GoesOnFades
<1>6. Closes
  BY <1>1 DEF Closes
<1>7. Revokes
  <2>1. ASSUME NEW c \in Clients, stored'[c] = r.token, c \notin trouble'
        PROVE  request'[q].op \in Holding /\ request'[q].client = c /\ request'[q].awaited
    <3>1. stored[c] # NoToken /\ session[stored[c]] = SessionOf(q)
      BY SessionsAssumption, <1>2, <1>5, <2>1 DEF SessionOf, Used
    <3> QED
      BY <1>1, <1>2, <1>5, <2>1, <3>1, OwnToken
  <2>2. ASSUME NEW p \in Slots, request'[p].op = "refresh", request'[p].step = "sent",
               request'[p].token = r.token
        PROVE  request'[p].client \in trouble'
    <3>1. p # q /\ request'[p] = request[p]
      BY <1>5, <2>2
    <3> QED
      BY <1>1, <1>2, <2>2, <3>1, OwnToken DEF SessionOf, Holding
  <2> QED
    BY <1>3, <2>1, <2>2 DEF Revokes, Calm
<1> QED
  BY <1>5, <1>6, <1>7, FadesCalm

LEMMA CalmStep_DeleteUserSessions ==
  ASSUME FormInv, FormInv', CalmInv, NEW q \in Slots, DeleteUserSessions(q)
  PROVE  CalmInv'
<1> DEFINE u == request[q].target
<1>1. /\ request[q].op = "delete" /\ Goto(q, "revoked") /\ Revoke(TokensOf(u))
      /\ alarmed' = alarmed \cup {u} /\ UNCHANGED <<trouble, loggedOut>>
  BY DEF DeleteUserSessions, Runs
<1>2. /\ Used' = Used /\ UNCHANGED <<holder, session>> /\ Live' \subseteq Live
      /\ \A t \in Tokens : token'[t] # token[t] => t \in TokensOf(u)
  BY <1>1, RevokeIs DEF FormInv
<1>3. Fades /\ Waits
  BY <1>1, <1>2, GoesOnFades
<1>4. Closes /\ Revokes
  BY <1>1, <1>2 DEF Closes, Revokes, TokensOf
<1> QED
  BY <1>3, <1>4, FadesCalm

LEMMA CalmStep_RefreshFind ==
  ASSUME FormInv, FormInv', CalmInv, NEW q \in Slots, RefreshFind(q)
  PROVE  CalmInv'
<1>1. request[q].op = "refresh" /\ request[q].step = "sent" /\ UNCHANGED <<tokens, ledger>>
  BY DEF RefreshFind, Runs
<1>2. CASE Answer(q, NoToken)
  BY <1>1, <1>2, CalmStep_Answer DEF Holding
<1>3. ASSUME NEW step \in {"burn", "load"}, Goto(q, step),
             step = "burn" => token[request[q].token] = "revoked"
      PROVE  CalmInv'
  <2>1. UNCHANGED <<token, holder, session, trouble, alarmed, loggedOut>> /\ Used' = Used
        /\ Live' = Live
    BY <1>1 DEF tokens, ledger, Used, Live
  <2>2. step \in {"burn", "load", "rotate", "issue", "revoked"} /\ step # "issue"
    OBVIOUS
  <2>3. Fades /\ Waits
    BY <1>1, <1>3, <2>1, <2>2, GoesOnFades
  <2>4. Closes /\ Revokes
    BY <2>1 DEF Closes, Revokes
  <2> QED
    BY <2>3, <2>4, FadesCalm
<1> QED
  BY <1>2, <1>3 DEF RefreshFind

LEMMA CalmStep_RefreshLoadUser ==
  ASSUME FormInv, FormInv', CalmInv, NEW q \in Slots, RefreshLoadUser(q)
  PROVE  CalmInv'
<1>0. SessionsTypeOK
  BY DEF FormInv
<1>1. request[q].op = "refresh" /\ request[q].step = "load" /\ UNCHANGED <<tokens, ledger>>
  BY DEF RefreshLoadUser, Runs
<1>2. CASE Answer(q, NoToken)
  BY <1>1, <1>2, CalmStep_Answer DEF Holding
<1>3. CASE UNCHANGED storage
           /\ request' = [request EXCEPT ![q].step = "rotate", ![q].scope = ScopeOf(User(q))]
  <2>1. UNCHANGED <<token, holder, session, stored, trouble, alarmed, loggedOut>> /\ Used' = Used
    BY <1>1, <1>3 DEF tokens, storage, ledger, Used
  <2>2. /\ request'[q].op = request[q].op /\ request'[q].client = request[q].client
        /\ request'[q].awaited = request[q].awaited /\ request'[q].token = request[q].token
        /\ request'[q].step = "rotate"
        /\ \A p \in Slots : p # q => request'[p] = request[p]
    BY <1>0, <1>3, Types DEF Requests
  <2>3. \A p \in Slots : GoesOn(p)
    BY <2>1, <2>2 DEF GoesOn
  <2> QED
    BY <2>1, <2>2, <2>3, StillCalm
<1> QED
  BY <1>2, <1>3 DEF RefreshLoadUser

\* A request that is no refresh or logout is answered, and its client stores nothing.
LEMMA AnsweredApart ==
  ASSUME FormInv, FormInv', CalmInv, NEW q \in Slots, Busy(q), request[q].op \notin Holding,
         Answer(q, NoToken), UNCHANGED <<tokens, ledger>>
  PROVE  CalmInv'
<1>0. SessionsTypeOK
  BY DEF FormInv
<1>1. /\ request'[q] = Idle /\ \A p \in Slots : p # q => request'[p] = request[p]
      /\ UNCHANGED stored
  BY <1>0, Types DEF Answer, storage, Holding
<1>2. Ends(q)
  BY <1>1, IdleIs DEF Ends, Holding
<1> QED
  BY <1>1, <1>2, CalmApart

LEMMA CalmStep_Apart ==
  ASSUME FormInv, FormInv', CalmInv, NEW q \in Slots,
         \/ RegisterCreate(q) \/ LoginTrack(q) \/ SetActive(q) \/ SetRole(q) \/ DeleteUserAccount(q)
         \/ \E c \in Clients : RegisterCheck(q, c)
         \/ \E c \in Clients, op \in AdminOps, u \in Users : AdminAccept(q, c, op, u)
  PROVE  CalmInv'
<1>0. SessionsTypeOK
  BY DEF FormInv
<1>1. CASE RegisterCreate(q) \/ SetActive(q) \/ SetRole(q) \/ DeleteUserAccount(q)
  BY <1>1, AnsweredApart
     DEF RegisterCreate, SetActive, SetRole, DeleteUserAccount, Runs, Busy, Holding
<1>2. CASE LoginTrack(q)
  <2>1. request[q].op = "login" /\ UNCHANGED <<tokens, stored, ledger>>
    BY <1>2 DEF LoginTrack, Runs, storage
  <2>2. /\ request'[q].op = request[q].op /\ request'[q].client = request[q].client
        /\ request'[q].awaited = request[q].awaited /\ request'[q].token = request[q].token
        /\ request'[q].step = "issue"
        /\ \A p \in Slots : p # q => request'[p] = request[p]
    BY <1>0, <1>2, Types DEF LoginTrack, Requests
  <2>3. GoesOn(q) /\ request[q].op \notin Holding
    BY <2>1, <2>2 DEF GoesOn, Holding
  <2> QED
    BY <2>1, <2>2, <2>3, CalmApart
<1>3. ASSUME NEW r, r.op \notin Holding \cup {"login"}, Start(q, r), UNCHANGED <<tokens, stored, ledger>>
      PROVE  CalmInv'
  <2>1. request'[q] = r /\ \A p \in Slots : p # q => request'[p] = request[p]
    BY <1>0, <1>3, Types DEF Start
  <2>2. Ends(q) /\ request[q].op \notin Holding
    BY <1>3, <2>1 DEF Ends, Start, Busy, Holding
  <2> QED
    BY <1>3, <2>1, <2>2, CalmApart
<1>4. ASSUME NEW c \in Clients, RegisterCheck(q, c) PROVE CalmInv'
  <2> DEFINE r == Call("register", c, "checked")
  <2>1. r.op \notin Holding \cup {"login"}
    BY DEF Call, Idle, Holding
  <2>2. Start(q, r) /\ UNCHANGED <<tokens, stored, ledger>>
    BY <1>4 DEF RegisterCheck, storage
  <2> HIDE DEF r
  <2> QED
    BY <1>3, <2>1, <2>2
<1>5. ASSUME NEW c \in Clients, NEW op \in AdminOps, NEW u \in Users, AdminAccept(q, c, op, u)
      PROVE  CalmInv'
  <2> DEFINE r == [Idle EXCEPT !.op = op, !.client = c, !.step = "accepted", !.target = u]
  <2>1. r.op \notin Holding \cup {"login"}
    BY DEF Idle, Holding, AdminOps
  <2>2. Start(q, r) /\ UNCHANGED <<tokens, stored, ledger>>
    BY <1>5 DEF AdminAccept, storage
  <2> HIDE DEF r
  <2> QED
    BY <1>3, <2>1, <2>2
<1> QED
  BY <1>1, <1>2, <1>4, <1>5

LEMMA CalmStep_GiveUp ==
  ASSUME FormInv, FormInv', CalmInv, NEW q \in Slots, GiveUp(q)
  PROVE  CalmInv'
<1> DEFINE c == request[q].client
<1>0. SessionsTypeOK
  BY DEF FormInv
<1>1. c \in Clients /\ request[q].awaited
  BY DEF FormInv, RequestForm, GiveUp, Ops
<1>2. /\ request'[q].op = request[q].op /\ request'[q].client = c
      /\ request'[q].token = request[q].token /\ request'[q].step = request[q].step
      /\ request'[q].awaited = FALSE
      /\ \A p \in Slots : p # q => request'[p] = request[p]
  BY <1>0, Types DEF GiveUp, Requests
<1>3. UNCHANGED <<token, holder, session, trouble, alarmed, loggedOut>> /\ Used' = Used
      /\ Live' = Live
  BY DEF GiveUp, tokens, ledger, Used, Live
<1>4. /\ \A a \in Clients : a # c => stored'[a] = stored[a]
      /\ IF request[q].op \in Holding THEN stored'[c] = NoToken ELSE stored' = stored
  BY <1>0, <1>1, Types DEF GiveUp, Store, storage, Holding
<1>5. \A p \in Slots : GoesOn(p)
  BY <1>2 DEF GoesOn
<1>6. Fades
  BY <1>1, <1>3, <1>4, <1>5 DEF Fades
<1>7. Closes /\ Revokes
  BY <1>3 DEF Closes, Revokes
<1>8. Waits
  <2> SUFFICES ASSUME NEW p \in Slots, request[p].op \in Holding, request[p].awaited,
                      request[p].client \notin trouble'
               PROVE  \/ /\ stored'[request[p].client] = NoToken
                         /\ \A o \in Slots : ~(/\ request'[o].op \in Holding
                                               /\ request'[o].client = request[p].client
                                               /\ request'[o].awaited)
                      \/ /\ stored'[request[p].client] = stored[request[p].client]
                         /\ request'[p].op \in Holding /\ request'[p].client = request[p].client
                         /\ request'[p].awaited
    BY DEF Waits, Calm
  <2>1. request[p].client \in Clients
    BY DEF FormInv, RequestForm, Holding
  <2>2. CASE p = q
    BY <1>1, <1>2, <1>3, <1>4, <2>2, OneAwaited
  <2>3. CASE p # q /\ request[p].client = c
    BY <1>1, <1>2, <1>3, <1>4, <2>3, OneAwaited
  <2>4. CASE p # q /\ request[p].client # c
    BY <1>2, <1>4, <2>1, <2>4
  <2> QED
    BY <2>2, <2>3, <2>4
<1> QED
  BY <1>6, <1>7, <1>8, FadesCalm

LEMMA CalmStep_LoseRequest ==
  ASSUME FormInv, FormInv', CalmInv, NEW q \in Slots, LoseRequest(q)
  PROVE  CalmInv'
<1>1. request'[q].op = "none" /\ ~request[q].awaited
      /\ \A p \in Slots : p # q => request'[p] = request[p]
  BY Types, IdleIs DEF LoseRequest, FormInv
<1>2. UNCHANGED <<token, holder, session, stored, trouble, alarmed, loggedOut>> /\ Used' = Used
  BY DEF LoseRequest, tokens, storage, ledger, Used
<1>3. \A p \in Slots : IF p = q THEN Ends(p) ELSE GoesOn(p)
  BY <1>1 DEF Ends, GoesOn, Holding
<1> QED
  BY <1>1, <1>2, <1>3, StillCalm

LEMMA CalmStep_Kill ==
  ASSUME FormInv, FormInv', CalmInv, NEW c \in Clients, Kill(c)
  PROVE  CalmInv'
<1>1. \A q \in Slots :
        /\ request'[q].op = request[q].op /\ request'[q].client = request[q].client
        /\ request'[q].step = request[q].step /\ request'[q].token = request[q].token
        /\ request'[q].awaited = (request[q].awaited /\ request[q].client # c)
  BY KillIs DEF FormInv
<1>2. UNCHANGED <<token, holder, session, stored, alarmed, loggedOut>> /\ Used' = Used
      /\ trouble' = IF AwaitedBy(c, Holding) = {} THEN trouble ELSE trouble \cup {c}
  BY DEF Kill, tokens, storage, Used, Holding
<1>3. \A p \in Slots : GoesOn(p)
  BY <1>1 DEF GoesOn
<1>4. ASSUME NEW p \in Slots, request[p].op \in Holding, request[p].awaited
      PROVE  \/ request[p].client \in trouble'
             \/ /\ request'[p].op = request[p].op /\ request'[p].client = request[p].client
                /\ request'[p].awaited
  <2>1. CASE request[p].client = c
    BY <1>2, <1>4, <2>1 DEF AwaitedBy
  <2>2. CASE request[p].client # c
    BY <1>1, <1>4, <2>2
  <2> QED
    BY <2>1, <2>2
<1>5. trouble \subseteq trouble'
  BY <1>2
<1> QED
  BY <1>2, <1>3, <1>4, <1>5, StillCalm

\* Nothing happens to requests and storages, and tokens may go.
LEMMA CalmStep_TokensGo ==
  ASSUME FormInv, FormInv', CalmInv,
         (\E t \in Tokens : Expire(t)) \/ (\E c \in Clients : RetentionCleanup(c))
  PROVE  CalmInv'
<1>0. SessionsTypeOK
  BY DEF FormInv
<1>1. UNCHANGED <<holder, session, stored, request, trouble, alarmed, loggedOut>>
  BY DEF Expire, RetentionCleanup, storage, ledger
<1>2. ASSUME NEW t \in Tokens, token'[t] # token[t]
      PROVE  token'[t] = "gone" /\ token[t] # "unused"
  <2>1. CASE \E s \in Tokens : Expire(s)
    BY <1>0, <1>2, <2>1, Types DEF Expire
  <2>2. CASE \E c \in Clients : RetentionCleanup(c)
    BY <1>2, <2>2 DEF RetentionCleanup
  <2> QED
    BY <2>1, <2>2
<1>3. Used' = Used
  <2>1. \A t \in Tokens : token'[t] # "unused" <=> token[t] # "unused"
    BY <1>2
  <2> QED
    BY <2>1 DEF Used
<1>4. \A p \in Slots : GoesOn(p)
  BY <1>1 DEF GoesOn
<1> QED
  BY <1>1, <1>2, <1>3, <1>4, StillCalm

\* A pair is issued, into a session that a calm client left without a live token.
LEMMA CalmStep_IssuePair ==
  ASSUME FormInv, FormInv', CalmInv, NEW q \in Slots, IssuePair(q)
  PROVE  CalmInv'
<1> DEFINE c == request[q].client
<1>0. SessionsTypeOK /\ TokenForm /\ TokenForm'
  BY DEF FormInv
<1>1. PICK t \in Unused :
        /\ token' = [token EXCEPT ![t] = "live"]
        /\ holder' = [holder EXCEPT ![t] = c]
        /\ session' = [session EXCEPT ![t] =
             IF request[q].op = "login" THEN t ELSE session[request[q].token]]
        /\ Answer(q, t)
  BY DEF IssuePair
<1> DEFINE s == IF request[q].op = "login" THEN t ELSE SessionOf(q)
<1>2. /\ c \in Clients /\ t \in Tokens /\ t \notin Used /\ t # NoToken /\ t \notin Live
      /\ (request[q].op = "refresh" => request[q].token \in Used /\ holder[request[q].token] = c)
      /\ (request[q].op = "login" \/ (request[q].op = "refresh" /\ request[q].step = "issue"))
  BY SessionsAssumption DEF IssuePair, FormInv, RequestForm, Holding, Unused, Used, Live
<1>3. /\ request'[q].op = "none" /\ \A p \in Slots : p # q => request'[p] = request[p]
      /\ \A a \in Clients : a # c => stored'[a] = stored[a]
      /\ IF request[q].awaited THEN stored'[c] = t ELSE stored' = stored
  <2>1. t \in Tokens \cup {NoToken}
    BY <1>2
  <2>2. /\ request'[q] = Idle /\ \A p \in Slots : p # q => request'[p] = request[p]
        /\ \A a \in Clients : stored'[a] = stored[a] \/ a = c
        /\ IF request[q].awaited /\ (t # NoToken \/ request[q].op \in Holding)
           THEN stored'[c] = t ELSE stored' = stored
    BY <1>0, <1>1, <1>2, <2>1, AnswerIs
  <2> QED
    BY <1>2, <2>2, IdleIs
<1>4. /\ \A u \in Used : /\ holder'[u] = holder[u] /\ session'[u] = session[u]
                         /\ token'[u] = token[u] /\ u # t
      /\ holder'[t] = c /\ session'[t] = s /\ token'[t] = "live"
      /\ UNCHANGED <<trouble, alarmed, loggedOut>>
  BY <1>0, <1>1, <1>2 DEF SessionsTypeOK, Used, SessionOf, IssuePair, ledger
<1>5. Live' = Live \cup {t} /\ Live \subseteq Used
  BY <1>0, <1>1, <1>2, Types DEF Live, Used
<1>6. \A u \in Used : session[u] = s => holder[u] = c
  BY <1>0, <1>2 DEF TokenForm, SessionOf
<1> HIDE DEF s
<1>7. ASSUME NEW p \in Slots, request'[p].op \in Holding
      PROVE  /\ p # q /\ request'[p] = request[p] /\ request[p].op \in Holding
             /\ request[p].client \in Clients /\ request[p].token \in Used
             /\ SessionOf(p)' = SessionOf(p) /\ holder[request[p].token] = request[p].client
  <2>1. p # q /\ request'[p] = request[p]
    BY <1>3, <1>7 DEF Holding
  <2>2. request[p].token \in Used /\ request[p].client \in Clients
        /\ holder[request[p].token] = request[p].client
    BY <1>7, <2>1 DEF FormInv, RequestForm, Holding
  <2> QED
    BY <1>4, <1>7, <2>1, <2>2 DEF SessionOf
<1>8. c \notin trouble =>
        /\ \A u \in Live : session[u] # s
        /\ s \notin loggedOut
        /\ \A p \in Slots : p # q /\ request[p].op \in Holding => SessionOf(p) # s
        /\ stored[c] # NoToken /\ session[stored[c]] = s => request[q].awaited
  <2>1. CASE request[q].op = "login"
    <3>1. s = t /\ \A u \in Used : session[u] # s
      BY <1>0, <1>2, <2>1 DEF TokenForm, s
    <3> QED
      BY <1>0, <1>2, <1>5, <3>1 DEF TokenForm, SessionOf, FormInv, RequestForm, Holding
  <2>2. CASE request[q].op = "refresh"
    <3>1. s = SessionOf(q) /\ request[q].op \in Holding /\ request[q].step = "issue"
      BY <1>2, <2>2 DEF s, Holding
    <3>2. c \notin trouble => \A u \in Live : session[u] # s
      BY <3>1 DEF CalmInv, Sole, Calm
    <3>3. c \notin trouble => s \notin loggedOut
      BY <3>1 DEF CalmInv, Sole, Calm
    <3>4. c \notin trouble =>
            \A p \in Slots : p # q /\ request[p].op \in Holding => SessionOf(p) # s
      BY <3>1 DEF CalmInv, Apart, Calm
    <3> QED
      BY <1>2, <3>1, <3>2, <3>3, <3>4, OwnToken
  <2> QED
    BY <1>2, <2>1, <2>2
<1>9. Apart'
  BY <1>4, <1>7 DEF CalmInv, Apart, Calm
<1>10. InStep'
  <2>1. ASSUME NEW p \in Slots, request'[p].op \in Holding, request'[p].client \notin trouble'
        PROVE  /\ request'[p].awaited => stored'[request'[p].client] = request'[p].token
               /\ ~request'[p].awaited /\ stored'[request'[p].client] # NoToken
                    => session'[stored'[request'[p].client]] # SessionOf(p)'
    <3> DEFINE a == request[p].client
    <3>0. /\ p # q /\ request'[p] = request[p] /\ request[p].op \in Holding /\ a \in Clients
          /\ request[p].token \in Used /\ SessionOf(p)' = SessionOf(p) /\ a \notin trouble
      BY <1>4, <1>7, <2>1
    <3>1. CASE stored'[a] = stored[a]
      <4>1. stored[a] # NoToken => stored[a] \in Used
        BY <1>0, <3>0 DEF TokenForm
      <4> QED
        BY <1>4, <3>0, <3>1, <4>1 DEF CalmInv, InStep, Calm
    <3>2. CASE stored'[a] # stored[a]
      <4>1. a = c /\ request[q].awaited /\ stored'[a] = t
        BY <1>3, <3>0, <3>2
      <4>2. SessionOf(p) # s
        BY <1>8, <3>0, <4>1
      <4>3. ~request[p].awaited
        <5>1. CASE request[q].op = "login"
          <6>1. stored[c] = NoToken
            BY <3>0, <4>1, <5>1 DEF CalmInv, InStep, Calm
          <6>2. request[p].token # NoToken
            BY SessionsAssumption, <3>0 DEF Used
          <6> QED
            BY <3>0, <4>1, <6>1, <6>2 DEF CalmInv, InStep, Calm
        <5>2. CASE request[q].op = "refresh"
          BY <3>0, <4>1, <5>2, OneAwaited DEF Holding
        <5> QED
          BY <1>2, <5>1, <5>2
      <4> QED
        BY <1>4, <3>0, <4>1, <4>2, <4>3
    <3> QED
      BY <3>1, <3>2
  <2>2. ASSUME NEW p \in Slots, request'[p].op = "login", request'[p].awaited,
               request'[p].client \notin trouble'
        PROVE  stored'[request'[p].client] = NoToken
    <3> DEFINE a == request[p].client
    <3>1. p # q /\ request'[p] = request[p] /\ a \in Clients /\ a \notin trouble
      BY <1>3, <1>4, <2>2 DEF FormInv, RequestForm
    <3>2. stored[a] = NoToken
      BY <2>2, <3>1 DEF CalmInv, InStep, Calm
    <3>3. ASSUME stored'[a] # stored[a] PROVE FALSE
      <4>1. a = c /\ request[q].awaited
        BY <1>3, <3>1, <3>3
      <4>2. CASE request[q].op = "login"
        BY <2>2, <3>1, <4>1, <4>2 DEF CalmInv, LoginAlone
      <4>3. CASE request[q].op = "refresh"
        <5>1. stored[c] = request[q].token
          BY <3>1, <4>1, <4>3 DEF CalmInv, InStep, Calm, Holding
        <5> QED
          BY SessionsAssumption, <1>2, <3>2, <4>1, <4>3, <5>1 DEF Used
      <4> QED
        BY <1>2, <4>2, <4>3
    <3> QED
      BY <3>1, <3>2, <3>3
  <2> QED
    BY <2>1, <2>2 DEF InStep, Holding, Calm
<1>11. Sole'
  <2>1. ASSUME NEW a \in Clients, a \notin trouble', stored'[a] # NoToken
        PROVE  /\ \A u \in Live' : session'[u] = session'[stored'[a]] => u = stored'[a]
               /\ session'[stored'[a]] \notin loggedOut'
    <3>1. CASE a = c /\ request[q].awaited
      BY <1>3, <1>4, <1>5, <1>8, <2>1, <3>1
    <3>2. CASE ~(a = c /\ request[q].awaited)
      <4>1. stored'[a] = stored[a] /\ stored[a] \in Used /\ holder[stored[a]] = a
        BY <1>0, <1>3, <2>1, <3>2 DEF TokenForm
      <4>2. session[stored[a]] # s
        BY <1>4, <1>6, <1>8, <2>1, <3>2, <4>1
      <4> QED
        BY <1>4, <1>5, <2>1, <4>1, <4>2 DEF CalmInv, Sole, Calm
    <3> QED
      BY <3>1, <3>2
  <2>2. ASSUME NEW p \in Slots, request'[p].op \in Holding, request'[p].client \notin trouble'
        PROVE  /\ \A u \in Live' : session'[u] = SessionOf(p)' =>
                    u = request'[p].token /\ request'[p].step # "issue"
               /\ SessionOf(p)' \notin loggedOut'
    <3>1. SessionOf(p) # s
      BY <1>4, <1>6, <1>7, <1>8, <2>2 DEF SessionOf
    <3> QED
      BY <1>4, <1>5, <1>7, <2>2, <3>1 DEF CalmInv, Sole, Calm
  <2> QED
    BY <2>1, <2>2 DEF Sole, Calm
<1>12. Unrevoked' /\ NoFalseAlarm'
  <2>1. ASSUME NEW p \in Slots, request'[p].op = "refresh"
        PROVE  /\ request'[p] = request[p] /\ User(p)' = User(p)
               /\ token'[request'[p].token] = token[request[p].token]
    BY <1>4, <1>7, <2>1 DEF User, Holding
  <2> QED
    BY <1>4, <2>1 DEF CalmInv, Unrevoked, NoFalseAlarm, Calm, Runs
<1>13. LoginAlone'
  BY <1>3 DEF LoginAlone, CalmInv
<1>14. OneLivePerSession' /\ LogoutEndsSession'
  <2>1. ASSUME NEW a \in Live', NEW b \in Live', a # b, session'[a] = session'[b]
        PROVE  holder'[a] \in trouble'
    <3>1. CASE a \in Live /\ b \in Live
      BY <1>4, <1>5, <2>1, <3>1 DEF CalmInv, OneLivePerSession
    <3>2. CASE a = t \/ b = t
      BY <1>4, <1>5, <1>6, <1>8, <2>1, <3>2
    <3> QED
      BY <1>5, <3>1, <3>2
  <2>2. ASSUME NEW a \in Live', session'[a] \in loggedOut' PROVE holder'[a] \in trouble'
    BY <1>4, <1>5, <1>8, <2>2 DEF CalmInv, LogoutEndsSession
  <2> QED
    BY <2>1, <2>2 DEF OneLivePerSession, LogoutEndsSession
<1>16. StaysSignedIn'
  <2>1. ASSUME NEW a \in Clients, stored'[a] # NoToken, token'[stored'[a]] \in {"revoked", "unused"},
               a \notin trouble', UserOf[a] \notin alarmed'
        PROVE  AwaitedBy(a, Holding)' # {}
    <3>1. stored'[a] # t
      BY <1>4, <2>1
    <3>2. stored'[a] = stored[a] /\ ~(a = c /\ request[q].awaited)
      BY <1>3, <2>1, <3>1
    <3>3. stored[a] \in Used
      BY <1>0, <2>1, <3>2 DEF TokenForm
    <3>4. PICK p \in AwaitedBy(a, Holding) : TRUE
      BY <1>4, <2>1, <3>2, <3>3 DEF CalmInv, StaysSignedIn, Holding
    <3>5. p # q
      BY <3>2, <3>4 DEF AwaitedBy
    <3> QED
      BY <1>3, <3>4, <3>5 DEF AwaitedBy
  <2> QED
    BY <2>1 DEF StaysSignedIn, Holding
<1> QED
  BY <1>9, <1>10, <1>11, <1>12, <1>13, <1>14, <1>16 DEF CalmInv

LEMMA CalmStep == FormInv /\ FormInv' /\ CalmInv /\ [Next]_systemVars => CalmInv'
<1> SUFFICES ASSUME FormInv, FormInv', CalmInv, [Next]_systemVars PROVE CalmInv'
  OBVIOUS
<1>1. CASE UNCHANGED systemVars
  <2>1. UNCHANGED <<tokens, storage, request, ledger>>
    BY <1>1 DEF systemVars, sessionVars
  <2>2. UNCHANGED <<token, holder, session, stored, request, trouble, alarmed, loggedOut>>
        /\ Used' = Used
    BY <2>1 DEF tokens, storage, ledger, Used
  <2>3. \A p \in Slots : GoesOn(p)
    BY <2>2 DEF GoesOn
  <2> QED
    BY <2>2, <2>3, StillCalm
<1>2. ASSUME NEW q \in Slots, AuthStep(q) PROVE CalmInv'
  BY <1>2, CalmStep_Apart, CalmStep_IssuePair, CalmStep_RefreshFind, CalmStep_RefreshBurn,
     CalmStep_RefreshLoadUser, CalmStep_RefreshRotate, CalmStep_LogoutRevoke DEF AuthStep
<1>3. ASSUME NEW q \in Slots, NEW c \in Clients, ClientStep(q, c) PROVE CalmInv'
  BY <1>3, CalmStep_Apart, CalmStep_LoginFind, CalmStep_Send DEF ClientStep
<1>4. ASSUME NEW q \in Slots, AdminStep(q) PROVE CalmInv'
  BY <1>4, CalmStep_Apart, CalmStep_DeleteUserSessions DEF AdminStep
<1>5. CASE SessionsNext
  BY <1>2, <1>3, <1>5, CalmStep_GiveUp, CalmStep_LoseRequest, CalmStep_Kill, CalmStep_TokensGo
     DEF SessionsNext
<1>6. CASE \E q \in Slots, c \in Clients, op \in AdminOps, u \in Users : AdminAccept(q, c, op, u)
  BY <1>6, CalmStep_Apart
<1>7. CASE \E c \in Clients : RetentionCleanup(c)
  BY <1>7, CalmStep_TokensGo
<1> QED
  BY <1>1, <1>4, <1>5, <1>6, <1>7 DEF Next

LEMMA CalmAlways == Spec => [](FormInv /\ CalmInv)
BY InitForm, StepForm, InitCalm, CalmStep, PTL DEF Spec

--------------------------------------------------------------------------------
(* Deleted users stay out, and devices are recorded. *)

LEMMA InitAccounts == Init => AccountsInv
<1> SUFFICES ASSUME Init PROVE AccountsInv
  OBVIOUS
<1>1. ShutQuietly /\ DevicesRecorded
  BY DEF Init, SessionsInit, ShutQuietly, DevicesRecorded
<1>2. ListKnown
  BY IdleIs DEF Init, SessionsInit, ListKnown
<1> QED
  BY <1>1, <1>2 DEF AccountsInv

\* Nobody else is deleted, and nobody who was gets anywhere.
LEMMA ShutKept ==
  ASSUME ShutQuietly, registered \subseteq registered', shut' \subseteq shut,
         shut' \cap active' = {},
         \A t \in Live' : \/ t \in Live /\ holder'[t] = holder[t]
                          \/ UserOf[holder'[t]] \notin shut',
         \A p \in Slots :
           \/ request'[p].op \notin {"login", "refresh"}
           \/ /\ request'[p].op = request[p].op /\ request'[p].client = request[p].client
              /\ request'[p].step = request[p].step
           \/ User(p)' \notin shut' \/ request'[p].step \in {"sent", "load", "burn"}
  PROVE  ShutQuietly'
<1> SUFFICES ASSUME NEW u \in shut' PROVE u \in registered' \ active' /\ Quiet(u)'
  BY DEF ShutQuietly
<1>1. u \in registered' \ active' /\ Quiet(u) /\ u \in shut
  BY DEF ShutQuietly
<1>2. TokensOf(u)' \cap Live' = {}
  <2> SUFFICES ASSUME NEW t \in Live', UserOf[holder'[t]] = u PROVE FALSE
    BY DEF TokensOf
  <2>1. t \in Live /\ holder[t] = holder'[t]
    OBVIOUS
  <2>2. t \in TokensOf(u)
    BY <2>1 DEF TokensOf, Live
  <2> QED
    BY <1>1, <2>1, <2>2 DEF Quiet
<1>3. ASSUME NEW p \in Slots, request'[p].op \in {"login", "refresh"}, User(p)' = u
      PROVE  request'[p].step \in {"sent", "load", "burn"}
  BY <1>1, <1>3 DEF Quiet, User
<1> QED
  BY <1>1, <1>2, <1>3 DEF Quiet

\* Nobody logs in, and no token is issued.
LEMMA ListsKept ==
  ASSUME ListKnown, DevicesRecorded, UNCHANGED <<devices, overlapped, holder>>, Used' = Used,
         \A p \in Slots : request'[p].op = "login" =>
           /\ request[p].op = "login" /\ request'[p].client = request[p].client
           /\ request'[p].step = request[p].step /\ request'[p].seen = request[p].seen
  PROVE  ListKnown' /\ DevicesRecorded'
<1>1. DevicesRecorded'
  BY DEF DevicesRecorded, Used
<1>2. ASSUME NEW q \in Slots, request'[q].op = "login", User(q)' \notin overlapped'
      PROVE  /\ \A p \in Slots : request'[p].op = "login" /\ User(p)' = User(q)' => p = q
             /\ request'[q].step = "track" => request'[q].seen = devices'[User(q)']
             /\ request'[q].step = "issue" /\ request'[q].client \in Tracked =>
                  request'[q].client \in devices'[User(q)']
  <2>1. User(q)' = User(q) /\ User(q) \notin overlapped /\ request[q].op = "login"
    BY <1>2 DEF User
  <2> QED
    BY <1>2, <2>1 DEF ListKnown, User
<1> QED
  BY <1>1, <1>2 DEF ListKnown

\* Steps that leave accounts alone, issue nothing and let no request advance.
LEMMA AccountsKept ==
  ASSUME AccountsInv, UNCHANGED <<users, overlapped, shut, holder>>, Used' = Used, Live' \subseteq Live,
         \A p \in Slots :
           \/ request'[p].op \notin {"login", "refresh"}
           \/ /\ request'[p].op = request[p].op /\ request'[p].client = request[p].client
              /\ request'[p].step = request[p].step /\ request'[p].seen = request[p].seen
           \/ request'[p].op = "refresh" /\ request'[p].step \in {"sent", "load", "burn"}
  PROVE  AccountsInv'
<1>1. ShutQuietly'
  <2>1. shut' \cap active' = {} /\ registered \subseteq registered'
    BY DEF AccountsInv, ShutQuietly, users
  <2> QED
    BY <2>1, ShutKept DEF AccountsInv
<1>2. ListKnown' /\ DevicesRecorded'
  BY ListsKept DEF AccountsInv, users
<1> QED
  BY <1>1, <1>2 DEF AccountsInv

LEMMA AccountsStep_Answer ==
  ASSUME FormInv, AccountsInv, NEW q \in Slots, Answer(q, NoToken),
         UNCHANGED <<users, overlapped, shut, holder>>, Used' = Used, Live' \subseteq Live
  PROVE  AccountsInv'
<1>1. request'[q].op = "none" /\ \A p \in Slots : p # q => request'[p] = request[p]
  BY Types, IdleIs DEF Answer, FormInv
<1> QED
  BY <1>1, AccountsKept

\* A request of another user's, or one that is no login and ends.
LEMMA AccountsStep_Set ==
  ASSUME FormInv, AccountsInv, NEW q \in Slots, Answer(q, NoToken),
         UNCHANGED <<tokens, devices, overlapped>>, registered \subseteq registered',
         shut' \subseteq shut, shut' \cap active' = {}
  PROVE  AccountsInv'
<1>1. request'[q].op = "none" /\ \A p \in Slots : p # q => request'[p] = request[p]
  BY Types, IdleIs DEF Answer, FormInv
<1>2. UNCHANGED holder /\ Used' = Used /\ Live' = Live
  BY DEF tokens, Used, Live
<1>3. ShutQuietly'
  BY <1>1, <1>2, ShutKept DEF AccountsInv
<1>4. ListKnown' /\ DevicesRecorded'
  BY <1>1, <1>2, ListsKept DEF AccountsInv
<1> QED
  BY <1>3, <1>4 DEF AccountsInv

LEMMA AccountsStep_AuthStep ==
  ASSUME FormInv, FormInv', AccountsInv, NEW q \in Slots, AuthStep(q), UNCHANGED adminVars
  PROVE  AccountsInv'
<1> DEFINE r == request[q]
<1>0. SessionsTypeOK /\ TokenForm /\ RequestForm(q) /\ UNCHANGED shut
  BY DEF FormInv, adminVars
<1>1. ASSUME UNCHANGED <<users, tokens, ledger>>
      PROVE  UNCHANGED <<users, overlapped, shut, holder>> /\ Used' = Used /\ Live' = Live
  BY <1>0, <1>1 DEF tokens, ledger, Used, Live
<1>2. ASSUME NEW step \in {"burn", "load"}, Goto(q, step), r.op = "refresh",
             UNCHANGED <<users, tokens, ledger>>
      PROVE  AccountsInv'
  <2>1. /\ request'[q].op = "refresh" /\ request'[q].step = step
        /\ \A p \in Slots : p # q => request'[p] = request[p]
    BY <1>0, <1>2, Types DEF Goto, Requests
  <2> QED
    BY <1>1, <1>2, <2>1, AccountsKept
<1>3. CASE RegisterCreate(q)
  <2>1. shut \cap active' = {} /\ registered \subseteq registered'
    BY <1>3 DEF RegisterCreate, AccountsInv, ShutQuietly
  <2> QED
    BY <1>0, <1>3, <2>1, AccountsStep_Set DEF RegisterCreate, ledger
<1>4. CASE LoginTrack(q)
  <2> DEFINE u == User(q)
  <2>1. /\ r.op = "login" /\ r.step = "track" /\ r.client \in Clients /\ u \in Users
        /\ UNCHANGED <<registered, active, holder, token, overlapped>> /\ Used' = Used
        /\ Live' = Live
    BY <1>0, <1>4, Types DEF LoginTrack, Runs, RequestForm, tokens, ledger, Used, Live, User
  <2>2. /\ request'[q].op = "login" /\ request'[q].client = r.client /\ request'[q].step = "issue"
        /\ \A p \in Slots : p # q => request'[p] = request[p]
    BY <1>0, <1>4, <2>1, Types DEF LoginTrack, Requests
  <2>3. /\ devices'[u] = r.seen \cup {r.client}
        /\ \A v \in Users : v # u => devices'[v] = devices[v]
    BY <1>0, <1>4, <2>1 DEF LoginTrack, SessionsTypeOK
  <2>4. u \notin overlapped => r.seen = devices[u]
    BY <2>1 DEF AccountsInv, ListKnown
  <2>5. ShutQuietly'
    <3>1. u \notin shut
      BY <2>1 DEF AccountsInv, ShutQuietly, Quiet
    <3>2. User(q)' = u
      BY <2>2 DEF User
    <3>3. shut' \cap active' = {}
      BY <1>0, <2>1 DEF AccountsInv, ShutQuietly
    <3> QED
      BY <1>0, <2>1, <2>2, <3>1, <3>2, <3>3, ShutKept DEF AccountsInv
  <2>6. \A p \in Slots : request[p].op = "login" => User(p) \in Users /\ request[p].client \in Clients
    BY Types DEF FormInv, RequestForm, User
  <2>7. \A p \in Slots : User(p)' = User(p)
    BY <2>2 DEF User
  <2>8. ListKnown'
    <3>1. ASSUME NEW p \in Slots, request'[p].op = "login", User(p)' \notin overlapped'
          PROVE  /\ \A o \in Slots : request'[o].op = "login" /\ User(o)' = User(p)' => p = o
                 /\ request'[p].step = "track" => request'[p].seen = devices'[User(p)']
                 /\ request'[p].step = "issue" /\ request'[p].client \in Tracked =>
                      request'[p].client \in devices'[User(p)']
      <4>1. request[p].op = "login" /\ User(p) \notin overlapped /\ User(p) \in Users
        BY <2>1, <2>2, <2>6, <2>7, <3>1
      <4>2. \A o \in Slots : request'[o].op = "login" /\ User(o)' = User(p)' => p = o
        BY <2>1, <2>2, <2>7, <4>1 DEF AccountsInv, ListKnown
      <4>3. CASE p = q
        BY <2>2, <2>3, <2>7, <4>2, <4>3
      <4>4. CASE p # q
        <5>1. User(p) # u
          BY <2>1, <4>1, <4>4 DEF AccountsInv, ListKnown
        <5> QED
          BY <2>2, <2>3, <2>7, <4>1, <4>2, <4>4, <5>1 DEF AccountsInv, ListKnown
      <4> QED
        BY <4>3, <4>4
    <3> QED
      BY <3>1 DEF ListKnown
  <2>9. DevicesRecorded'
    <3> SUFFICES ASSUME NEW t \in Tokens, token[t] # "unused", holder[t] \in Tracked,
                        UserOf[holder[t]] \notin overlapped
                 PROVE  holder[t] \in devices'[UserOf[holder[t]]]
      BY <2>1 DEF DevicesRecorded
    <3>1. holder[t] \in Clients /\ UserOf[holder[t]] \in Users
      BY <1>0, Types DEF TokenForm, Used
    <3>2. holder[t] \in devices[UserOf[holder[t]]]
      BY DEF AccountsInv, DevicesRecorded
    <3> QED
      BY <2>3, <2>4, <3>1, <3>2
  <2> QED
    BY <2>5, <2>8, <2>9 DEF AccountsInv
<1>5. CASE IssuePair(q)
  <2>1. PICK t \in Unused :
          /\ token' = [token EXCEPT ![t] = "live"]
          /\ holder' = [holder EXCEPT ![t] = r.client]
          /\ Answer(q, t)
    BY <1>5 DEF IssuePair
  <2>2. /\ r.client \in Clients /\ t \in Tokens /\ t \notin Used
        /\ (r.op = "refresh" => r.token \in Used /\ holder[r.token] = r.client)
        /\ r.op \in {"login", "refresh"} /\ r.step = "issue"
        /\ UNCHANGED <<registered, active, devices, overlapped>>
    BY <1>0, <1>5 DEF IssuePair, RequestForm, Holding, Unused, Used, users, ledger
  <2>3. request'[q].op = "none" /\ \A p \in Slots : p # q => request'[p] = request[p]
    BY <1>0, <2>1, Types, IdleIs DEF Answer
  <2>4. /\ \A s \in Used : holder'[s] = holder[s] /\ token'[s] = token[s]
        /\ holder'[t] = r.client /\ Used' = Used \cup {t}
        /\ Live \subseteq Used /\ Live' = Live \cup {t}
    BY <1>0, <2>1, <2>2, Types DEF SessionsTypeOK, Used, Live
  <2>5. ShutQuietly'
    <3>1. User(q) \notin shut
      BY <2>2 DEF AccountsInv, ShutQuietly, Quiet
    <3>2. shut' \cap active' = {}
      BY <1>0, <2>2 DEF AccountsInv, ShutQuietly
    <3>3. ASSUME NEW s \in Live'
          PROVE  (s \in Live /\ holder'[s] = holder[s]) \/ UserOf[holder'[s]] \notin shut'
      BY <1>0, <2>4, <3>1, <3>3 DEF User
    <3> QED
      BY <1>0, <2>2, <2>3, <3>2, <3>3, ShutKept DEF AccountsInv
  <2>6. ListKnown'
    BY <2>2, <2>3 DEF AccountsInv, ListKnown, User
  <2>7. DevicesRecorded'
    <3> SUFFICES ASSUME NEW s \in Used', holder'[s] \in Tracked, UserOf[holder'[s]] \notin overlapped
                 PROVE  holder'[s] \in devices[UserOf[holder'[s]]]
      BY <2>2 DEF DevicesRecorded, Used
    <3>1. CASE s \in Used
      BY <2>4, <3>1 DEF AccountsInv, DevicesRecorded, Used
    <3>2. CASE s = t /\ r.op = "login"
      BY <2>2, <2>4, <3>2 DEF AccountsInv, ListKnown, User
    <3>3. CASE s = t /\ r.op = "refresh"
      BY <2>2, <2>4, <3>3 DEF AccountsInv, DevicesRecorded, Used
    <3> QED
      BY <2>2, <2>4, <3>1, <3>2, <3>3
  <2> QED
    BY <2>5, <2>6, <2>7 DEF AccountsInv
<1>6. CASE RefreshFind(q)
  <2>1. r.op = "refresh" /\ UNCHANGED <<users, tokens, ledger>>
    BY <1>6 DEF RefreshFind, Runs
  <2> QED
    BY <1>1, <1>2, <1>6, <2>1, AccountsStep_Answer DEF RefreshFind
<1>7. CASE RefreshBurn(q) \/ LogoutRevoke(q)
  <2>1. UNCHANGED <<users, overlapped, shut, holder>> /\ Used' = Used /\ Live' \subseteq Live
    BY <1>0, <1>7, RevokeIs DEF RefreshBurn, LogoutRevoke
  <2> QED
    BY <1>7, <2>1, AccountsStep_Answer DEF RefreshBurn, LogoutRevoke
<1>8. CASE RefreshLoadUser(q)
  <2>1. r.op = "refresh" /\ UNCHANGED <<users, tokens, ledger>>
    BY <1>8 DEF RefreshLoadUser, Runs
  <2>2. CASE Answer(q, NoToken)
    BY <1>1, <2>1, <2>2, AccountsStep_Answer
  <2>3. CASE User(q) \in active
             /\ request' = [request EXCEPT ![q].step = "rotate", ![q].scope = ScopeOf(User(q))]
    <3>1. /\ request'[q].op = "refresh" /\ request'[q].client = r.client
          /\ \A p \in Slots : p # q => request'[p] = request[p]
      BY <1>0, <2>1, <2>3, Types DEF Requests
    <3>2. User(q)' \notin shut
      BY <2>3, <3>1 DEF User, AccountsInv, ShutQuietly
    <3>3. shut' \cap active' = {} /\ registered \subseteq registered'
      BY <1>0, <2>1 DEF AccountsInv, ShutQuietly, users
    <3>4. ShutQuietly'
      BY <1>0, <1>1, <2>1, <3>1, <3>2, <3>3, ShutKept DEF AccountsInv
    <3>5. ListKnown' /\ DevicesRecorded'
      BY <1>1, <2>1, <3>1, ListsKept DEF AccountsInv, users
    <3> QED
      BY <3>4, <3>5 DEF AccountsInv
  <2> QED
    BY <1>8, <2>2, <2>3 DEF RefreshLoadUser
<1>9. CASE RefreshRotate(q)
  <2>1. /\ r.op = "refresh" /\ r.step = "rotate" /\ Goto(q, "issue") /\ Revoke({r.token})
        /\ UNCHANGED <<users, overlapped>>
    BY <1>9 DEF RefreshRotate, Runs, ledger
  <2>2. UNCHANGED holder /\ Used' = Used /\ Live' \subseteq Live
    BY <1>0, <2>1, RevokeIs
  <2>3. /\ request'[q].op = "refresh" /\ request'[q].client = r.client
        /\ \A p \in Slots : p # q => request'[p] = request[p]
    BY <1>0, <2>1, Types DEF Goto, Requests
  <2>4. User(q)' \notin shut
    BY <2>1, <2>3 DEF User, AccountsInv, ShutQuietly, Quiet
  <2>5. shut' \cap active' = {} /\ registered \subseteq registered'
    BY <1>0, <2>1 DEF AccountsInv, ShutQuietly, users
  <2>6. ShutQuietly'
    BY <1>0, <2>1, <2>2, <2>3, <2>4, <2>5, ShutKept DEF AccountsInv
  <2>7. ListKnown' /\ DevicesRecorded'
    BY <2>1, <2>2, <2>3, ListsKept DEF AccountsInv, users
  <2> QED
    BY <2>6, <2>7 DEF AccountsInv
<1> QED
  BY <1>3, <1>4, <1>5, <1>6, <1>7, <1>8, <1>9 DEF AuthStep

LEMMA AccountsStep_ClientStep ==
  ASSUME FormInv, FormInv', AccountsInv, NEW q \in Slots, NEW c \in Clients, ClientStep(q, c),
         UNCHANGED adminVars
  PROVE  AccountsInv'
<1>0. SessionsTypeOK /\ UNCHANGED shut
  BY DEF FormInv, adminVars
<1>1. UNCHANGED <<users, holder>> /\ Used' = Used /\ Live' = Live
  BY DEF ClientStep, RegisterCheck, LoginFind, RefreshSend, LogoutSend, tokens, Used, Live
<1>2. CASE RegisterCheck(q, c) \/ RefreshSend(q, c) \/ LogoutSend(q, c)
  <2>1. ASSUME NEW op \in {"register", "refresh", "logout"}, NEW step \in {"checked", "sent"},
               Start(q, Call(op, c, step)), op = "refresh" => step = "sent"
        PROVE  /\ request'[q].op \notin {"login", "refresh"}
                  \/ (request'[q].op = "refresh" /\ request'[q].step = "sent")
               /\ \A p \in Slots : p # q => request'[p] = request[p]
    <3>1. request'[q] = Call(op, c, step) /\ \A p \in Slots : p # q => request'[p] = request[p]
      BY <1>0, <2>1, Types DEF Start
    <3> QED
      BY <2>1, <3>1 DEF Call, Idle
  <2>2. UNCHANGED overlapped
    BY <1>2 DEF RegisterCheck, RefreshSend, LogoutSend, ledger
  <2>3. /\ request'[q].op \notin {"login", "refresh"}
           \/ (request'[q].op = "refresh" /\ request'[q].step = "sent")
        /\ \A p \in Slots : p # q => request'[p] = request[p]
    BY <1>2, <2>1 DEF RegisterCheck, RefreshSend, LogoutSend
  <2> QED
    BY <1>0, <1>1, <2>2, <2>3, AccountsKept
<1>3. CASE LoginFind(q, c)
  <2> DEFINE u == UserOf[c]
  <2>1. /\ request'[q].op = "login" /\ request'[q].client = c /\ ~Busy(q)
        /\ request'[q].step = IF c \in Tracked THEN "track" ELSE "issue"
        /\ request'[q].seen = IF c \in Tracked THEN devices[u] ELSE {}
        /\ \A p \in Slots : p # q => request'[p] = request[p]
    <3> DEFINE step == IF c \in Tracked THEN "track" ELSE "issue"
               r == [Call("login", c, step) EXCEPT
                      !.scope = ScopeOf(u), !.seen = IF c \in Tracked THEN devices[u] ELSE {}]
    <3>1. Start(q, r)
      BY <1>3 DEF LoginFind
    <3>2. /\ request'[q] = r /\ ~Busy(q)
          /\ \A p \in Slots : p # q => request'[p] = request[p]
      BY <1>0, <3>1, Types DEF Start
    <3> HIDE DEF step
    <3>3. r.op = "login" /\ r.client = c /\ r.step = step
          /\ r.seen = IF c \in Tracked THEN devices[u] ELSE {}
      BY DEF Call, Idle
    <3> HIDE DEF r
    <3> QED
      BY <3>2, <3>3 DEF step
  <2>2. /\ u \in active
        /\ overlapped' = IF LoggingIn(u) = {} THEN overlapped ELSE overlapped \cup {u}
    BY <1>3 DEF LoginFind
  <2>3. \A p \in Slots : p # q => User(p)' = User(p)
    BY <2>1 DEF User
  <2>4. User(q)' = u
    BY <2>1 DEF User
  <2>5. ShutQuietly'
    <3>1. shut' \cap active' = {} /\ u \notin shut' /\ registered \subseteq registered'
      BY <1>0, <1>1, <2>2 DEF AccountsInv, ShutQuietly, users
    <3> QED
      BY <1>0, <1>1, <2>1, <2>4, <3>1, ShutKept DEF AccountsInv
  <2>6. ListKnown'
    <3>1. ASSUME NEW p \in Slots, p # q, request'[p].op = "login", User(p)' = u
          PROVE  u \in overlapped'
      BY <2>1, <2>2, <2>3, <3>1 DEF LoggingIn
    <3>2. ASSUME NEW p \in Slots, request'[p].op = "login", User(p)' \notin overlapped'
          PROVE  /\ \A o \in Slots : request'[o].op = "login" /\ User(o)' = User(p)' => o = p
                 /\ request'[p].step = "track" => request'[p].seen = devices[User(p)']
                 /\ request'[p].step = "issue" /\ request'[p].client \in Tracked =>
                      request'[p].client \in devices[User(p)']
      <4>1. CASE p = q
        BY <2>1, <2>4, <3>1, <3>2, <4>1
      <4>2. CASE p # q
        <5>1. User(p)' # u /\ User(p) \notin overlapped /\ User(p)' = User(p)
          BY <2>2, <2>3, <3>1, <3>2, <4>2
        <5> QED
          BY <2>1, <2>3, <2>4, <3>2, <4>2, <5>1 DEF AccountsInv, ListKnown
      <4> QED
        BY <4>1, <4>2
    <3> QED
      BY <1>1, <3>2 DEF ListKnown, users
  <2>7. DevicesRecorded'
    BY <1>1, <2>2 DEF AccountsInv, DevicesRecorded, Used, users
  <2> QED
    BY <2>5, <2>6, <2>7 DEF AccountsInv
<1> QED
  BY <1>2, <1>3 DEF ClientStep

LEMMA AccountsStep_Others ==
  ASSUME FormInv, AccountsInv,
         \/ /\ UNCHANGED adminVars
            /\ \/ \E q \in Slots : GiveUp(q) \/ LoseRequest(q)
               \/ \E c \in Clients : Kill(c)
               \/ \E t \in Tokens : Expire(t)
         \/ \E c \in Clients : RetentionCleanup(c)
  PROVE  AccountsInv'
<1>0. SessionsTypeOK
  BY DEF FormInv
<1>1. UNCHANGED <<users, overlapped, shut, holder>>
  BY DEF GiveUp, LoseRequest, Kill, Expire, RetentionCleanup, tokens, ledger, adminVars
<1>2. ASSUME NEW t \in Tokens, token'[t] # token[t]
      PROVE  token'[t] = "gone" /\ token[t] # "unused"
  <2>1. UNCHANGED token \/ (\E s \in Tokens : Expire(s)) \/ \E c \in Clients : RetentionCleanup(c)
    BY DEF GiveUp, LoseRequest, Kill, tokens
  <2>2. CASE \E s \in Tokens : Expire(s)
    BY <1>0, <1>2, <2>2, Types DEF Expire
  <2>3. CASE \E c \in Clients : RetentionCleanup(c)
    BY <1>2, <2>3 DEF RetentionCleanup
  <2> QED
    BY <1>2, <2>1, <2>2, <2>3
<1>3. Used' = Used /\ Live' \subseteq Live
  <2>1. \A t \in Tokens : /\ token'[t] # "unused" <=> token[t] # "unused"
                          /\ token'[t] = "live" => token[t] = "live"
    BY <1>2
  <2> QED
    BY <2>1 DEF Used, Live
<1>4. ASSUME NEW p \in Slots
      PROVE  \/ request'[p].op \notin {"login", "refresh"}
             \/ /\ request'[p].op = request[p].op /\ request'[p].client = request[p].client
                /\ request'[p].step = request[p].step /\ request'[p].seen = request[p].seen
  <2>1. ASSUME NEW q \in Slots, GiveUp(q)
        PROVE  /\ request'[p].op = request[p].op /\ request'[p].client = request[p].client
               /\ request'[p].step = request[p].step /\ request'[p].seen = request[p].seen
    BY <1>0, <2>1, Types DEF GiveUp, Requests
  <2>2. ASSUME NEW q \in Slots, LoseRequest(q)
        PROVE  request'[p] = request[p] \/ request'[p].op = "none"
    BY <1>0, <2>2, Types, IdleIs DEF LoseRequest
  <2>3. ASSUME NEW c \in Clients, Kill(c)
        PROVE  /\ request'[p].op = request[p].op /\ request'[p].client = request[p].client
               /\ request'[p].step = request[p].step /\ request'[p].seen = request[p].seen
    BY <1>0, <2>3, KillIs
  <2>4. CASE UNCHANGED request
    BY <2>4
  <2> QED
    BY <2>1, <2>2, <2>3, <2>4 DEF Expire, RetentionCleanup
<1> QED
  BY <1>1, <1>3, <1>4, AccountsKept

LEMMA AccountsStep_Admin ==
  ASSUME FormInv, AccountsInv, NEW q \in Slots,
         \/ AdminStep(q)
         \/ \E c \in Clients, op \in AdminOps, u \in Users : AdminAccept(q, c, op, u)
  PROVE  AccountsInv'
<1> DEFINE r == request[q]
<1>0. SessionsTypeOK /\ RequestForm(q)
  BY DEF FormInv
<1>1. ASSUME NEW c \in Clients, NEW op \in AdminOps, NEW u \in Users, AdminAccept(q, c, op, u)
      PROVE  AccountsInv'
  <2> DEFINE n == [Idle EXCEPT !.op = op, !.client = c, !.step = "accepted", !.target = u]
  <2>1. n.op \notin {"login", "refresh"}
    BY DEF Idle, AdminOps
  <2>2. Start(q, n) /\ UNCHANGED <<users, overlapped, shut, holder>> /\ Used' = Used /\ Live' = Live
    BY <1>1 DEF AdminAccept, tokens, ledger, Used, Live
  <2> HIDE DEF n
  <2>3. request'[q] = n /\ \A p \in Slots : p # q => request'[p] = request[p]
    BY <1>0, <2>2, Types DEF Start
  <2> QED
    BY <2>1, <2>2, <2>3, AccountsKept
<1>2. CASE SetActive(q)
  <2>1. shut' \subseteq shut /\ shut' \cap active' = {}
    BY <1>2 DEF SetActive, AccountsInv, ShutQuietly
  <2> QED
    BY <1>2, <2>1, AccountsStep_Set DEF SetActive, ledger
<1>3. CASE SetRole(q)
  <2>1. shut' \cap active' = {}
    BY <1>3 DEF SetRole, AccountsInv, ShutQuietly
  <2> QED
    BY <1>3, <2>1, AccountsStep_Set DEF SetRole, ledger
<1>4. CASE DeleteUserSessions(q)
  <2>1. r.op = "delete" /\ Goto(q, "revoked") /\ Revoke(TokensOf(r.target))
        /\ UNCHANGED <<users, overlapped, shut>>
    BY <1>4 DEF DeleteUserSessions, Runs, adminVars
  <2>2. UNCHANGED holder /\ Used' = Used /\ Live' \subseteq Live
    BY <1>0, <2>1, RevokeIs
  <2>3. request'[q].op = "delete" /\ \A p \in Slots : p # q => request'[p] = request[p]
    BY <1>0, <2>1, Types DEF Goto, Requests
  <2> QED
    BY <2>1, <2>2, <2>3, AccountsKept
<1>5. CASE DeleteUserAccount(q)
  <2> DEFINE u == r.target
  <2>1. /\ r.op = "delete" /\ Answer(q, NoToken) /\ active' = active \ {u}
        /\ shut' = IF Quiet(u) THEN shut \cup {u} ELSE shut
        /\ UNCHANGED <<registered, devices, token, holder, overlapped>>
    BY <1>5 DEF DeleteUserAccount, Runs, tokens, ledger
  <2>2. u \in registered /\ Used' = Used /\ Live' = Live
    BY <1>0, <2>1 DEF RequestForm, AdminOps, Used, Live
  <2>3. request'[q].op = "none" /\ \A p \in Slots : p # q => request'[p] = request[p]
    BY <1>0, <2>1, Types, IdleIs DEF Answer
  <2>4. ListKnown' /\ DevicesRecorded'
    BY <2>1, <2>2, <2>3, ListsKept DEF AccountsInv
  <2>5. ASSUME NEW v \in shut' PROVE v \in registered' \ active' /\ Quiet(v)'
    <3>1. Quiet(v) /\ v \in registered' \ active'
      BY <2>1, <2>2, <2>5 DEF AccountsInv, ShutQuietly
    <3>2. TokensOf(v)' = TokensOf(v)
      BY <2>1 DEF TokensOf
    <3>3. \A p \in Slots : request'[p].op \in {"login", "refresh"} =>
            request'[p] = request[p] /\ User(p)' = User(p)
      BY <2>3 DEF User
    <3> QED
      BY <2>2, <3>1, <3>2, <3>3 DEF Quiet
  <2> QED
    BY <2>4, <2>5 DEF AccountsInv, ShutQuietly
<1> QED
  BY <1>1, <1>2, <1>3, <1>4, <1>5 DEF AdminStep

LEMMA AccountsStep == FormInv /\ FormInv' /\ AccountsInv /\ [Next]_systemVars => AccountsInv'
<1> SUFFICES ASSUME FormInv, FormInv', AccountsInv, [Next]_systemVars PROVE AccountsInv'
  OBVIOUS
<1>1. CASE UNCHANGED systemVars
  <2>1. UNCHANGED <<users, overlapped, shut, holder, request>> /\ Used' = Used /\ Live' = Live
    BY <1>1 DEF systemVars, sessionVars, adminVars, tokens, ledger, Used, Live
  <2> QED
    BY <2>1, AccountsKept
<1>2. CASE SessionsNext /\ UNCHANGED adminVars
  BY <1>2, AccountsStep_AuthStep, AccountsStep_ClientStep, AccountsStep_Others DEF SessionsNext
<1>3. CASE \E q \in Slots, c \in Clients, op \in AdminOps, u \in Users : AdminAccept(q, c, op, u)
  BY <1>3, AccountsStep_Admin
<1>4. CASE \E q \in Slots : AdminStep(q)
  BY <1>4, AccountsStep_Admin
<1>5. CASE \E c \in Clients : RetentionCleanup(c)
  BY <1>5, AccountsStep_Others
<1> QED
  BY <1>1, <1>2, <1>3, <1>4, <1>5 DEF Next

--------------------------------------------------------------------------------
(* No admin leaves by their own hand. *)

LEMMA AdminStays == FormInv /\ AnAdminRemains /\ [Next]_systemVars => AnAdminRemains'
<1> SUFFICES ASSUME FormInv, AnAdminRemains, [Next]_systemVars PROVE AnAdminRemains'
  OBVIOUS
<1>1. ASSUME UNCHANGED <<admins, staleRole>> PROVE AnAdminRemains'
  BY <1>1 DEF AnAdminRemains
<1>2. CASE UNCHANGED systemVars
  BY <1>1, <1>2 DEF systemVars, sessionVars, users, adminVars
<1>3. CASE SessionsNext /\ UNCHANGED adminVars
  BY <1>1, <1>3
     DEF SessionsNext, AuthStep, ClientStep, RegisterCreate, LoginTrack, IssuePair, RefreshFind,
         RefreshBurn, RefreshLoadUser, RefreshRotate, LogoutRevoke, RegisterCheck, LoginFind,
         RefreshSend, LogoutSend, GiveUp, LoseRequest, Kill, Expire, users, adminVars
<1>4. CASE \/ \E c \in Clients : RetentionCleanup(c)
           \/ \E q \in Slots, c \in Clients, op \in AdminOps, u \in Users : AdminAccept(q, c, op, u)
  BY <1>1, <1>4 DEF RetentionCleanup, AdminAccept, users
<1>5. ASSUME NEW q \in Slots, SetRole(q) PROVE AnAdminRemains'
  <2> DEFINE u == request[q].target
  <2>1. /\ request[q].op \in {"promote", "demote"} /\ u # User(q)
        /\ admins' = IF request[q].op = "promote" THEN admins \cup {u} ELSE admins \ {u}
        /\ staleRole' = (staleRole \/ (request[q].op = "demote" /\ User(q) \notin admins))
    BY <1>5 DEF SetRole, FormInv, RequestForm
  <2>2. CASE request[q].op = "promote"
    BY <2>1, <2>2 DEF AnAdminRemains
  <2>3. CASE request[q].op = "demote" /\ User(q) \in admins
    <3>1. User(q) \in admins'
      BY <2>1, <2>3
    <3> QED
      BY <3>1 DEF AnAdminRemains
  <2>4. CASE request[q].op = "demote" /\ User(q) \notin admins
    <3>1. staleRole'
      BY <2>1, <2>4
    <3> QED
      BY <3>1 DEF AnAdminRemains
  <2> QED
    BY <2>1, <2>2, <2>3, <2>4
<1>6. ASSUME NEW q \in Slots, SetActive(q) \/ DeleteUserSessions(q) \/ DeleteUserAccount(q)
      PROVE  AnAdminRemains'
  BY <1>1, <1>6 DEF SetActive, DeleteUserSessions, DeleteUserAccount, users, adminVars
<1> QED
  BY <1>2, <1>3, <1>4, <1>5, <1>6 DEF Next, AdminStep

--------------------------------------------------------------------------------
(* What holds of every account, client and session. *)

\* A session has at most one token that can be redeemed, however rotations, give-ups
\* and lost answers of any number of clients interleave, unless its app was killed or
\* logged out beside its own refresh.
THEOREM OneLiveToken == Spec => []OneLivePerSession
<1>1. CalmInv => OneLivePerSession
  BY DEF CalmInv
<1> QED
  BY <1>1, CalmAlways, PTL

\* After an answered logout no token of the session can be redeemed, unless a refresh
\* of the same app ran beside the logout.
THEOREM LogoutIsFinal == Spec => []LogoutEndsSession
<1>1. CalmInv => LogoutEndsSession
  BY DEF CalmInv
<1> QED
  BY <1>1, CalmAlways, PTL

\* The token an app has stored stays redeemable until its own refresh or logout:
\* nothing another device does signs it out, short of an alarm or of the account's
\* deletion.
THEOREM ClientStaysSignedIn == Spec => []StaysSignedIn
<1>1. CalmInv => StaysSignedIn
  BY DEF CalmInv
<1> QED
  BY <1>1, CalmAlways, PTL

\* A revoked token is presented only by an app that was killed or logged out beside
\* its own refresh, or after an alarm or a deletion: rotation alone, whatever answers
\* are lost, never trips the reuse detection.
THEOREM AlarmIsTrue == Spec => []NoFalseAlarm
<1>1. CalmInv => NoFalseAlarm
  BY DEF CalmInv
<1> QED
  BY <1>1, CalmAlways, PTL

\* No client starts a refresh or logout while it waits for one, or is killed then.
OneByOne ==
  /\ \A q \in Slots, c \in Clients :
       RefreshSend(q, c) \/ LogoutSend(q, c) => AwaitedBy(c, Holding) = {}
  /\ \A c \in Clients : Kill(c) => AwaitedBy(c, Holding) = {}

\* What such a client no longer waits for is about a session it has given up.
LEMMA NeverBeside ==
  ASSUME CalmInv, trouble = {}, NEW c \in Clients, stored[c] # NoToken,
         AwaitedBy(c, Holding) = {}
  PROVE  ~Beside(c)
<1> SUFFICES ASSUME NEW p \in Slots, request[p].op \in Holding, request[p].client = c,
                    session[request[p].token] = session[stored[c]]
             PROVE  FALSE
  BY DEF Beside, Holding
<1>1. ~request[p].awaited
  BY DEF AwaitedBy
<1> QED
  BY <1>1 DEF CalmInv, InStep, Calm, SessionOf

LEMMA StayingCalm ==
  FormInv /\ CalmInv /\ trouble = {} /\ [Next]_systemVars /\ [OneByOne]_systemVars
    => (trouble = {})'
<1> SUFFICES ASSUME FormInv, CalmInv, trouble = {}, [Next]_systemVars, [OneByOne]_systemVars
             PROVE  trouble' = {}
  OBVIOUS
<1>1. CASE UNCHANGED systemVars
  BY <1>1 DEF systemVars, sessionVars, ledger
<1>2. CASE OneByOne /\ Next
  <2>1. ASSUME NEW q \in Slots, NEW c \in Clients, ClientStep(q, c) PROVE trouble' = {}
    <3>1. CASE RefreshSend(q, c) \/ LogoutSend(q, c)
      <4>1. stored[c] # NoToken /\ AwaitedBy(c, Holding) = {}
        BY <1>2, <3>1 DEF OneByOne, RefreshSend, LogoutSend
      <4>2. ~Beside(c)
        BY <4>1, NeverBeside
      <4> QED
        BY <3>1, <4>2 DEF RefreshSend, LogoutSend
    <3> QED
      BY <2>1, <3>1 DEF ClientStep, RegisterCheck, LoginFind, ledger
  <2>2. ASSUME NEW c \in Clients, Kill(c) PROVE trouble' = {}
    BY <1>2, <2>2 DEF OneByOne, Kill, Holding
  <2>3. ASSUME NEW q \in Slots, AuthStep(q) \/ GiveUp(q) \/ LoseRequest(q) PROVE trouble' = {}
    BY <2>3 DEF AuthStep, GiveUp, LoseRequest, RegisterCreate, LoginTrack, IssuePair, RefreshFind,
       RefreshBurn, RefreshLoadUser, RefreshRotate, LogoutRevoke, ledger
  <2>4. ASSUME NEW q \in Slots, AdminStep(q) PROVE trouble' = {}
    BY <2>4 DEF AdminStep, SetActive, SetRole, DeleteUserSessions, DeleteUserAccount, ledger
  <2>5. CASE \E q \in Slots, c \in Clients, op \in AdminOps, u \in Users : AdminAccept(q, c, op, u)
    BY <2>5 DEF AdminAccept, ledger
  <2>6. CASE (\E t \in Tokens : Expire(t)) \/ (\E c \in Clients : RetentionCleanup(c))
    BY <2>6 DEF Expire, RetentionCleanup, ledger
  <2> QED
    BY <1>2, <2>1, <2>2, <2>3, <2>4, <2>5, <2>6 DEF Next, SessionsNext
<1> QED
  BY <1>1, <1>2

\* What the comment in the refresh handler says, that a token which was redeemed is
\* never redeemed a second time, needs no lock in the server as long as no client
\* has two of these requests in flight or dies in one: whatever requests are given up,
\* lost or refused, and whatever the administrators do.
THEOREM RedeemedOnceOneByOne == Spec /\ [][OneByOne]_systemVars => []RedeemedOnce
<1>1. Init => trouble = {}
  BY DEF Init, SessionsInit
<1>2. Spec /\ [][OneByOne]_systemVars => [](trouble = {})
  BY <1>1, CalmAlways, StayingCalm, PTL DEF Spec
<1>3. CalmInv /\ FormInv /\ trouble = {} => RedeemedOnce
  BY DEF CalmInv, OneLivePerSession, RedeemedOnce
<1> QED
  BY <1>2, <1>3, CalmAlways, PTL

LEMMA AccountsAlways == Spec => []AccountsInv
BY InitForm, StepForm, InitAccounts, AccountsStep, PTL DEF Spec

\* A deleted user has no session and gets none from a login or a refresh that began
\* before, until somebody enables the account again; provided nobody was past the
\* check of is_active at the time.
THEOREM DeletedStaysOut == Spec => []DeletedStayOut
<1>1. AccountsInv => DeletedStayOut
  BY DEF AccountsInv, ShutQuietly, DeletedStayOut, Quiet
<1> QED
  BY <1>1, AccountsAlways, PTL

\* Every device whose login went through is in its user's list, unless two logins of
\* that user overlapped.
THEOREM DevicesListed == Spec => []DevicesRecorded
<1>1. AccountsInv => DevicesRecorded
  BY DEF AccountsInv
<1> QED
  BY <1>1, AccountsAlways, PTL

\* Where the script made an admin, some user stays one, however many admins demote
\* and promote each other, unless one demoted another after having been demoted.
THEOREM AdminsRemain == Founders # {} /\ Spec => []AnAdminRemains
<1>1. Founders # {} /\ Init => AnAdminRemains
  BY DEF Init, SessionsInit, AnAdminRemains
<1> QED
  BY <1>1, InitForm, StepForm, AdminStays, PTL DEF Spec

--------------------------------------------------------------------------------
(***************************************************************************)
(* The sessions implement SessionContract.                                 *)
(***************************************************************************)

\* A session's first token belongs to it.
Rooted == \A t \in Used : session[session[t]] = session[t]

Inside == {"load", "rotate", "issue"}

\* A refresh is let in with a live token, and keeps presenting it.
Admitted(q) ==
  request'[q].op = "refresh" /\ request'[q].step \in Inside =>
    /\ request[q].op = "refresh" /\ request'[q].token = request[q].token
    /\ request[q].step \in Inside \/ token'[request[q].token] = "live"

\* No token is issued.
BringsNone ==
  /\ Used' = Used /\ session' = session /\ Live' \subseteq Live
  /\ \A q \in Slots : Admitted(q)

LEMMA LifeIs ==
  \A s \in Tokens :
    /\ LifeOf(s) \in {"none", "open", "renewing", "over"}
    /\ LifeOf(s) = "none" <=> ~(s \in Used /\ session[s] = s)
    /\ LifeOf(s) = "open" <=> s \in Used /\ session[s] = s /\ \E t \in Live : session[t] = s
    /\ LifeOf(s) = "renewing" <=>
         /\ s \in Used /\ session[s] = s /\ ~\E t \in Live : session[t] = s
         /\ \E q \in Slots : LetIn(q, s)
BY DEF LifeOf, Used

LEMMA LifeIsAfter ==
  \A s \in Tokens :
    /\ LifeOf(s)' \in {"none", "open", "renewing", "over"}
    /\ LifeOf(s)' = "none" <=> ~(s \in Used' /\ session'[s] = s)
    /\ LifeOf(s)' = "open" <=> s \in Used' /\ session'[s] = s /\ \E t \in Live' : session'[t] = s
    /\ LifeOf(s)' = "renewing" <=>
         /\ s \in Used' /\ session'[s] = s /\ ~\E t \in Live' : session'[t] = s
         /\ \E q \in Slots : LetIn(q, s)'
BY DEF LifeOf, Used

\* Then sessions only close.
LEMMA ClosesOnly ==
  ASSUME FormInv, BringsNone
  PROVE  Lifecycle!Close
<1>1. ASSUME NEW s \in Tokens, LifeOf(s)' # LifeOf(s)
      PROVE  \/ LifeOf(s) = "open" /\ LifeOf(s)' \in {"renewing", "over"}
             \/ LifeOf(s) = "renewing" /\ LifeOf(s)' = "over"
  <2>1. LifeOf(s)' = "none" <=> LifeOf(s) = "none"
    BY LifeIs, LifeIsAfter DEF BringsNone
  <2>2. LifeOf(s)' = "open" => LifeOf(s) = "open"
    BY LifeIs, LifeIsAfter DEF BringsNone
  <2>3. LifeOf(s)' = "renewing" => LifeOf(s) \in {"open", "renewing"}
    <3> SUFFICES ASSUME LifeOf(s)' = "renewing" PROVE LifeOf(s) \in {"open", "renewing"}
      OBVIOUS
    <3>1. PICK q \in Slots : LetIn(q, s)'
      BY LifeIsAfter
    <3>2. request[q].op = "refresh" /\ request'[q].token = request[q].token
          /\ (request[q].step \in Inside \/ token'[request[q].token] = "live")
      BY <3>1 DEF LetIn, BringsNone, Admitted, Inside
    <3>3. session[request[q].token] = s
      BY <3>1, <3>2 DEF LetIn, BringsNone
    <3>4. request[q].token \in Tokens
      BY <3>2 DEF FormInv, RequestForm, Holding, Used
    <3>5. token'[request[q].token] # "live"
      BY <3>3, <3>4, LifeIsAfter DEF BringsNone, Live
    <3>6. LetIn(q, s)
      BY <3>2, <3>3, <3>5 DEF LetIn, Inside
    <3>7. s \in Used /\ session[s] = s
      BY LifeIsAfter DEF BringsNone
    <3> QED
      BY <3>6, <3>7, LifeIs
  <2> QED
    BY <1>1, <2>1, <2>2, <2>3, LifeIs, LifeIsAfter
<1>2. \A s \in Tokens : LifeOf(s)' \in Lifecycle!Lives
  BY LifeIsAfter DEF Lifecycle!Lives
<1> QED
  BY <1>1, <1>2 DEF Lifecycle!Close

\* A token is issued.
LEMMA IssueLives ==
  ASSUME FormInv, Rooted, NEW q \in Slots, IssuePair(q)
  PROVE  /\ \E s \in Tokens : Lifecycle!Begin(s) \/ Lifecycle!Renew(s)
              \/ [x \in Tokens |-> LifeOf(x)]' = [x \in Tokens |-> LifeOf(x)]
         /\ Rooted'
<1> DEFINE r == request[q]
<1>0. SessionsTypeOK /\ TokenForm /\ RequestForm(q)
  BY DEF FormInv
<1>1. PICK t \in Unused :
        /\ token' = [token EXCEPT ![t] = "live"]
        /\ session' = [session EXCEPT ![t] = IF r.op = "login" THEN t ELSE session[r.token]]
        /\ Answer(q, t)
  BY DEF IssuePair
<1>2. t \in Tokens /\ t \notin Used /\ (r.op = "refresh" => r.token \in Used)
      /\ (r.op = "login" \/ r.op = "refresh") /\ r.step = "issue"
  BY <1>0 DEF IssuePair, RequestForm, Holding, Unused, Used
<1>3. request'[q] = Idle /\ \A p \in Slots : p # q => request'[p] = request[p]
  BY <1>0, <1>1 DEF Answer, SessionsTypeOK
<1>4. Used' = Used \cup {t} /\ Live' = Live \cup {t}
  BY <1>0, <1>1, <1>2, Types DEF Used, Live
<1>5. /\ \A x \in Used : session'[x] = session[x]
      /\ session'[t] = IF r.op = "login" THEN t ELSE session[r.token]
  BY <1>0, <1>1, <1>2 DEF SessionsTypeOK, Used
<1>6. \A x \in Used : session[x] \in Used
  BY <1>0 DEF TokenForm
<1>7. Rooted'
  BY <1>2, <1>4, <1>5, <1>6 DEF Rooted
<1>8. PICK s \in Used' : s = session'[t]
  BY <1>4, <1>5, <1>6, <1>2
<1>9. \A x \in Tokens \ {s} : LifeOf(x)' = LifeOf(x)
  <2> SUFFICES ASSUME NEW x \in Tokens \ {s} PROVE LifeOf(x)' = LifeOf(x)
    OBVIOUS
  <2>1. x \in Used' /\ session'[x] = x <=> x \in Used /\ session[x] = x
    BY <1>2, <1>4, <1>5, <1>8
  <2>2. (\E y \in Live' : session'[y] = x) <=> \E y \in Live : session[y] = x
    BY <1>4, <1>5, <1>8 DEF Live, Used
  <2>3. \A p \in Slots : LetIn(p, x)' <=> LetIn(p, x)
    <3> SUFFICES ASSUME NEW p \in Slots PROVE LetIn(p, x)' <=> LetIn(p, x)
      OBVIOUS
    <3>1. CASE p = q
      BY <1>2, <1>3, <1>5, <1>8, <3>1, IdleIs DEF LetIn
    <3>2. CASE p # q
      <4>1. request[p].op = "refresh" => request[p].token \in Used
        BY DEF FormInv, RequestForm, Holding
      <4> QED
        BY <1>3, <1>5, <3>2, <4>1 DEF LetIn
    <3> QED
      BY <3>1, <3>2
  <2> QED
    BY <2>1, <2>2, <2>3, LifeIs, LifeIsAfter
<1>10. LifeOf(s)' = "open" /\ s \in Tokens
  <2>1. t \in Used' /\ t \in Live'
    BY <1>4
  <2>2. session'[s] = s
    BY <1>7, <1>8, <2>1 DEF Rooted
  <2>3. s \in Tokens
    BY <1>8 DEF Used
  <2>4. \E y \in Live' : session'[y] = s
    BY <1>8, <2>1
  <2> QED
    BY <2>2, <2>3, <2>4, <1>8, LifeIsAfter
<1>11. LifeOf(s) \in {"none", "open", "renewing"}
  <2>1. CASE r.op = "login"
    BY <1>2, <1>5, <1>10, <1>8, <2>1, LifeIs
  <2>2. CASE r.op = "refresh"
    BY <1>2, <1>5, <1>6, <1>10, <1>8, <2>2, LifeIs DEF LetIn, Rooted
  <2> QED
    BY <1>2, <2>1, <2>2
<1> HIDE DEF r
<1> DEFINE life  == [x \in Tokens |-> LifeOf(x)]
<1> DEFINE later == [x \in Tokens |-> LifeOf(x)']
<1>12. later = [life EXCEPT ![s] = "open"]
  BY <1>9, <1>10
<1>13. CASE LifeOf(s) = "open"
  <2>1. later = life
    BY <1>9, <1>10, <1>13
  <2> QED
    BY <1>7, <1>10, <2>1
<1>14. CASE LifeOf(s) = "none"
  BY <1>7, <1>10, <1>12, <1>14 DEF Lifecycle!Begin
<1>15. CASE LifeOf(s) = "renewing"
  BY <1>7, <1>10, <1>12, <1>15 DEF Lifecycle!Renew
<1> QED
  BY <1>11, <1>13, <1>14, <1>15

\* A request that is answered is no refresh any more; one that goes on is let in with
\* a live token or was inside before.
LEMMA AnswersAdmit ==
  ASSUME SessionsTypeOK, NEW q \in Slots, NEW t, Answer(q, t)
  PROVE  \A p \in Slots : Admitted(p)
BY IdleIs DEF Answer, Admitted, SessionsTypeOK

LEMMA OthersAdmit ==
  ASSUME SessionsTypeOK, NEW q \in Slots, NEW x, request' = [request EXCEPT ![q] = x],
         x.op = "refresh" => /\ request[q].op = "refresh" /\ x.token = request[q].token
                             /\ (x.step \in Inside =>
                                  request[q].step \in Inside \/ token'[x.token] = "live")
  PROVE  \A p \in Slots : Admitted(p)
BY DEF Admitted, SessionsTypeOK

LEMMA TokensStay == UNCHANGED tokens => Used' = Used /\ session' = session /\ Live' = Live
BY DEF tokens, Used, Live

LEMMA BringsNone_ClientStep ==
  ASSUME FormInv, NEW q \in Slots, NEW c \in Clients,
         ClientStep(q, c) \/ \E op \in AdminOps, u \in Users : AdminAccept(q, c, op, u)
  PROVE  BringsNone
<1>0. SessionsTypeOK /\ UNCHANGED tokens
  BY DEF FormInv, ClientStep, RegisterCheck, LoginFind, RefreshSend, LogoutSend, AdminAccept
<1>1. PICK x : request' = [request EXCEPT ![q] = x] /\ (x.op = "refresh" => x.step = "sent")
               /\ request[q].op = "none"
  <2>1. CASE RegisterCheck(q, c)
    BY <2>1 DEF RegisterCheck, Start, Call, Idle, Busy
  <2>2. CASE LoginFind(q, c)
    BY <2>2 DEF LoginFind, Start, Call, Idle, Busy
  <2>3. CASE RefreshSend(q, c)
    BY <2>3 DEF RefreshSend, Start, Call, Idle, Busy
  <2>4. CASE LogoutSend(q, c)
    BY <2>4 DEF LogoutSend, Start, Call, Idle, Busy
  <2>5. CASE \E op \in AdminOps, u \in Users : AdminAccept(q, c, op, u)
    BY <2>5 DEF AdminAccept, Start, Idle, Busy, AdminOps
  <2> QED
    BY <2>1, <2>2, <2>3, <2>4, <2>5 DEF ClientStep
<1>2. \A p \in Slots : Admitted(p)
  BY <1>0, <1>1 DEF Admitted, Inside, SessionsTypeOK
<1> QED
  BY <1>0, <1>2, TokensStay DEF BringsNone

LEMMA BringsNone_AuthStep ==
  ASSUME FormInv, NEW q \in Slots, AuthStep(q), ~IssuePair(q)
  PROVE  BringsNone
<1>0. SessionsTypeOK
  BY DEF FormInv
<1>1. CASE RegisterCreate(q) \/ LogoutRevoke(q) \/ RefreshBurn(q)
  <2>1. \A p \in Slots : Admitted(p)
    BY <1>0, <1>1, AnswersAdmit DEF RegisterCreate, LogoutRevoke, RefreshBurn
  <2>2. CASE UNCHANGED tokens
    BY <2>1, <2>2, TokensStay DEF BringsNone
  <2>3. ASSUME NEW T, Revoke(T) PROVE BringsNone
    BY <1>0, <2>1, <2>3, RevokeIs DEF BringsNone
  <2> QED
    BY <1>1, <2>2, <2>3 DEF RegisterCreate, LogoutRevoke, RefreshBurn
<1>2. CASE LoginTrack(q)
  <2>1. \A p \in Slots : Admitted(p)
    <3> DEFINE x == [request[q] EXCEPT !.step = "issue", !.seen = {}]
    <3>1. request' = [request EXCEPT ![q] = x] /\ request[q].op = "login"
      BY <1>2 DEF LoginTrack, Runs
    <3>2. x.op = "login"
      BY <1>0, <3>1, Types DEF Requests
    <3> HIDE DEF x
    <3> QED
      BY <1>0, <3>1, <3>2, OthersAdmit
  <2> QED
    BY <1>2, <2>1, TokensStay DEF BringsNone, LoginTrack
<1>3. CASE RefreshFind(q)
  <2>1. UNCHANGED tokens
    BY <1>3 DEF RefreshFind
  <2>2. CASE Answer(q, NoToken)
    BY <1>0, <2>1, <2>2, AnswersAdmit, TokensStay DEF BringsNone
  <2>3. ASSUME NEW step \in {"burn", "load"}, Goto(q, step),
               step = "load" => token[request[q].token] = "live"
        PROVE  BringsNone
    <3>1. /\ request'[q] = [request[q] EXCEPT !.step = step]
          /\ \A p \in Slots : p # q => request'[p] = request[p]
      BY <1>0, <2>3, GotoIs
    <3>2. request'[q].step = step /\ request'[q].token = request[q].token
          /\ request'[q].op = request[q].op
      BY <1>0, <3>1, Types DEF Requests
    <3>3. \A p \in Slots : Admitted(p)
      BY <2>1, <2>3, <3>1, <3>2 DEF Admitted, Inside, tokens
    <3> QED
      BY <2>1, <3>3, TokensStay DEF BringsNone
  <2> QED
    BY <1>3, <2>2, <2>3 DEF RefreshFind
<1>4. CASE RefreshLoadUser(q)
  <2>1. UNCHANGED tokens /\ request[q].op = "refresh" /\ request[q].step = "load"
    BY <1>4 DEF RefreshLoadUser, Runs
  <2>2. CASE Answer(q, NoToken)
    BY <1>0, <2>1, <2>2, AnswersAdmit, TokensStay DEF BringsNone
  <2>3. CASE request' = [request EXCEPT ![q].step = "rotate", ![q].scope = ScopeOf(User(q))]
    <3> DEFINE x == [request[q] EXCEPT !.step = "rotate", !.scope = ScopeOf(User(q))]
    <3>1. request' = [request EXCEPT ![q] = x]
      BY <2>3
    <3>2. x.token = request[q].token
      BY <1>0, Types DEF Requests
    <3> HIDE DEF x
    <3>3. \A p \in Slots : Admitted(p)
      BY <1>0, <2>1, <3>1, <3>2, OthersAdmit DEF Inside
    <3> QED
      BY <2>1, <3>3, TokensStay DEF BringsNone
  <2> QED
    BY <1>4, <2>2, <2>3 DEF RefreshLoadUser
<1>5. CASE RefreshRotate(q)
  <2>1. Revoke({request[q].token}) /\ Goto(q, "issue")
        /\ request[q].op = "refresh" /\ request[q].step = "rotate"
    BY <1>5 DEF RefreshRotate, Runs
  <2>2. /\ request'[q] = [request[q] EXCEPT !.step = "issue"]
        /\ \A p \in Slots : p # q => request'[p] = request[p]
    BY <1>0, <2>1, GotoIs
  <2>3. request'[q].token = request[q].token
    BY <1>0, <2>2, Types DEF Requests
  <2>4. \A p \in Slots : Admitted(p)
    BY <2>1, <2>2, <2>3 DEF Admitted, Inside
  <2> QED
    BY <1>0, <2>1, <2>4, RevokeIs DEF BringsNone
<1> QED
  BY <1>1, <1>2, <1>3, <1>4, <1>5 DEF AuthStep

LEMMA BringsNone_Others ==
  ASSUME FormInv,
         \/ \E q \in Slots : GiveUp(q) \/ LoseRequest(q)
         \/ \E c \in Clients : Kill(c) \/ RetentionCleanup(c)
         \/ \E t \in Tokens : Expire(t)
  PROVE  BringsNone
<1>0. SessionsTypeOK
  BY DEF FormInv
<1>1. ASSUME NEW q \in Slots, GiveUp(q) PROVE BringsNone
  <2> DEFINE x == [request[q] EXCEPT !.awaited = FALSE]
  <2>1. request' = [request EXCEPT ![q] = x] /\ UNCHANGED tokens
    BY <1>1 DEF GiveUp
  <2>2. x.op = request[q].op /\ x.token = request[q].token /\ x.step = request[q].step
    BY <1>0, Types DEF Requests
  <2> HIDE DEF x
  <2>3. \A p \in Slots : Admitted(p)
    BY <1>0, <2>1, <2>2, OthersAdmit
  <2> QED
    BY <2>1, <2>3, TokensStay DEF BringsNone
<1>2. ASSUME NEW q \in Slots, LoseRequest(q) PROVE BringsNone
  <2>1. \A p \in Slots : Admitted(p)
    BY <1>0, <1>2, OthersAdmit, IdleIs DEF LoseRequest
  <2> QED
    BY <1>2, <2>1, TokensStay DEF BringsNone, LoseRequest
<1>3. ASSUME NEW c \in Clients, Kill(c) PROVE BringsNone
  <2>1. \A p \in Slots : Admitted(p)
    BY <1>0, <1>3, KillIs DEF Admitted
  <2> QED
    BY <1>3, <2>1, TokensStay DEF BringsNone, Kill
<1>4. ASSUME token' \in [Tokens -> States], request' = request, session' = session,
             \A t \in Tokens : token'[t] = token[t] \/ (token'[t] = "gone" /\ token[t] # "unused")
      PROVE  BringsNone
  <2>1. \A p \in Slots : Admitted(p)
    BY <1>4 DEF Admitted
  <2> QED
    BY <1>4, <2>1 DEF BringsNone, Used, Live
<1>5. ASSUME NEW t \in Tokens, Expire(t) PROVE BringsNone
  <2>1. token' = [token EXCEPT ![t] = "gone"] /\ token[t] # "unused"
        /\ request' = request /\ session' = session
    BY <1>5 DEF Expire
  <2> QED
    BY <1>0, <1>4, <2>1, Types DEF States
<1>6. ASSUME NEW c \in Clients, RetentionCleanup(c) PROVE BringsNone
  <2>1. PICK old \in SUBSET {t \in Tokens : token[t] = "revoked"} :
          token' = [t \in Tokens |-> IF t \in old THEN "gone" ELSE token[t]]
    BY <1>6 DEF RetentionCleanup
  <2>2. request' = request /\ session' = session
    BY <1>6 DEF RetentionCleanup
  <2> QED
    BY <1>0, <1>4, <2>1, <2>2, Types DEF States
<1> QED
  BY <1>1, <1>2, <1>3, <1>5, <1>6

LEMMA BringsNone_AdminStep ==
  ASSUME FormInv, NEW q \in Slots, AdminStep(q)
  PROVE  BringsNone
<1>0. SessionsTypeOK
  BY DEF FormInv
<1>1. CASE SetActive(q) \/ SetRole(q) \/ DeleteUserAccount(q)
  <2>1. Answer(q, NoToken) /\ UNCHANGED tokens
    BY <1>1 DEF SetActive, SetRole, DeleteUserAccount
  <2> QED
    BY <1>0, <2>1, AnswersAdmit, TokensStay DEF BringsNone
<1>2. CASE DeleteUserSessions(q)
  <2>1. Revoke(TokensOf(request[q].target)) /\ Goto(q, "revoked") /\ request[q].op = "delete"
    BY <1>2 DEF DeleteUserSessions, Runs
  <2>2. /\ request'[q] = [request[q] EXCEPT !.step = "revoked"]
        /\ \A p \in Slots : p # q => request'[p] = request[p]
    BY <1>0, <2>1, GotoIs
  <2>3. request'[q].op = "delete"
    BY <1>0, <2>1, <2>2, Types DEF Requests
  <2>4. \A p \in Slots : Admitted(p)
    BY <2>2, <2>3 DEF Admitted
  <2> QED
    BY <1>0, <2>1, <2>4, RevokeIs DEF BringsNone
<1> QED
  BY <1>1, <1>2 DEF AdminStep

LEMMA LifeStep ==
  FormInv /\ Rooted /\ [Next]_systemVars
    => Rooted' /\ [Lifecycle!Next]_([s \in Tokens |-> LifeOf(s)])
<1> SUFFICES ASSUME FormInv, Rooted, [Next]_systemVars
             PROVE  Rooted' /\ [Lifecycle!Next]_([s \in Tokens |-> LifeOf(s)])
  OBVIOUS
<1>1. CASE UNCHANGED systemVars
  <2>1. UNCHANGED tokens /\ request' = request
    BY <1>1 DEF systemVars, sessionVars
  <2>2. Used' = Used /\ session' = session /\ token' = token /\ Live' = Live
    BY <2>1, TokensStay DEF tokens
  <2>3. \A s \in Tokens : LifeOf(s)' = LifeOf(s)
    BY <2>1, <2>2 DEF LifeOf, LetIn
  <2> QED
    BY <2>2, <2>3 DEF Rooted
<1>2. CASE \E q \in Slots : IssuePair(q)
  BY <1>2, IssueLives DEF Lifecycle!Next
<1>3. CASE BringsNone
  BY <1>3, ClosesOnly DEF Lifecycle!Next, BringsNone, Rooted
<1> QED
  BY <1>1, <1>2, <1>3, BringsNone_ClientStep, BringsNone_AuthStep, BringsNone_Others,
     BringsNone_AdminStep DEF Next, SessionsNext

\* Every step of the endpoints, the clients and the administrators is a step of
\* SessionContract or invisible in it: a login opens a session, a refresh may bring it
\* its next token only if it was let in with a live one, and what is over stays over.
\* For any users, clients, requests at once, tokens, mishaps and races.
THEOREM SessionsImplementContract == Spec => ImplementsSessionContract
<1>1. Init => Lifecycle!Init /\ Rooted
  BY DEF Init, SessionsInit, Lifecycle!Init, LifeOf, Rooted, Used
<1> QED
  BY <1>1, InitForm, StepForm, LifeStep, PTL DEF Spec, ImplementsSessionContract, Lifecycle!Spec

================================================================================
