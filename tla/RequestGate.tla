------------------------------ MODULE RequestGate ------------------------------
(***************************************************************************)
(* What one HTTP request passes on its way to a handler, and what its      *)
(* answer passes on the way out: the middleware around the application in  *)
(* the order app.py stacks them, the body limit that counts the chunks as  *)
(* they arrive, the key checks and the error handlers.                     *)
(*                                                                         *)
(* A layer only adds its headers to answers that come from inside of it,   *)
(* and an exception nobody expected is answered outside of all of them.    *)
(***************************************************************************)
EXTENDS Naturals, Sequences

CONSTANTS
  MaxBytes,   \* MAX_REQUEST_BODY_BYTES
  MaxSent,    \* bound on the bytes of a body
  Ids, Fresh, \* the request ids clients send, and one made up here
  NoId, NoResponse

ASSUME GateAssumption ==
  /\ MaxBytes \in Nat /\ MaxSent \in Nat
  /\ {Fresh, NoId} \cap Ids = {} /\ Fresh # NoId
  /\ NoResponse \notin
       [by : {"cors", "limit", "https", "keys", "routes", "handler"}, status : Nat,
        envelope : Ids \cup {Fresh, NoId}, header : Ids \cup {Fresh, NoId}]

VARIABLES
  deployment,  \* the optional layers that are installed
  request,     \* where the request is, its id, and how many bytes of it arrived and were handed on
  response

gateVars == <<deployment, request, response>>

\* Outermost first.
Layers  == <<"cors", "request id", "body limit", "security headers", "https", "routes">>
Chunked == MaxSent + 1  \* no Content-Length

NoRequestYet == [at |-> "none", preflight |-> FALSE, length |-> 0, inbound |-> NoId, id |-> NoId,
                 sent |-> 0, read |-> 0]

--------------------------------------------------------------------------------
(* Layers *)

Installed(l) == l \in {"cors", "https"} => l \in deployment

\* The layers around l.
Around(l) ==
  {Layers[k] : k \in {j \in DOMAIN Layers :
     Installed(Layers[j]) /\ \A i \in 1 .. j : Layers[i] # l}}

Open(l) == request.at = l /\ response = NoResponse

\* The request goes on to the next installed layer.
Inward(l, r) ==
  \E j, k \in DOMAIN Layers :
    /\ Layers[j] = l /\ j < k /\ Installed(Layers[k])
    /\ \A i \in j + 1 .. k - 1 : ~Installed(Layers[i])
    /\ request' = [r EXCEPT !.at = Layers[k]]
    /\ UNCHANGED <<deployment, response>>

\* Layer l answers, in an envelope that names an id or in none.
Reply(l, by, status, named) ==
  response' = [by |-> by, status |-> status, envelope |-> named,
               header |-> IF "request id" \in Around(l) THEN request.id ELSE NoId]

\* Mutant of _request_id: the one of the logging context, which is reset on the way out.
ContextRequestId(ofScope, ofContext) == ofContext

\* What RequestIDMiddleware left in the scope, or else the context variable.
_request_id(ofScope, ofContext) == IF ofScope # NoId THEN ofScope ELSE ofContext

\* An expected error, answered inside of all layers.
ReplyError(by, status) == Reply("routes", by, status, _request_id(request.id, request.id))

--------------------------------------------------------------------------------
(* A request *)

Arrive(preflight, length, inbound) ==
  /\ request.at = "none"
  /\ request' = [NoRequestYet EXCEPT
       !.at = IF "cors" \in deployment THEN "cors" ELSE "request id",
       !.preflight = preflight, !.length = length, !.inbound = inbound]
  /\ UNCHANGED <<deployment, response>>

\* A preflight is answered, or refused for its origin.
Cors ==
  /\ Open("cors")
  /\ IF request.preflight
     THEN (\E status \in {200, 400} : Reply("cors", "cors", status, NoId))
          /\ UNCHANGED <<deployment, request>>
     ELSE Inward("cors", request)

RequestID ==
  /\ Open("request id")
  /\ Inward("request id", [request EXCEPT !.id =
       IF request.inbound # NoId THEN request.inbound ELSE Fresh])

BodySizeLimit ==
  /\ Open("body limit")
  /\ IF request.length # Chunked /\ request.length > MaxBytes
     THEN Reply("body limit", "limit", 413, NoId) /\ UNCHANGED <<deployment, request>>
     ELSE Inward("body limit", request)

SecurityHeaders == Open("security headers") /\ Inward("security headers", request)

HTTPSEnforcement(secure) ==
  /\ Open("https")
  /\ IF secure THEN Inward("https", request)
     ELSE Reply("https", "https", 400, NoId) /\ UNCHANGED <<deployment, request>>

\* Mutant of limited_receive: only the size of the chunk is looked at.
LimitChunk(sent, n) == n > MaxBytes

\* The counter behind the receive channel.
limited_receive(sent, n) == sent + n > MaxBytes

\* The body is read before anything else, a chunk at a time.
Receive(n) ==
  /\ Open("routes")
  /\ request.sent + n <= IF request.length = Chunked THEN MaxSent ELSE request.length
  /\ IF limited_receive(request.sent, n)
     THEN ReplyError("limit", 413) /\ request' = [request EXCEPT !.sent = @ + n]
     ELSE /\ request' = [request EXCEPT !.sent = @ + n, !.read = @ + n]
          /\ UNCHANGED response
  /\ UNCHANGED deployment

BodyRead ==
  /\ Open("routes") /\ request.length \in {Chunked, request.sent}
  /\ request' = [request EXCEPT !.at = "keys"]
  /\ UNCHANGED <<deployment, response>>

\* The key of the app is missing or wrong, or that of the administrators is not set.
KeyRefused ==
  /\ Open("keys")
  /\ \E status \in {401, 403, 503} : ReplyError("keys", status)
  /\ UNCHANGED <<deployment, request>>

KeyAccepted ==
  /\ Open("keys")
  /\ request' = [request EXCEPT !.at = "handler"]
  /\ UNCHANGED <<deployment, response>>

Validation == Open("handler") /\ ReplyError("routes", 422) /\ UNCHANGED <<deployment, request>>

\* The limiter's own handler writes another kind of envelope.
RateLimited ==
  Open("handler") /\ Reply("routes", "routes", 429, NoId) /\ UNCHANGED <<deployment, request>>

\* The handler returns, or raises an HTTPException.
Handle ==
  /\ Open("handler")
  /\ \/ Reply("routes", "handler", 200, NoId)
     \/ ReplyError("handler", 404)
  /\ UNCHANGED <<deployment, request>>

\* Outside of every layer, where the context variable has been reset.
Unhandled ==
  /\ Open("handler")
  /\ response' = [by |-> "handler", status |-> 500, header |-> NoId,
                  envelope |-> _request_id(request.id, NoId)]
  /\ UNCHANGED <<deployment, request>>

GateInit == deployment = {} /\ request = NoRequestYet /\ response = NoResponse

\* The settings the server is started with.
Deploy(layers) ==
  /\ request.at = "none" /\ deployment # layers
  /\ deployment' = layers
  /\ UNCHANGED <<request, response>>

GateNext ==
  \/ \E layers \in SUBSET {"cors", "https"} : Deploy(layers)
  \/ \E preflight \in BOOLEAN, length \in 0 .. Chunked, inbound \in Ids \cup {NoId} :
       Arrive(preflight, length, inbound)
  \/ Cors \/ RequestID \/ BodySizeLimit \/ SecurityHeaders
  \/ \E secure \in BOOLEAN : HTTPSEnforcement(secure)
  \/ \E n \in 1 .. MaxSent : Receive(n)
  \/ BodyRead \/ KeyRefused \/ KeyAccepted
  \/ Validation \/ RateLimited \/ Handle \/ Unhandled

GateSpec == GateInit /\ [][GateNext]_gateVars

--------------------------------------------------------------------------------
(* Properties *)

\* The variables hold values of their kinds; a request has its id from the second
\* layer on.
GateTypeOK ==
  /\ deployment \subseteq {"cors", "https"}
  /\ request.at \in {Layers[k] : k \in DOMAIN Layers} \cup {"none", "keys", "handler"}
  /\ request.id \in Ids \cup {Fresh, NoId} /\ request.sent \in 0 .. MaxSent
  /\ request.at \in {"none", "cors", "request id"} <=> request.id = NoId

\* Every error answer, wherever in the stack it was written, names the id under
\* which the server logged the request, in its header or in its envelope; only a
\* refused preflight, which never gets an id, does not.
Traceable ==
  response # NoResponse /\ response.status >= 400 /\ response.by # "cors" =>
    request.id # NoId /\ request.id \in {response.header, response.envelope}

\* A handler only ever works on a whole body within the limit, whether or not its
\* length was declared.
WholeBodyWithinLimit ==
  response # NoResponse /\ response.by = "handler" =>
    /\ request.read = request.sent /\ request.read <= MaxBytes
    /\ request.length \in {Chunked, request.read}
================================================================================
