----------------------------- MODULE RequestSafety -----------------------------
(***************************************************************************)
(* One HTTP request through the application: RequestSafetyMiddleware       *)
(* buffers the body while it streams in, then CorrelationIdMiddleware,     *)
(* SecurityHeadersMiddleware, require_api_key and the route run; the       *)
(* exception handlers answer what a route raises.                          *)
(*                                                                         *)
(* External, as the code relies on it: the ASGI server delivers            *)
(* http.request messages until the body ends or http.disconnect; a body    *)
(* that ends in a disconnect makes a route that reads it fail with a 400;  *)
(* and the handler registered for Exception answers outside all added      *)
(* middlewares, the other handlers inside.                                 *)
(***************************************************************************)
EXTENDS Startup, Sequences

CONSTANTS MaxBody,     \* api_max_request_body_bytes
          MaxChunks,   \* MAX_REQUEST_BODY_CHUNKS
          ChunkSizes,  \* sizes a body message may have
          Slice        \* the deployments looked at

ASSUME LimitsAssumption ==
    /\ MaxBody \in Nat /\ MaxChunks \in Nat \ {0} /\ ChunkSizes \subseteq Nat
    /\ Slice \subseteq Deployments

VARIABLES
    deployment,  \* the settings the process was given
    process,     \* "starting", "refused", or "serving"
    call,        \* the head of the request
    body,        \* sizes of the body messages buffered so far
    ended,       \* how the body ended: "open", "complete", "disconnect"
    seen,        \* bytes of the body the route was given; NotRead if none ran
    reply        \* the answer; NoReply while there is none

safetyVars == <<deployment, process, call, body, ended, seen, reply>>

NoReply == [status |-> 0, code |-> "none", headers |-> FALSE]
NotRead == 0 - 1

\* What the head of a request can look like to the checks: one good Host, a
\* bad one or several; no Content-Length, several, one that is not digits, or
\* a number.  A credential is absent, of another scheme, or a key.
Calls ==
    [host : {"allowed", "other"},
     length : {"absent", "repeated", "garbled", "small", "large"},
     credential : {"none", "wrong", "right"},
     path : {"public", "protected"}]

NoCall == [host |-> "other", length |-> "absent", credential |-> "none",
           path |-> "public"]

Total(sizes) ==
    LET sum[n \in 0..Len(sizes)] == IF n = 0 THEN 0 ELSE sum[n - 1] + sizes[n]
    IN sum[Len(sizes)]

SafetyInit ==
    /\ deployment \in Slice
    /\ process = "starting"
    /\ call = NoCall
    /\ body = <<>>
    /\ ended = "open"
    /\ seen = NotRead
    /\ reply = NoReply

\* Settings() and build_container.
Start ==
    /\ process = "starting"
    /\ process' = IF Starts(deployment) THEN "serving" ELSE "refused"
    /\ UNCHANGED <<deployment, call, body, ended, seen, reply>>

\* Faulty variant: staging forgotten.
RefusedInProduction(c) == deployment.env = "production" /\ c.host # "allowed"

\* The Host check of the enforced environments.
HostRefused(c) == deployment.env \in Enforced /\ c.host # "allowed"

\* The first check that fails answers, with the safe headers of _reject.
Rejection(c) ==
    IF HostRefused(c)
        THEN [status |-> 400, code |-> "invalid_host", headers |-> TRUE]
    ELSE IF c.length \in {"repeated", "garbled"}
        THEN [status |-> 400, code |-> "invalid_request", headers |-> TRUE]
    ELSE IF c.length = "large"
        THEN [status |-> 413, code |-> "request_too_large", headers |-> TRUE]
    ELSE NoReply

Arrive(c) ==
    /\ process = "serving" /\ call = NoCall /\ reply = NoReply
    /\ call' = c
    /\ reply' = Rejection(c)
    /\ UNCHANGED <<deployment, process, body, ended, seen>>

Receiving == process = "serving" /\ call # NoCall /\ reply = NoReply /\ ended = "open"

\* Faulty variant: the limit is enforced on declared lengths only.
TrustsLength(sizes) == FALSE

\* total > max_body_bytes
TooLarge(sizes) == ~(Total(sizes) <= MaxBody)

\* Faulty variant: only bytes are counted.
CountsBytesOnly(sizes) == FALSE

\* len(chunks) > MAX_REQUEST_BODY_CHUNKS
TooMany(sizes) == Len(sizes) > MaxChunks

\* One http.request message: the chunk is kept before it is counted.
Receive(size, more) ==
    /\ Receiving
    /\ body' = Append(body, size)
    /\ IF TooMany(body')
       THEN /\ reply' = [status |-> 413, code |-> "request_too_complex", headers |-> TRUE]
            /\ UNCHANGED ended
       ELSE IF TooLarge(body')
       THEN /\ reply' = [status |-> 413, code |-> "request_too_large", headers |-> TRUE]
            /\ UNCHANGED ended
       ELSE /\ ended' = IF more THEN "open" ELSE "complete"
            /\ UNCHANGED reply
    /\ UNCHANGED <<deployment, process, call, seen>>

Disconnect ==
    /\ Receiving
    /\ ended' = "disconnect"
    /\ UNCHANGED <<deployment, process, call, body, seen, reply>>

\* What replay_receive hands the route: every buffered message, in order.
Replayed(sizes) == Total(sizes)

\* require_api_key with InMemoryApiKeyStore: bypassed outside the enforced
\* environments; no key matches a store that has none.
Authenticated(c) ==
    deployment.env \in Enforced => c.credential = "right" /\ deployment.keys # "none"

\* How a route that ran ends, and what its handler answers.
RouteReplies ==
    {[status |-> 200, code |-> "ok", headers |-> TRUE],
     [status |-> 404, code |-> "http_error", headers |-> TRUE],
     [status |-> 422, code |-> "validation_error", headers |-> TRUE],
     [status |-> 500, code |-> "internal_error", headers |-> FALSE]}

Route ==
    /\ process = "serving" /\ reply = NoReply /\ ended # "open"
    /\ \/ /\ call.path = "protected" /\ ~Authenticated(call)
          /\ reply' = [status |-> 401, code |-> "authentication_required",
                       headers |-> TRUE]
          /\ UNCHANGED seen
       \/ /\ call.path = "public" \/ Authenticated(call)
          /\ ended = "complete"
          /\ seen' = Replayed(body)
          /\ reply' \in RouteReplies
       \/ /\ call.path = "public" \/ Authenticated(call)
          /\ ended = "disconnect"
          /\ reply' = [status |-> 400, code |-> "http_error", headers |-> TRUE]
          /\ UNCHANGED seen
    /\ UNCHANGED <<deployment, process, call, body, ended>>

SafetyNext ==
    \/ Start
    \/ \E c \in Calls \ {NoCall} : Arrive(c)
    \/ \E size \in ChunkSizes, more \in BOOLEAN : Receive(size, more)
    \/ Disconnect
    \/ Route

SafetySpec == SafetyInit /\ [][SafetyNext]_safetyVars

-----------------------------------------------------------------------------
(* Properties *)

SafetyTypeOK ==
    /\ deployment \in Deployments
    /\ process \in {"starting", "refused", "serving"}
    /\ call \in Calls
    /\ Len(body) <= MaxChunks + 1
    /\ ended \in {"open", "complete", "disconnect"}
    /\ seen \in {NotRead} \cup Nat
    /\ reply.status \in {0, 200, 400, 401, 404, 413, 422, 500}

\* However the body is cut into chunks and whatever length was declared, a
\* route is given all of the bytes the client sent and no more than the limit;
\* an undeclared or understated length changes nothing.
BodyWholeAndBounded ==
    seen # NotRead => /\ seen = Total(body)
                      /\ seen <= MaxBody
                      /\ Len(body) <= MaxChunks

\* The readiness probe and the authentication dependency, written apart, agree:
\* "readiness never contradicts actual endpoint usability"
\* (composition/__init__.py:451).  A process that says it is not ready answers
\* nobody on a protected route.
NotReadyServesNobody ==
    process = "serving" /\ ~Ready(deployment) /\ call.path = "protected" =>
        seen = NotRead

\* In an enforced environment no protected route has run without an allowed
\* host and a key, whatever the settings that let the process start and however
\* the body of the request came in.
ProtectedAdmission ==
    seen # NotRead /\ call.path = "protected" /\ deployment.env \in Enforced =>
        call.host = "allowed" /\ call.credential = "right"

\* A process that starts has what its planner needs: a model planner is never
\* wired to the disabled router, so PLANNER_MODE=llm is refused at start-up
\* rather than at every request.
PlannerHasModel ==
    process = "serving" /\ deployment.planner = "llm" =>
        Router(deployment) = "openrouter"

=============================================================================
