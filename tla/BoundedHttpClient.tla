-------------------------- MODULE BoundedHttpClient --------------------------
(***************************************************************************)
(* BoundedHttpClient over UrlLibHttpTransport: one get_json or post_json,  *)
(* from the first request on the wire to the decoded object or the failure *)
(* the caller sees.  The network decides the outcome of every attempt, and *)
(* whether the provider had served the request when its answer was lost.   *)
(*                                                                         *)
(* Abstracted: a response body is one of Malformed or a decoded object of  *)
(* Payloads; delays are counted in units of 50 ms; headers are left out.   *)
(***************************************************************************)
EXTENDS Integers

CONSTANTS MaxRetries,   \* retries allowed after the first attempt
          Payloads      \* JSON objects a provider may answer with

ASSUME RetriesAssumption == MaxRetries \in Nat

VARIABLES
    attempt,   \* attempts that ended in a resend
    slept,     \* history: units of 50 ms slept between attempts
    served,    \* history: requests the provider has completed
    lost,      \* history: attempts whose own answer never arrived
    answer     \* what the caller has been given; Pending while it waits

httpVars == <<attempt, slept, served, lost, answer>>

\* Failures the client classifies, and UNCLASSIFIED: a connection that breaks
\* while the status line, the headers or the body are read leaves urlopen as
\* ConnectionResetError, RemoteDisconnected or IncompleteRead, and a timeout
\* while the body of an error status is read as TimeoutError; the transport
\* converts none of them.
TransportFailures == {"TIMEOUT", "NETWORK_ERROR", "OVERSIZED", "UNCLASSIFIED"}

Malformed == [json : {"unexpected_type", "not_json", "not_object"}]

Objects == [json : {"object"}, value : Payloads]

\* A status of each class _classify_status tells apart, and 501: a server
\* error that is not retryable.
Statuses == {200, 204, 400, 401, 403, 404, 429, 501, 503}

RetryableStatuses == {429, 500, 502, 503, 504}

\* Seconds of a Retry-After header made of digits; NoHeader otherwise.
NoHeader == -1
RetryAfters == {NoHeader, 0, 1, 9}

Failures == [failure : TransportFailures]

Responses ==
    [status : {200}, retryAfter : {NoHeader}, body : Malformed \cup Objects]
    \cup [status : Statuses \ {200}, retryAfter : RetryAfters,
          body : {[json |-> "not_json"]}]

IsFailure(o) == o \in Failures

ClassifyStatus(status) ==
    CASE status \in {401, 403} -> "UNAUTHORIZED"
      [] status = 404 -> "NOT_FOUND"
      [] status = 429 -> "RATE_LIMITED"
      [] status >= 500 /\ status <= 599 -> "UPSTREAM_ERROR"
      [] status >= 400 /\ status <= 499 /\ status \notin {401, 403, 404, 429} ->
            "INVALID_RESPONSE"
      [] OTHER -> "UPSTREAM_ERROR"

Least(a, b) == IF a <= b THEN a ELSE b

\* min(2 ** attempt * 0.05, 1.0)
Backoff(a) == IF a <= 4 THEN <<1, 2, 4, 8, 16>>[a + 1] ELSE 20

\* Faulty variant: the provider's Retry-After is obeyed without a cap.
UncappedDelay(o, a) ==
    IF IsFailure(o) \/ o.retryAfter = NoHeader THEN Backoff(a)
    ELSE 20 * o.retryAfter

\* The wait before the next attempt: a Retry-After wins, capped at 2 seconds.
Delay(o, a) ==
    IF IsFailure(o) \/ o.retryAfter = NoHeader THEN Backoff(a)
    ELSE Least(20 * o.retryAfter, 40)

\* Faulty variant: every answer that is not a 200 is asked for again.
ResendsAnything(o) == IF IsFailure(o) THEN TRUE ELSE o.status # 200

\* The outcome is one the loop tries again.
Transient(o) ==
    IF IsFailure(o) THEN o.failure \in {"TIMEOUT", "NETWORK_ERROR"}
    ELSE o.status \in RetryableStatuses

Pending == [kind |-> "PENDING"]

\* _parse_json: what a 200 is worth to the caller.
Parsed(body) ==
    IF body.json = "object" THEN [kind |-> "OK", value |-> body.value]
    ELSE [kind |-> "INVALID_RESPONSE", status |-> 200]

\* The exception or the object that leaves the client.
Settled(o) ==
    IF IsFailure(o) THEN [kind |-> o.failure, status |-> 0]
    ELSE IF o.status = 200 THEN Parsed(o.body)
    ELSE [kind |-> ClassifyStatus(o.status), status |-> o.status]

Answers ==
    {Pending} \cup [kind : {"OK"}, value : Payloads]
    \cup [kind : TransportFailures \cup {"INVALID_RESPONSE", "UNAUTHORIZED",
            "NOT_FOUND", "RATE_LIMITED", "UPSTREAM_ERROR"},
          status : {0} \cup Statuses]

HttpInit ==
    /\ attempt = 0
    /\ slept = 0
    /\ served = 0
    /\ lost = 0
    /\ answer = Pending

\* No answer came, or a server error that may be a gateway's or a late one: it
\* does not tell whether the request was completed.
AnswerLost(o) ==
    IF IsFailure(o) THEN TRUE ELSE o.status \in RetryableStatuses \ {429}

\* The provider may complete a request whose answer is then lost; the other
\* error statuses say that it did not.
MayServe(o) ==
    CASE AnswerLost(o) -> {0, 1}
      [] ~AnswerLost(o) /\ o.status \in {200, 204} -> {1}
      [] OTHER -> {0}

OnTheWire(o) ==
    /\ answer = Pending
    /\ \E n \in MayServe(o) : served' = served + n
    /\ lost' = lost + (IF AnswerLost(o) THEN 1 ELSE 0)

\* Faulty variant: one attempt more than max_retries + 1.
OneMore == attempt <= MaxRetries

MoreAttempts == attempt + 1 < MaxRetries + 1

\* The attempt failed in a transient way and another one is allowed.
Resend(o) ==
    /\ OnTheWire(o)
    /\ Transient(o) /\ MoreAttempts
    /\ attempt' = attempt + 1
    /\ slept' = slept + Delay(o, attempt)
    /\ UNCHANGED answer

\* The attempt's outcome is the caller's.
Settle(o) ==
    /\ OnTheWire(o)
    /\ ~(Transient(o) /\ MoreAttempts)
    /\ answer' = Settled(o)
    /\ UNCHANGED <<attempt, slept>>

HttpNext == \E o \in Failures \cup Responses : Resend(o) \/ Settle(o)

HttpSpec == HttpInit /\ [][HttpNext]_httpVars

-----------------------------------------------------------------------------
(* Properties *)

\* The retries of one call stay bounded whatever the provider asks for: no
\* more attempts than max_retries + 1, and at most 2 seconds before each
\* (the caps of _request_with_retries).
RetriesBounded ==
    /\ attempt <= MaxRetries
    /\ slept <= 40 * attempt

\* A request is completed twice by the provider only when an answer was lost,
\* or a server error came in its place: post_json does not special-case POST,
\* so whatever else arrived, a success that cannot be used or an error of the
\* caller's own, must not make the client ask for the same completion again.
AnsweredNotRepeated == served <= lost + 1

=============================================================================
