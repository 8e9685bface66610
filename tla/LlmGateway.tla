------------------------------ MODULE LlmGateway ------------------------------
(***************************************************************************)
(* LlmRouterPort as composed: OpenRouterAdapter over BoundedHttpClient, or *)
(* DisabledLlmRouterAdapter.  Pure: what complete() makes of the client's  *)
(* answer.  A completion is [message, cost, text]: whether choices,        *)
(* message and content have the shape the adapter requires, the cost the   *)
(* provider states, and the text.  Token counts are left out.              *)
(***************************************************************************)
EXTENDS Naturals

CONSTANT Ceiling   \* openrouter_max_output_tokens

ASSUME CeilingAssumption == Ceiling \in Nat \ {0}

ModelFailures ==
    {"TIMEOUT", "RATE_LIMITED", "AUTHENTICATION_ERROR", "INVALID_REQUEST",
     "MALFORMED_OUTPUT", "UPSTREAM_ERROR", "NETWORK_ERROR",
     "POLICY_VIOLATION", "UNKNOWN"}

\* RAISED: the adapter's caller gets an exception and no response.
ModelFailed(kind) == [status |-> "FAILED", failure |-> kind]
ModelSucceeded(text) == [status |-> "SUCCEEDED", text |-> text]
RouterRaised == [status |-> "RAISED"]

\* _map_transport_failure: exceptions that are no HttpTransportError are not
\* caught.
TransportFailure(a) ==
    CASE a.kind = "TIMEOUT" -> "TIMEOUT"
      [] a.kind = "NETWORK_ERROR" -> "NETWORK_ERROR"
      [] a.kind = "UNAUTHORIZED" -> "AUTHENTICATION_ERROR"
      [] a.kind = "RATE_LIMITED" -> "RATE_LIMITED"
      [] a.kind \in {"UPSTREAM_ERROR", "OVERSIZED"} -> "UPSTREAM_ERROR"
      [] a.kind = "NOT_FOUND" -> "INVALID_REQUEST"
      [] a.kind = "INVALID_RESPONSE" ->
            IF a.status = 200 THEN "MALFORMED_OUTPUT" ELSE "INVALID_REQUEST"
      [] OTHER -> "UNKNOWN"

\* What a provider may state as the cost: a finite number, or nothing that
\* can be read as one (absent, another type, unparseable, NaN, infinite).
Costs == {"zero", "positive", "negative", "unreadable"}

\* Faulty variant: a cost that cannot be read counts as a known zero.
UnreadableIsFree(cost) ==
    [known |-> cost # "negative", amount |-> IF cost = "positive" THEN 1 ELSE 0]

\* _map_usage: what cannot be read leaves the amount at its default of zero and
\* the cost unknown.  ModelUsage raises ValueError for a negative cost.
MapUsage(cost) ==
    [known |-> cost \in {"zero", "positive"},
     amount |-> IF cost = "positive" THEN 1 ELSE 0]

\* The $0 policy of _map_success.
IsFree(usage) == usage.known /\ usage.amount = 0

\* _map_success; complete() turns its TypeError, ValueError and KeyError into
\* MALFORMED_OUTPUT.
MapSuccess(completion) ==
    IF completion.message = "missing" \/ completion.cost = "negative"
        THEN ModelFailed("MALFORMED_OUTPUT")
    ELSE IF ~IsFree(MapUsage(completion.cost)) THEN ModelFailed("POLICY_VIOLATION")
    ELSE ModelSucceeded(completion.text)

\* The adapter refuses a request above its ceiling without calling.
AboveCeiling(tokens) == tokens > Ceiling

\* complete(), for a request the adapter did send.
Complete(a) ==
    CASE a.kind = "OK" -> MapSuccess(a.value)
      [] a.kind = "UNCLASSIFIED" -> RouterRaised
      [] OTHER -> ModelFailed(TransportFailure(a))

\* DisabledLlmRouterAdapter.complete
CompleteDisabled == ModelFailed("POLICY_VIOLATION")

=============================================================================
