-------------------------- MODULE RequestSafetyProofs --------------------------
(***************************************************************************)
(* Proofs about RequestSafety, for every set of deployments, every limit   *)
(* and every way to cut a body into chunks.                                *)
(***************************************************************************)
EXTENDS RequestSafety, Recursion, TLAPS

\* What has been checked by the time a request gets where it is: nothing is
\* received before the process serves, no route runs before the head of the
\* request was admitted, and a body is complete only within both limits.
SafetyInductive ==
    /\ process = "serving" => Starts(deployment)
    /\ process # "serving" => call = NoCall
    /\ call = NoCall => ended = "open" /\ seen = NotRead
    /\ call # NoCall /\ reply = NoReply => ~HostRefused(call) /\ seen = NotRead
    /\ ended = "complete" => ~TooLarge(body) /\ ~TooMany(body)
    /\ Len(body) \in Nat
    /\ BodyWholeAndBounded
    /\ ProtectedAdmission
    /\ NotReadyServesNobody

LEMMA InitSafety == SafetyInit => SafetyInductive
  BY DEF SafetyInit, SafetyInductive, BodyWholeAndBounded, ProtectedAdmission,
         NotReadyServesNobody

LEMMA StartKeeps ==
    ASSUME SafetyInductive, Start
    PROVE  SafetyInductive'
  <1>1. seen = NotRead /\ call = NoCall /\ ended = "open"
    BY DEF SafetyInductive, Start
  <1> QED
    BY <1>1 DEF Start, SafetyInductive, BodyWholeAndBounded, ProtectedAdmission,
                NotReadyServesNobody

\* The Host check is part of what admits the head of a request.
LEMMA ArriveKeeps ==
    ASSUME SafetyInductive, NEW c \in Calls \ {NoCall}, Arrive(c)
    PROVE  SafetyInductive'
  <1>1. seen' = NotRead /\ ended' = "open" /\ UNCHANGED <<body, deployment, process>>
    BY DEF SafetyInductive, Arrive
  <1>2. call' = c /\ c # NoCall /\ process' = "serving"
    BY DEF Arrive
  <1>3. reply' = NoReply => ~HostRefused(c)'
    BY <1>1 DEF Arrive, Rejection, HostRefused, NoReply
  <1> QED
    BY <1>1, <1>2, <1>3 DEF SafetyInductive, BodyWholeAndBounded, ProtectedAdmission,
                           NotReadyServesNobody, HostRefused

\* Receiving ends with "complete" only after both limits were looked at.
LEMMA ReceiveKeeps ==
    ASSUME SafetyInductive, NEW size \in ChunkSizes, NEW more \in BOOLEAN,
           Receive(size, more)
    PROVE  SafetyInductive'
  <1>1. seen' = NotRead /\ UNCHANGED <<call, deployment, process>> /\ call # NoCall
    BY DEF SafetyInductive, Receive, Receiving
  <1>2. ended' = "complete" => ~TooLarge(body)' /\ ~TooMany(body)'
    BY DEF Receive, Receiving, TooLarge, TooMany
  <1>3. Len(body') \in Nat
    BY DEF Receive, SafetyInductive
  <1> QED
    BY <1>1, <1>2, <1>3 DEF SafetyInductive, Receive, Receiving, BodyWholeAndBounded,
         ProtectedAdmission, NotReadyServesNobody, HostRefused

LEMMA DisconnectKeeps ==
    ASSUME SafetyInductive, Disconnect
    PROVE  SafetyInductive'
  BY DEF SafetyInductive, Disconnect, Receiving, BodyWholeAndBounded, ProtectedAdmission,
         NotReadyServesNobody, HostRefused

\* A protected route runs only past require_api_key, any route only on a
\* complete body.
LEMMA RouteKeeps ==
    ASSUME SafetyInductive, Route
    PROVE  SafetyInductive'
  <1>1. call # NoCall /\ ~HostRefused(call) /\ seen = NotRead /\ process = "serving"
    BY DEF SafetyInductive, Route
  <1>2. UNCHANGED <<deployment, process, call, body, ended>> /\ reply' # NoReply
    BY DEF Route, RouteReplies, NoReply
  <1>3. CASE seen' = NotRead
    BY <1>1, <1>2, <1>3 DEF SafetyInductive, BodyWholeAndBounded, ProtectedAdmission,
         NotReadyServesNobody, TooLarge, TooMany
  <1>4. CASE seen' # NotRead
    <2>1. /\ ended = "complete" /\ seen' = Total(body)
          /\ call.path = "public" \/ Authenticated(call)
      BY <1>1, <1>4 DEF Route, Replayed
    <2>2. BodyWholeAndBounded'
      BY <1>2, <2>1, LimitsAssumption
      DEF SafetyInductive, BodyWholeAndBounded, TooLarge, TooMany
    <2>3. ProtectedAdmission'
      BY <1>1, <1>2, <2>1 DEF ProtectedAdmission, Authenticated, HostRefused
    <2>4. NotReadyServesNobody'
      BY <1>1, <1>2, <2>1
      DEF NotReadyServesNobody, Authenticated, Ready, AuthenticationReady
    <2> QED
      BY <1>1, <1>2, <2>1, <2>2, <2>3, <2>4
      DEF SafetyInductive, HostRefused, TooLarge, TooMany
  <1> QED
    BY <1>3, <1>4

LEMMA SafetyNextKeeps ==
    SafetyInductive /\ [SafetyNext]_safetyVars => SafetyInductive'
  <1> SUFFICES ASSUME SafetyInductive, [SafetyNext]_safetyVars PROVE SafetyInductive'
    OBVIOUS
  <1>1. CASE SafetyNext
    BY <1>1, StartKeeps, ArriveKeeps, ReceiveKeeps, DisconnectKeeps, RouteKeeps
    DEF SafetyNext
  <1>2. CASE UNCHANGED safetyVars
    BY <1>2 DEF safetyVars, SafetyInductive, BodyWholeAndBounded, ProtectedAdmission,
                NotReadyServesNobody, HostRefused, TooLarge, TooMany
  <1> QED
    BY <1>1, <1>2

\* The inductive invariant holds in every reachable state.
THEOREM SafetyInvariant == SafetySpec => []SafetyInductive
  BY InitSafety, SafetyNextKeeps, PTL DEF SafetySpec

-----------------------------------------------------------------------------
(* Results *)

\* A route is given the whole body and no more than the limits allow, for any
\* limits and any sizes of chunks.
THEOREM BodiesWholeAndBounded == SafetySpec => []BodyWholeAndBounded
  <1>1. SafetyInductive => BodyWholeAndBounded
    BY DEF SafetyInductive
  <1> QED
    BY <1>1, SafetyInvariant, PTL

\* Production and staging run a protected route only for an allowed host and a
\* right key, whatever the rest of the settings.
THEOREM ProtectedRoutesAdmit == SafetySpec => []ProtectedAdmission
  <1>1. SafetyInductive => ProtectedAdmission
    BY DEF SafetyInductive
  <1> QED
    BY <1>1, SafetyInvariant, PTL

\* Readiness and authentication agree in every deployment that starts.
THEOREM ReadinessAgrees == SafetySpec => []NotReadyServesNobody
  <1>1. SafetyInductive => NotReadyServesNobody
    BY DEF SafetyInductive
  <1> QED
    BY <1>1, SafetyInvariant, PTL

\* The bytes of a body add up to a natural number.
LEMMA TotalType ==
    ASSUME NEW sizes \in Seq(Nat)
    PROVE  Total(sizes) \in Nat
  <1> DEFINE N == Len(sizes)
             Sums(f) == f = [n \in 0..N |-> IF n = 0 THEN 0 ELSE f[n - 1] + sizes[n]]
  <1>1. N \in Nat /\ \A n \in 1..N : sizes[n] \in Nat
    OBVIOUS
  <1>2. \E f : Sums(f)
    <2> DEFINE step == [n \in Nat |-> [v \in Nat |-> IF n \in 1..N THEN v + sizes[n] ELSE v]]
    <2>1. step \in [Nat -> [Nat -> Nat]]
      BY <1>1
    <2> HIDE DEF N, step
    <2>2. PICK f : Follows(f, Nat, 0, step, N)
      <3>1. N \in Nat /\ 0 \in Nat
        BY <1>1
      <3> QED
        BY <2>1, <3>1, RecursionExists, Zenon
    <2>3. \A n \in 1..N : f[n] = f[n - 1] + sizes[n]
      <3>1. ASSUME NEW n \in 1..N PROVE f[n] = f[n - 1] + sizes[n]
        <4>1. n \in Nat /\ n - 1 \in 0..N
          BY <1>1
        <4>2. f \in [0..N -> Nat] /\ f[n] = step[n][f[n - 1]]
          BY <2>2 DEF Follows
        <4>3. f[n - 1] \in Nat
          BY <4>1, <4>2
        <4> QED
          BY <4>1, <4>2, <4>3 DEF step
      <3> QED
        BY <3>1
    <2>4. f = [n \in 0..N |-> f[n]]
      BY <2>2 DEF Follows
    <2>5. \A n \in 0..N : f[n] = IF n = 0 THEN 0 ELSE f[n - 1] + sizes[n]
      BY <1>1, <2>2, <2>3 DEF Follows
    <2> QED
      BY <2>4, <2>5
  <1>3. ASSUME NEW f, Sums(f) PROVE f[N] \in Nat
    <2> DEFINE P == {n \in Nat : n \in 0..N => f[n] \in Nat}
    <2>1. \A n \in 0..N : f[n] = IF n = 0 THEN 0 ELSE f[n - 1] + sizes[n]
      BY Zenon, <1>3
    <2> HIDE DEF N, Sums
    <2>2. 0 \in P
      BY <1>1, <2>1
    <2>3. ASSUME NEW n \in Nat, n \in P PROVE n + 1 \in P
      BY <1>1, <2>1, <2>3
    <2> HIDE DEF P
    <2>4. N \in P
      BY <1>1, <2>2, <2>3, NaturalsReached
    <2> QED
      BY <1>1, <2>4 DEF P
  <1>4. Total(sizes) = (CHOOSE f : Sums(f))[N]
    BY DEF Total
  <1> HIDE DEF N, Sums
  <1>5. Sums(CHOOSE f : Sums(f))
    BY <1>2
  <1> QED
    BY <1>3, <1>4, <1>5

\* The types, and what the buffer may still hold while no answer is given.
TypesInductive ==
    /\ SafetyTypeOK
    /\ body \in Seq(Nat)
    /\ reply = NoReply => Len(body) <= MaxChunks

\* The variables keep their types, and the buffer never holds more than one
\* chunk above the limit.
THEOREM SafetyTypesHold == SafetySpec => []SafetyTypeOK
  <1>1. SafetyInit => TypesInductive
    BY LimitsAssumption DEF SafetyInit, TypesInductive, SafetyTypeOK, NoCall, Calls, NoReply
  <1>2. TypesInductive /\ [SafetyNext]_safetyVars => TypesInductive'
    <2> SUFFICES ASSUME TypesInductive, [SafetyNext]_safetyVars PROVE TypesInductive'
      OBVIOUS
    <2> USE DEF TypesInductive, SafetyTypeOK
    <2>1. CASE Start
      BY <2>1 DEF Start
    <2>2. ASSUME NEW c \in Calls \ {NoCall}, Arrive(c) PROVE TypesInductive'
      BY <2>2 DEF Arrive, Rejection, NoReply
    <2>3. ASSUME NEW size \in ChunkSizes, NEW more \in BOOLEAN, Receive(size, more)
          PROVE  TypesInductive'
      <3>1. body' \in Seq(Nat) /\ Len(body') = Len(body) + 1 /\ reply = NoReply
        BY <2>3, LimitsAssumption DEF Receive, Receiving
      <3>2. Len(body') <= MaxChunks + 1
        BY <3>1, LimitsAssumption
      <3>3. reply' = NoReply => Len(body') <= MaxChunks
        BY <2>3, <3>1, LimitsAssumption DEF Receive, TooMany, NoReply
      <3> QED
        BY <2>3, <3>1, <3>2, <3>3 DEF Receive, NoReply
    <2>4. CASE Disconnect
      BY <2>4 DEF Disconnect
    <2>5. CASE Route
      <3>1. seen' \in {NotRead} \cup Nat
        BY <2>5, TotalType DEF Route, Replayed
      <3> QED
        BY <2>5, <3>1 DEF Route, RouteReplies, NoReply
    <2>6. CASE UNCHANGED safetyVars
      BY <2>6 DEF safetyVars
    <2> QED
      BY <2>1, <2>2, <2>3, <2>4, <2>5, <2>6 DEF SafetyNext
  <1>3. TypesInductive => SafetyTypeOK
    BY DEF TypesInductive
  <1> QED
    BY <1>1, <1>2, <1>3, PTL DEF SafetySpec

\* Whatever the settings, a process that starts with the model planner has the
\* router that reaches a model.
THEOREM PlannersHaveModels == SafetySpec => []PlannerHasModel
  <1>1. SafetyInductive => PlannerHasModel
    BY DEF SafetyInductive, PlannerHasModel, Starts, Valid, PlannerPrerequisites, Router
  <1> QED
    BY <1>1, SafetyInvariant, PTL

=============================================================================
