-------------------------- MODULE ResearchDataProofs --------------------------
(***************************************************************************)
(* Proofs about ResearchData, for any number of threads and calls, any     *)
(* catalog and any reference data.                                         *)
(***************************************************************************)
EXTENDS ResearchData, Recursion

-----------------------------------------------------------------------------
(* The inductive invariant *)

\* The shapes of data and threads, without their types.
IsDatum(d) ==
    d = [kind |-> d.kind, company |-> d.company, variant |-> d.variant,
         origin |-> d.origin, availability |-> d.availability, asOf |-> d.asOf,
         source |-> d.source]

ThreadFields ==
    {"pc", "call", "number", "evaluated", "request", "fetched", "status", "data"}

IsThread(th) == th = [f \in ThreadFields |-> th[f]]

\* Data as a port gives it and a cache keeps it.
Sourced(d) ==
    /\ IsDatum(d)
    /\ d.origin \in {"live", "fixture"}
    /\ d.origin = "fixture" <=> d.source = 0
    /\ d.source # 0 => d.kind \in LiveKinds

ClockOK == clock \in Nat /\ calls \in Nat

Busy(th) == th.pc \in {"lookup", "fetch", "store"}

ThreadOK(th) ==
    /\ IsThread(th)
    /\ th.number \in 0..calls
    /\ th.evaluated \in Nat /\ th.evaluated <= clock
    /\ Busy(th) => th.number # 0 /\ th.number \notin DOMAIN stored
    /\ th.pc = "store" /\ th.fetched # NoData =>
          Sourced(th.fetched) /\ th.fetched.source \in {0, th.number}

\* A call number is one thread's.
NumbersOK ==
    /\ threads = [t \in Threads |-> threads[t]]
    /\ \A t, u \in Threads : t # u /\ threads[t].number = threads[u].number =>
                                threads[t].number = 0

StoredOK ==
    /\ DOMAIN stored \subseteq 1..calls
    /\ \A n \in DOMAIN stored : stored[n] \in Nat

\* An entry outlives its storing by TTL and knows the call it came from.
EntryOK(entry) ==
    /\ Sourced(entry.data)
    /\ entry.expires \in Nat
    /\ entry.data.source # 0 => /\ entry.data.source \in DOMAIN stored
                                /\ entry.expires = stored[entry.data.source] + TTL

CacheOK == \A key \in DOMAIN cache : EntryOK(cache[key])

\* What OriginTruthful says of one answer.
OriginOK(a) ==
    LET d == a.data IN
    d # NoData =>
        /\ d.origin = "live" => d.source = a.number
        /\ d.origin = "cached_live" =>
              /\ d.source \notin {0, a.number}
              /\ d.source \in DOMAIN stored
              /\ a.evaluated - stored[d.source] < TTL
        /\ (d.origin = "fixture") <=> (d.source = 0)
        /\ d.source # 0 => d.kind \in LiveKinds

Inductive ==
    /\ ClockOK /\ NumbersOK /\ StoredOK /\ CacheOK
    /\ \A t \in Threads : ThreadOK(threads[t])
    /\ \A t \in Threads : threads[t].pc = "done" => OriginOK(threads[t])

-----------------------------------------------------------------------------
(* Lemmas *)

\* Only a record of all fields is data.
LEMMA DatumIsData == ASSUME NEW d, IsDatum(d) PROVE d # NoData
  <1>1. "company" \in DOMAIN d
    BY DEF IsDatum
  <1>2. "company" \notin DOMAIN NoData
    BY DEF NoData
  <1> QED
    BY <1>1, <1>2

\* The label of a hit: the rest of the data is as it was stored.
LEMMA LabelledFacts ==
    ASSUME NEW d, Sourced(d)
    PROVE  /\ Labelled(d).source = d.source /\ Labelled(d).kind = d.kind
           /\ Labelled(d).company = d.company /\ Labelled(d).variant = d.variant
           /\ Labelled(d) # NoData
           /\ Labelled(d).origin = IF d.source = 0 THEN "fixture" ELSE "cached_live"
  <1>1. CASE d.origin = "live"
    <2>1. Labelled(d) = [kind |-> d.kind, company |-> d.company, variant |-> d.variant,
                         origin |-> "cached_live", availability |-> d.availability,
                         asOf |-> d.asOf, source |-> d.source]
      BY <1>1 DEF Sourced, IsDatum, Labelled
    <2>2. IsDatum(Labelled(d))
      BY <2>1 DEF IsDatum
    <2> QED
      BY <1>1, <2>1, <2>2, DatumIsData DEF Sourced
  <1>2. CASE d.origin # "live"
    BY <1>2, DatumIsData DEF Sourced, Labelled
  <1> QED
    BY <1>1, <1>2

\* One field of a thread is set, the others stay.
LEMMA SetField ==
    ASSUME NEW th, IsThread(th), NEW f \in ThreadFields, NEW v
    PROVE  /\ IsThread([th EXCEPT ![f] = v])
           /\ [th EXCEPT ![f] = v][f] = v
           /\ \A g \in ThreadFields \ {f} : [th EXCEPT ![f] = v][g] = th[g]
  BY DEF IsThread

\* A thread whose call ends.
Ending(th, shown, said) ==
    [th EXCEPT !.pc = "done", !.fetched = NoData, !.data = shown, !.status = said]

\* Four fields of it are set, the others stay.
LEMMA EndingFacts ==
    ASSUME NEW th, IsThread(th), NEW shown, NEW said
    PROVE  /\ IsThread(Ending(th, shown, said))
           /\ Ending(th, shown, said).pc = "done"
           /\ Ending(th, shown, said).number = th.number
           /\ Ending(th, shown, said).evaluated = th.evaluated
           /\ Ending(th, shown, said).call = th.call
           /\ Ending(th, shown, said).data = shown
           /\ Ending(th, shown, said).status = said
  <1> DEFINE one == [th EXCEPT !["pc"] = "done"]
             two == [one EXCEPT !["fetched"] = NoData]
             three == [two EXCEPT !["data"] = shown]
             four == [three EXCEPT !["status"] = said]
  <1>0. {"pc", "fetched", "data", "status", "call", "number", "evaluated"} \subseteq ThreadFields
    BY DEF ThreadFields
  <1>1. IsThread(one) /\ one["pc"] = "done" /\ \A g \in ThreadFields \ {"pc"} : one[g] = th[g]
    BY <1>0, SetField
  <1> HIDE DEF one
  <1>2. IsThread(two) /\ \A g \in ThreadFields \ {"fetched"} : two[g] = one[g]
    BY <1>0, <1>1, SetField
  <1> HIDE DEF two
  <1>3. IsThread(three) /\ three["data"] = shown
          /\ \A g \in ThreadFields \ {"data"} : three[g] = two[g]
    BY <1>0, <1>2, SetField
  <1> HIDE DEF three
  <1>4. IsThread(four) /\ four["status"] = said
          /\ \A g \in ThreadFields \ {"status"} : four[g] = three[g]
    BY <1>0, <1>3, SetField
  <1> HIDE DEF four
  <1>5. /\ four["pc"] = "done" /\ four["data"] = shown /\ four["call"] = th["call"]
        /\ four["number"] = th["number"] /\ four["evaluated"] = th["evaluated"]
    BY <1>0, <1>1, <1>2, <1>3, <1>4
  <1> QED
    BY <1>4, <1>5, Zenon DEF one, two, three, four, Ending

Fine == {"SUCCEEDED", "SUCCESS", "PARTIAL", "OK", "DEGRADED"}

\* What the end of a call makes of its thread: its data is shown or nothing is,
\* and nothing is called a success without data.
LEMMA EndedFacts ==
    ASSUME NEW th, IsThread(th), NEW d
    PROVE  /\ IsThread(Ended(th, d))
           /\ Ended(th, d).pc = "done"
           /\ Ended(th, d).number = th.number
           /\ Ended(th, d).evaluated = th.evaluated
           /\ Ended(th, d).call = th.call
           /\ Ended(th, d).data \in {d, NoData}
           /\ Ended(th, d).data # NoData => Belongs(d, th.request)
           /\ Ended(th, d).status \in Fine => Ended(th, d).data # NoData
  <1> DEFINE status == SnapshotStatus(d, th.request, th.evaluated)
             shown == Evidence(status, d)
             said == Reported(th.call.entry, status)
  <1>1. Ended(th, d) = Ending(th, shown, said)
    BY Zenon DEF Ended, Ending
  <1>2. shown \in {d, NoData}
    BY DEF Evidence
  <1>4. said \in Fine => shown # NoData
    <2>1. status = "UNAVAILABLE" => said \notin Fine
      <3> HIDE DEF status
      <3> QED
        BY DEF Reported, TaskStatus, ToolStatus, Fine
    <2>2. status # "UNAVAILABLE" => d # NoData
      BY DEF SnapshotStatus, Belongs
    <2> HIDE DEF status
    <2> QED
      BY <2>1, <2>2 DEF Evidence
  <1>5. shown # NoData => Belongs(d, th.request)
    BY DEF Evidence, SnapshotStatus
  <1> HIDE DEF shown, said
  <1>3. /\ IsThread(Ended(th, d)) /\ Ended(th, d).pc = "done"
        /\ Ended(th, d).number = th.number /\ Ended(th, d).evaluated = th.evaluated
        /\ Ended(th, d).call = th.call
        /\ Ended(th, d).data = shown /\ Ended(th, d).status = said
    BY <1>1, EndingFacts
  <1> QED
    BY <1>2, <1>3, <1>4, <1>5

\* What the reference data answers is a fixture.
LEMMA FixtureFacts ==
    ASSUME NEW request, FixtureAnswer(request) # NoData
    PROVE  /\ IsDatum(FixtureAnswer(request))
           /\ FixtureAnswer(request).origin = "fixture"
           /\ FixtureAnswer(request).source = 0
  <1>1. ASSUME NEW d, NEW variant, NEW availability
        PROVE  /\ IsDatum(FromFixture(d, variant, availability))
               /\ FromFixture(d, variant, availability).origin = "fixture"
               /\ FromFixture(d, variant, availability).source = 0
    BY DEF IsDatum, FromFixture
  <1>2. ASSUME NEW d
        PROVE  /\ IsDatum(NewsPackage(d, request))
               /\ NewsPackage(d, request).origin = "fixture"
               /\ NewsPackage(d, request).source = 0
    BY <1>1 DEF NewsPackage
  <1> DEFINE d == Fixtures[Min(FixtureHits(request))]
  <1>3. \/ FixtureAnswer(request) = NewsPackage(d, request)
        \/ FixtureAnswer(request) = FromFixture(d, d.variant, d.availability)
    BY Zenon DEF FixtureAnswer
  <1> HIDE DEF d
  <1> QED
    BY <1>1, <1>2, <1>3

\* What the live source answers is live, from this call, and of a live kind.
LEMMA LiveFacts ==
    ASSUME NEW request, NEW number \in Nat \ {0},
           NEW d \in LiveAnswers(request, number), d # NoData
    PROVE  Sourced(d) /\ d.source = number
  <1>1. PICK variant, availability, at :
          request.kind \in LiveKinds /\ d = Live(request, variant, availability, at, number)
    BY DEF LiveAnswers, LiveSeries, LivePackages
  <1> QED
    BY <1>1 DEF Live, Sourced, IsDatum

-----------------------------------------------------------------------------
(* The invariant is inductive *)

\* The history gains at most the call n and forgets nothing.
Grows(n) ==
    /\ DOMAIN stored \subseteq DOMAIN stored'
    /\ DOMAIN stored' \subseteq DOMAIN stored \cup {n}
    /\ \A m \in DOMAIN stored : stored'[m] = stored[m]

\* One thread takes a step and becomes u.
Moves(t, u) ==
    /\ threads' = [threads EXCEPT ![t] = u]
    /\ threads'[t] = u
    /\ \A x \in Threads \ {t} : threads'[x] = threads[x]

\* Nothing a thread relies on is changed by a step of another.
LEMMA Bystander ==
    ASSUME Inductive, NEW x \in Threads, threads'[x] = threads[x],
           clock' \in {clock, clock + 1}, calls' \in {calls, calls + 1},
           NEW n, Grows(n), Busy(threads[x]) => n # threads[x].number
    PROVE  ThreadOK(threads[x])' /\ (threads'[x].pc = "done" => OriginOK(threads[x])')
  <1>1. ThreadOK(threads[x]) /\ clock \in Nat /\ calls \in Nat
    BY DEF Inductive, ClockOK
  <1>2. ThreadOK(threads[x])'
    BY <1>1 DEF ThreadOK, IsThread, ThreadFields, Busy, Grows, Sourced, IsDatum
  <1>3. ASSUME threads'[x].pc = "done" PROVE OriginOK(threads[x])'
    <2>1. OriginOK(threads[x])
      BY <1>3 DEF Inductive
    <2> QED
      BY <2>1 DEF OriginOK, Grows
  <1> QED
    BY <1>2, <1>3

\* A thread that keeps its number leaves all numbers distinct.
LEMMA NumbersKept ==
    ASSUME NumbersOK, NEW t \in Threads, NEW u, Moves(t, u), u.number = threads[t].number
    PROVE  NumbersOK'
  <1>1. threads' = [x \in Threads |-> threads'[x]]
    BY DEF NumbersOK, Moves
  <1>2. \A x \in Threads : threads'[x].number = threads[x].number
    BY DEF Moves
  <1> QED
    BY <1>1, <1>2 DEF NumbersOK

\* What is stored and not touched stays as it should be.
LEMMA CacheKept ==
    ASSUME CacheOK, NEW n, Grows(n), NEW key \in DOMAIN cache, cache'[key] = cache[key]
    PROVE  EntryOK(cache[key])'
  BY DEF CacheOK, EntryOK, Grows, Sourced, IsDatum

\* The initial state.
LEMMA InitInductive == DataInit => Inductive
  <1> SUFFICES ASSUME DataInit PROVE Inductive
    OBVIOUS
  <1>1. ClockOK /\ StoredOK /\ CacheOK
    BY DEF DataInit, ClockOK, StoredOK, CacheOK
  <1>2. /\ Quiet.pc = "idle" /\ Quiet.number = 0 /\ Quiet.evaluated = 0
        /\ IsThread(Quiet)
    BY DEF Quiet, IsThread, ThreadFields
  <1>3. threads = [x \in Threads |-> Quiet] /\ clock = 0 /\ calls = 0
    BY DEF DataInit
  <1>4. \A x \in Threads : ThreadOK(threads[x]) /\ threads[x].pc # "done"
    BY <1>2, <1>3 DEF ThreadOK, Busy
  <1>5. NumbersOK
    BY <1>2, <1>3 DEF NumbersOK
  <1> QED
    BY <1>1, <1>4, <1>5 DEF Inductive

\* The clock.
LEMMA TickInductive == ASSUME Inductive, Tick PROVE Inductive'
  <1>1. /\ clock \in Nat /\ clock' = clock + 1 /\ calls' = calls /\ threads' = threads
        /\ cache' = cache /\ stored' = stored
    BY DEF Inductive, ClockOK, Tick
  <1>2. Grows(0)
    BY <1>1 DEF Grows
  <1>3. \A x \in Threads : Busy(threads[x]) => 0 # threads[x].number
    BY DEF Inductive, ThreadOK
  <1>4. \A x \in Threads :
          ThreadOK(threads[x])' /\ (threads'[x].pc = "done" => OriginOK(threads[x])')
    BY <1>1, <1>2, <1>3, Bystander
  <1>5. ClockOK' /\ StoredOK' /\ NumbersOK'
    BY <1>1 DEF Inductive, ClockOK, StoredOK, NumbersOK
  <1>6. CacheOK'
    BY <1>1, <1>2, CacheKept DEF Inductive, CacheOK
  <1> QED
    BY <1>4, <1>5, <1>6 DEF Inductive

\* A step of one thread: what is left to show is its own thread, and the stores.
LEMMA MoveInductive ==
    ASSUME Inductive, NEW t \in Threads, NEW u, Moves(t, u),
           clock' = clock, calls' \in {calls, calls + 1},
           \/ calls' = calls /\ u.number = threads[t].number
           \/ calls' = calls + 1 /\ u.number = calls + 1,
           Grows(threads[t].number), stored' = stored \/ Busy(threads[t]),
           ThreadOK(threads[t])', threads'[t].pc = "done" => OriginOK(threads[t])',
           StoredOK', CacheOK'
    PROVE  Inductive'
  <1>1. /\ calls \in Nat /\ clock \in Nat /\ NumbersOK
        /\ \A x \in Threads : ThreadOK(threads[x])
    BY DEF Inductive, ClockOK
  <1>2. \A x \in Threads : threads[x].number \in 0..calls
    BY <1>1 DEF ThreadOK
  <1>3. NumbersOK'
    <2>1. CASE u.number = threads[t].number
      BY <1>1, <2>1, NumbersKept
    <2>2. CASE u.number = calls + 1
      <3>1. threads' = [x \in Threads |-> threads'[x]]
        BY <1>1 DEF NumbersOK, Moves
      <3>2. \A x \in Threads \ {t} : threads'[x].number # calls + 1
        BY <1>1, <1>2 DEF Moves
      <3> QED
        BY <1>1, <2>2, <3>1, <3>2 DEF NumbersOK, Moves
    <2> QED
      BY <2>1, <2>2
  <1>4. ASSUME NEW x \in Threads \ {t}
        PROVE  ThreadOK(threads[x])' /\ (threads'[x].pc = "done" => OriginOK(threads[x])')
    <2>1. threads'[x] = threads[x]
      BY DEF Moves
    <2>2. CASE stored' = stored
      <3>1. Grows(0)
        BY <2>2 DEF Grows
      <3>2. Busy(threads[x]) => 0 # threads[x].number
        BY <1>1 DEF ThreadOK
      <3> QED
        BY <2>1, <3>1, <3>2, Bystander
    <2>3. CASE Busy(threads[t])
      <3>1. Busy(threads[x]) => threads[t].number # threads[x].number
        BY <1>1, <2>3 DEF ThreadOK, NumbersOK
      <3> QED
        BY <2>1, <3>1, Bystander
    <2> QED
      BY <2>2, <2>3
  <1>5. ClockOK'
    BY <1>1 DEF ClockOK
  <1> QED
    BY <1>3, <1>4, <1>5 DEF Inductive

\* What a step of one thread does to the threads.
LEMMA MovesFacts ==
    ASSUME NumbersOK, NEW t \in Threads, NEW u, threads' = [threads EXCEPT ![t] = u]
    PROVE  Moves(t, u)
  BY DEF NumbersOK, Moves

\* A new call has stored nothing.
LEMMA BeginCallInductive ==
    ASSUME Inductive, NEW t \in Threads, NEW c \in Calls, BeginCall(t, c)
    PROVE  Inductive'
  <1> DEFINE resolution == Resolve(c.query)
             listing == SelectListing(resolution.listings, c)
             answer == AtOnce(c, Withheld(c, resolution, listing))
             asked == Request(c, resolution, listing)
             u == [pc |-> IF answer = "ASK" THEN "lookup" ELSE "done", call |-> c,
                   number |-> calls + 1, evaluated |-> clock, request |-> asked,
                   fetched |-> NoData, status |-> answer, data |-> NoData]
  <1>1. /\ NumbersOK /\ StoredOK /\ CacheOK /\ clock \in Nat /\ calls \in Nat
    BY DEF Inductive, ClockOK
  <1>2. threads' = [threads EXCEPT ![t] = u]
    BY Zenon DEF BeginCall
  <1>3. /\ calls' = calls + 1 /\ clock' = clock /\ cache' = cache /\ stored' = stored
    BY DEF BeginCall
  <1> HIDE DEF answer, asked
  <1>4. /\ IsThread(u) /\ u.number = calls + 1 /\ u.evaluated = clock
        /\ u.pc \in {"lookup", "done"} /\ u.fetched = NoData /\ u.data = NoData
    BY DEF IsThread, ThreadFields
  <1> HIDE DEF u
  <1>5. Moves(t, u)
    BY <1>1, <1>2, MovesFacts
  <1>6. calls + 1 \notin DOMAIN stored
    BY <1>1 DEF StoredOK
  <1>7. ThreadOK(threads[t])' /\ OriginOK(threads[t])'
    BY <1>1, <1>3, <1>4, <1>5, <1>6 DEF Moves, ThreadOK, IsThread, ThreadFields, Busy, OriginOK
  <1>8. Grows(threads[t].number) /\ StoredOK'
    BY <1>1, <1>3 DEF Grows, StoredOK
  <1>9. CacheOK'
    BY <1>1, <1>3, <1>8, CacheKept DEF CacheOK
  <1> QED
    BY <1>3, <1>4, <1>5, <1>7, <1>8, <1>9, MoveInductive

\* An entry that has not expired answers truthfully whoever did not store it.
LEMMA HitTruthful ==
    ASSUME Inductive, NEW t \in Threads, Busy(threads[t]),
           NEW entry, EntryOK(entry), entry.expires > clock
    PROVE  LET a == Ended(threads[t], Labelled(entry.data)) IN
           /\ IsThread(a) /\ a.pc = "done" /\ a.number = threads[t].number
           /\ a.evaluated = threads[t].evaluated /\ OriginOK(a)
  <1> DEFINE th == threads[t]
             d == Labelled(entry.data)
  <1>1. /\ ThreadOK(th) /\ StoredOK /\ clock \in Nat /\ TTL \in Nat
    BY DataAssumption DEF Inductive, ClockOK
  <1>2. /\ d.source = entry.data.source /\ d.kind = entry.data.kind
        /\ d.origin = IF d.source = 0 THEN "fixture" ELSE "cached_live"
    BY LabelledFacts DEF EntryOK
  <1>3. /\ entry.data.source # 0 =>
             /\ entry.data.source \in DOMAIN stored
             /\ entry.expires = stored[entry.data.source] + TTL
             /\ entry.data.kind \in LiveKinds
        /\ entry.expires \in Nat
    BY DEF EntryOK, Sourced
  <1>4. th.number \notin DOMAIN stored /\ th.evaluated \in Nat /\ th.evaluated <= clock
        /\ IsThread(th)
    BY <1>1 DEF ThreadOK
  <1> HIDE DEF d, th
  <1>5. d.source # 0 => /\ d.source # th.number
                        /\ d.source \in DOMAIN stored
                        /\ th.evaluated - stored[d.source] < TTL
    BY <1>1, <1>2, <1>3, <1>4 DEF StoredOK
  <1>6. /\ IsThread(Ended(th, d)) /\ Ended(th, d).pc = "done"
        /\ Ended(th, d).number = th.number /\ Ended(th, d).evaluated = th.evaluated
        /\ Ended(th, d).data \in {d, NoData}
    BY <1>4, EndedFacts
  <1>7. OriginOK(Ended(th, d))
    BY <1>2, <1>3, <1>5, <1>6 DEF OriginOK
  <1> QED
    BY <1>6, <1>7 DEF d, th

\* The first look at the cache.
LEMMA LookUpInductive ==
    ASSUME Inductive, NEW t \in Threads, LookUp(t)
    PROVE  Inductive'
  <1> DEFINE th == threads[t]
             key == Key(th.request)
             hit == Ended(th, Labelled(cache[key].data))
             miss == [th EXCEPT !["pc"] = "fetch"]
  <1>1. /\ ThreadOK(th) /\ NumbersOK /\ StoredOK /\ CacheOK /\ clock \in Nat
        /\ calls \in Nat /\ th.pc = "lookup"
    BY DEF Inductive, ClockOK, LookUp
  <1>2. /\ calls' = calls /\ clock' = clock /\ cache' = cache /\ stored' = stored
        /\ threads' = [threads EXCEPT ![t] = IF Unexpired(key) THEN hit ELSE miss]
    BY Zenon DEF LookUp
  <1> HIDE DEF hit, miss
  <1>3. Grows(th.number) /\ StoredOK'
    BY <1>1, <1>2 DEF Grows, StoredOK
  <1>4. CacheOK'
    BY <1>1, <1>2, <1>3, CacheKept DEF CacheOK
  <1>5. CASE Unexpired(key)
    <2>1. threads' = [threads EXCEPT ![t] = hit]
      BY <1>2, <1>5
    <2>2. Moves(t, hit)
      BY <1>1, <2>1, MovesFacts
    <2>3. EntryOK(cache[key]) /\ cache[key].expires > clock /\ Busy(threads[t])
      BY <1>1, <1>5 DEF CacheOK, Unexpired, Busy
    <2>4. /\ IsThread(hit) /\ hit.pc = "done" /\ hit.number = th.number
          /\ hit.evaluated = th.evaluated /\ OriginOK(hit)
      BY <2>3, HitTruthful DEF hit
    <2> HIDE DEF th
    <2>5. ThreadOK(threads[t])' /\ OriginOK(threads[t])'
      BY <1>1, <1>2, <2>2, <2>4 DEF Moves, ThreadOK, IsThread, ThreadFields, Busy, OriginOK
    <2> QED
      BY <1>2, <1>3, <1>4, <2>2, <2>4, <2>5, MoveInductive DEF th
  <1>6. CASE ~Unexpired(key)
    <2>1. threads' = [threads EXCEPT ![t] = miss]
      BY <1>2, <1>6
    <2>2. Moves(t, miss)
      BY <1>1, <2>1, MovesFacts
    <2>3. "pc" \in ThreadFields
      BY DEF ThreadFields
    <2>4. IsThread(miss) /\ miss["pc"] = "fetch" /\ \A g \in ThreadFields \ {"pc"} : miss[g] = th[g]
      BY <1>1, <2>3, SetField DEF miss, ThreadOK
    <2>5. miss.number = th.number /\ miss.evaluated = th.evaluated
      BY <2>4 DEF ThreadFields
    <2> HIDE DEF th
    <2>6. ThreadOK(threads[t])' /\ threads'[t].pc # "done"
      BY <1>1, <1>2, <2>2, <2>4, <2>5 DEF Moves, ThreadOK, IsThread, ThreadFields, Busy
    <2> QED
      BY <1>2, <1>3, <1>4, <2>2, <2>5, <2>6, MoveInductive DEF th
  <1> QED
    BY <1>5, <1>6

\* The port gives a fixture, or what this call fetched live, or nothing.
LEMMA FetchInductive ==
    ASSUME Inductive, NEW t \in Threads, Fetch(t)
    PROVE  Inductive'
  <1> DEFINE th == threads[t]
             fixture == FixtureAnswer(th.request)
  <1>1. /\ ThreadOK(th) /\ NumbersOK /\ StoredOK /\ CacheOK /\ clock \in Nat
        /\ calls \in Nat /\ th.pc = "fetch" /\ th.number \in Nat \ {0}
    BY DEF Inductive, ClockOK, Fetch, ThreadOK, Busy
  <1>2. /\ calls' = calls /\ clock' = clock /\ cache' = cache /\ stored' = stored
    BY DEF Fetch
  <1>3. PICK live \in LiveAnswers(th.request, th.number) :
          threads' = [threads EXCEPT ![t].pc = "store",
                        ![t].fetched = IF th.request.kind = "market"
                                       THEN MarketFallback(live, fixture)
                                       ELSE FinancialFallback(live, fixture)]
    BY Zenon DEF Fetch
  <1> DEFINE got == IF th.request.kind = "market" THEN MarketFallback(live, fixture)
                    ELSE FinancialFallback(live, fixture)
             one == [th EXCEPT !["pc"] = "store"]
             two == [one EXCEPT !["fetched"] = got]
  <1>4. got \in {live, fixture}
    BY DEF MarketFallback, FinancialFallback
  <1>5. ASSUME got # NoData PROVE Sourced(got) /\ got.source \in {0, th.number}
    <2>1. CASE got = live
      BY <1>1, <1>5, <2>1, LiveFacts
    <2>2. CASE got = fixture
      <3>1. /\ IsDatum(fixture) /\ fixture.origin = "fixture" /\ fixture.source = 0
        BY <1>5, <2>2, FixtureFacts
      <3> HIDE DEF got, fixture
      <3> QED
        BY <2>2, <3>1 DEF Sourced, IsDatum
    <2> QED
      BY <1>4, <2>1, <2>2
  <1> HIDE DEF got
  <1>6. threads' = [threads EXCEPT ![t] = two]
    BY <1>1, <1>3 DEF NumbersOK, ThreadOK, IsThread, got
  <1>7. Moves(t, two)
    BY <1>1, <1>6, MovesFacts
  <1>8. {"pc", "fetched", "number", "evaluated"} \subseteq ThreadFields
    BY DEF ThreadFields
  <1>9. IsThread(one) /\ one["pc"] = "store" /\ \A g \in ThreadFields \ {"pc"} : one[g] = th[g]
    BY <1>1, <1>8, SetField DEF ThreadOK
  <1> HIDE DEF one
  <1>10. IsThread(two) /\ two["fetched"] = got
           /\ \A g \in ThreadFields \ {"fetched"} : two[g] = one[g]
    BY <1>8, <1>9, SetField
  <1> HIDE DEF two
  <1>11. /\ two.pc = "store" /\ two.fetched = got
         /\ two.number = th.number /\ two.evaluated = th.evaluated
    BY <1>8, <1>9, <1>10
  <1>12. Grows(th.number) /\ StoredOK'
    BY <1>1, <1>2 DEF Grows, StoredOK
  <1>13. CacheOK'
    BY <1>1, <1>2, <1>12, CacheKept DEF CacheOK
  <1> HIDE DEF th
  <1>14. ThreadOK(threads[t])' /\ threads'[t].pc # "done"
    BY <1>1, <1>2, <1>5, <1>7, <1>10, <1>11
       DEF Moves, ThreadOK, IsThread, ThreadFields, Busy, Sourced, IsDatum
  <1> QED
    BY <1>2, <1>7, <1>11, <1>12, <1>13, <1>14, MoveInductive DEF th

\* Storing: the call's own data enters the cache, or what is there answers it.
LEMMA StoreDataInductive ==
    ASSUME Inductive, NEW t \in Threads, StoreData(t)
    PROVE  Inductive'
  <1> DEFINE th == threads[t]
             key == Key(th.request)
             data == th.fetched
             hit == Ended(th, Labelled(cache[key].data))
             own == Ended(th, data)
  <1>1. /\ ThreadOK(th) /\ NumbersOK /\ StoredOK /\ CacheOK /\ clock \in Nat
        /\ calls \in Nat /\ th.pc = "store" /\ Busy(th)
        /\ th.number \in 1..calls /\ th.number \notin DOMAIN stored /\ TTL \in Nat
    BY DataAssumption DEF Inductive, ClockOK, StoreData, ThreadOK, Busy
  <1>2. /\ calls' = calls /\ clock' = clock
    BY DEF StoreData
  <1>3. CASE Unexpired(key)
    <2>1. /\ threads' = [threads EXCEPT ![t] = hit]
          /\ cache' = cache /\ stored' = stored
      BY <1>3 DEF StoreData, StillFresh
    <2>2. Moves(t, hit)
      BY <1>1, <2>1, MovesFacts
    <2>3. EntryOK(cache[key]) /\ cache[key].expires > clock
      BY <1>1, <1>3 DEF CacheOK, Unexpired
    <2>4. /\ IsThread(hit) /\ hit.pc = "done" /\ hit.number = th.number
          /\ hit.evaluated = th.evaluated /\ OriginOK(hit)
      BY <1>1, <2>3, HitTruthful
    <2>5. Grows(th.number) /\ StoredOK'
      BY <1>1, <1>2, <2>1 DEF Grows, StoredOK
    <2>6. CacheOK'
      BY <1>1, <2>1, <2>5, CacheKept DEF CacheOK
    <2> HIDE DEF th, hit
    <2>7. ThreadOK(threads[t])' /\ OriginOK(threads[t])'
      BY <1>1, <1>2, <2>1, <2>2, <2>4
         DEF Moves, ThreadOK, IsThread, ThreadFields, Busy, OriginOK
    <2> QED
      BY <1>2, <2>1, <2>2, <2>4, <2>5, <2>6, <2>7, MoveInductive DEF th
  <1>4. CASE ~Unexpired(key)
    <2>1. threads' = [threads EXCEPT ![t] = own]
      BY <1>4 DEF StoreData, StillFresh
    <2>2. Moves(t, own)
      BY <1>1, <2>1, MovesFacts
    <2>3. /\ IsThread(own) /\ own.pc = "done" /\ own.number = th.number
          /\ own.evaluated = th.evaluated /\ own.data \in {data, NoData}
      BY <1>1, EndedFacts DEF ThreadOK
    <2>4. data # NoData => Sourced(data) /\ data.source \in {0, th.number}
      BY <1>1 DEF ThreadOK
    <2>5. OriginOK(own)
      BY <2>3, <2>4 DEF OriginOK, Sourced
    <2>6. CASE data = NoData
      <3>1. /\ stored' = stored /\ cache' = Restrict(cache, DOMAIN cache \ {key})
        BY <1>4, <2>6 DEF StoreData, StillFresh
      <3>2. Grows(th.number) /\ StoredOK'
        BY <1>1, <1>2, <3>1 DEF Grows, StoredOK
      <3>3. \A k \in DOMAIN cache' : k \in DOMAIN cache /\ cache'[k] = cache[k]
        BY <3>1 DEF Restrict
      <3>4. CacheOK'
        BY <1>1, <3>2, <3>3, CacheKept DEF CacheOK
      <3> HIDE DEF th, own
      <3>5. ThreadOK(threads[t])' /\ OriginOK(threads[t])'
        BY <1>1, <1>2, <2>2, <2>3, <2>5, <3>1
           DEF Moves, ThreadOK, IsThread, ThreadFields, Busy, OriginOK
      <3> QED
        BY <1>2, <2>2, <2>3, <3>1, <3>2, <3>4, <3>5, MoveInductive DEF th
    <2>7. CASE data # NoData
      <3>1. /\ stored' = [n \in DOMAIN stored \cup {th.number} |->
                            IF n = th.number THEN clock ELSE stored[n]]
            /\ cache' = [k \in DOMAIN cache \cup {key} |->
                           IF k = key THEN [data |-> data, expires |-> clock + TTL]
                           ELSE cache[k]]
        BY <1>4, <2>7 DEF StoreData, StillFresh
      <3> HIDE DEF th, own, key
      <3>2. /\ DOMAIN stored' = DOMAIN stored \cup {th.number}
            /\ stored'[th.number] = clock
            /\ \A n \in DOMAIN stored : stored'[n] = stored[n]
        BY <1>1, <3>1
      <3>3. Grows(th.number) /\ StoredOK'
        BY <1>1, <1>2, <3>2 DEF Grows, StoredOK
      <3>4. Sourced(data) /\ data.source \in {0, th.number} /\ clock + TTL \in Nat
        BY <1>1, <2>4, <2>7
      <3>5. CacheOK'
        <4> SUFFICES ASSUME NEW k \in DOMAIN cache' PROVE EntryOK(cache[k])'
          BY DEF CacheOK
        <4>1. CASE k = key
          <5>1. cache'[k] = [data |-> data, expires |-> clock + TTL]
            BY <3>1, <4>1
          <5> HIDE DEF data
          <5> QED
            BY <1>1, <3>2, <3>4, <5>1 DEF EntryOK, Sourced, IsDatum
        <4>2. CASE k # key
          BY <1>1, <3>1, <3>3, <4>2, CacheKept
        <4> QED
          BY <4>1, <4>2
      <3>6. ThreadOK(threads[t])' /\ OriginOK(threads[t])'
        BY <1>1, <1>2, <2>2, <2>3, <2>4, <3>2
           DEF Moves, ThreadOK, IsThread, ThreadFields, Busy, OriginOK, Sourced, IsDatum
      <3> QED
        BY <1>1, <1>2, <2>2, <2>3, <3>3, <3>5, <3>6, MoveInductive DEF th
    <2> QED
      BY <2>6, <2>7
  <1> QED
    BY <1>3, <1>4

\* The inductive invariant holds in every reachable state.
THEOREM DataInvariant == DataSpec => []Inductive
  <1>1. ASSUME Inductive, [DataNext]_dataVars PROVE Inductive'
    <2>1. CASE Tick
      BY <1>1, <2>1, TickInductive
    <2>2. ASSUME NEW t \in Threads, NEW c \in Calls, BeginCall(t, c) PROVE Inductive'
      BY <1>1, <2>2, BeginCallInductive
    <2>3. ASSUME NEW t \in Threads, LookUp(t) PROVE Inductive'
      BY <1>1, <2>3, LookUpInductive
    <2>4. ASSUME NEW t \in Threads, Fetch(t) PROVE Inductive'
      BY <1>1, <2>4, FetchInductive
    <2>5. ASSUME NEW t \in Threads, StoreData(t) PROVE Inductive'
      BY <1>1, <2>5, StoreDataInductive
    <2>6. CASE UNCHANGED dataVars
      BY <1>1, <2>6 DEF dataVars, Inductive, ClockOK, NumbersOK, StoredOK, CacheOK, EntryOK,
                        ThreadOK, IsThread, ThreadFields, Busy, OriginOK, Sourced, IsDatum
    <2> QED
      BY <1>1, <2>1, <2>2, <2>3, <2>4, <2>5, <2>6 DEF DataNext
  <1> QED
    BY InitInductive, <1>1, PTL DEF DataSpec

\* Whatever calls fetch and store in whatever order, an answer names its source
\* truly (GetOrLoad of the snapshot caches).
THEOREM OriginStaysTruthful == DataSpec => []OriginTruthful
  <1>1. Inductive => OriginTruthful
    BY DEF Inductive, OriginTruthful, OriginOK, Shown, Answers
  <1> QED
    BY DataInvariant, <1>1, PTL

\* A live entry outlasts every call that comes back late.
THEOREM LiveEntryStays == DataSpec => FreshEntryKept
  <1> DEFINE Kept == \A key \in DOMAIN cache :
                        cache[key].expires > clock =>
                            key \in DOMAIN cache' /\ cache'[key] = cache[key]
  <1>1. ASSUME NEW t \in Threads, StoreData(t) PROVE Kept
    <2> DEFINE key == Key(threads[t].request)
               data == threads[t].fetched
    <2>1. CASE Unexpired(key)
      BY <1>1, <2>1 DEF StoreData, StillFresh
    <2>2. CASE ~Unexpired(key) /\ data # NoData
      BY <1>1, <2>2 DEF StoreData, StillFresh, Unexpired
    <2>3. CASE ~Unexpired(key) /\ data = NoData
      BY <1>1, <2>3 DEF StoreData, StillFresh, Unexpired, Restrict
    <2> QED
      BY <2>1, <2>2, <2>3
  <1>2. [DataNext]_dataVars => [Kept]_dataVars
    BY <1>1 DEF DataNext, Tick, BeginCall, LookUp, Fetch, dataVars
  <1> QED
    BY <1>2, PTL DEF DataSpec, FreshEntryKept

-----------------------------------------------------------------------------
(* Refused calls *)

\* A tool call that must not run.
Refused(c) ==
    /\ c.entry = "tool"
    /\ \/ c.capability \notin Registered
       \/ c.capability \in Unavailable
       \/ c.arguments # "ok"
       \/ Resolve(c.query).status # "RESOLVED"

\* What RefusedLeavesNoTrace says of one answer.
TraceOK(a) ==
    /\ Refused(a.call) =>
          /\ a.data = NoData /\ a.number \notin DOMAIN stored
          /\ a.status \in {"REJECTED", "FAILED", "FINAL_ANSWER"}
    /\ a.status \in Fine => (a.data # NoData <=> a.call.capability # "company_resolution")

\* A refused call never gets to the cache.
GateOK(th) ==
    /\ Busy(th) => ~Refused(th.call) /\ th.call.capability # "company_resolution"
    /\ th.pc = "done" => TraceOK(th)

GatesInductive == \A t \in Threads : GateOK(threads[t])

\* A query resolves to one company or is answered with one of three statuses.
LEMMA ResolveStatus ==
    ASSUME NEW q
    PROVE  Resolve(q).status \in {"RESOLVED", "INVALID", "AMBIGUOUS", "NOT_FOUND"}
  <1>1. ASSUME NEW hits, NEW ticker
        PROVE  Finalized(hits, q, ticker).status \in {"RESOLVED", "AMBIGUOUS", "NOT_FOUND"}
    BY DEF Finalized, Resolved, Unresolved
  <1>2. ByText(q).status \in {"RESOLVED", "AMBIGUOUS", "NOT_FOUND"}
    BY <1>1 DEF ByText, Unresolved
  <1> QED
    BY <1>1, <1>2 DEF Resolve, Unresolved

\* What the gates let through, and how they answer the rest.
LEMMA GateFacts ==
    ASSUME NEW c, NEW listing
    PROVE  LET answer == AtOnce(c, Withheld(c, Resolve(c.query), listing)) IN
           /\ answer = "ASK" => ~Refused(c) /\ c.capability # "company_resolution"
           /\ Refused(c) => answer \in {"REJECTED", "FAILED", "FINAL_ANSWER"}
           /\ answer \in Fine => c.capability = "company_resolution"
  <1> DEFINE withheld == Withheld(c, Resolve(c.query), listing)
  <1>1. /\ withheld \in {"INVALID", "RESOLUTION_BLOCKED", "OK", "UNAVAILABLE", "ASK"}
        /\ Resolve(c.query).status # "RESOLVED" => withheld \in {"INVALID", "RESOLUTION_BLOCKED"}
        /\ withheld = "OK" => c.capability = "company_resolution"
        /\ withheld = "ASK" => c.capability # "company_resolution"
    BY ResolveStatus DEF Withheld
  <1> HIDE DEF withheld
  <1>2. Refused(c) => Declines(c) \/ Resolve(c.query).status # "RESOLVED"
    BY DEF Refused, Declines, NotOffered
  <1>3. CASE c.entry = "tool" /\ Declines(c)
    BY <1>3 DEF AtOnce, Declined, Fine, withheld
  <1>4. CASE ~(c.entry = "tool" /\ Declines(c)) /\ withheld = "ASK"
    <2>1. AtOnce(c, withheld) = "ASK"
      BY <1>4 DEF AtOnce
    <2> QED
      BY <1>1, <1>2, <1>4, <2>1 DEF Refused, Fine, withheld
  <1>5. CASE ~(c.entry = "tool" /\ Declines(c)) /\ withheld # "ASK"
    <2>1. AtOnce(c, withheld) = Reported(c.entry, withheld)
      BY <1>5 DEF AtOnce
    <2>2. Reported(c.entry, withheld) # "ASK"
      BY <1>1, <1>5 DEF Reported, TaskStatus, ToolStatus
    <2>3. Refused(c) => Reported(c.entry, withheld) = "FAILED"
      BY <1>1, <1>2, <1>5 DEF Reported, TaskStatus, ToolStatus, Refused
    <2>4. Reported(c.entry, withheld) \in Fine => withheld = "OK"
      BY <1>1, <1>5 DEF Reported, TaskStatus, ToolStatus, Fine
    <2> QED
      BY <1>1, <2>1, <2>2, <2>3, <2>4 DEF withheld
  <1> QED
    BY <1>3, <1>4, <1>5

\* Another thread's gate stays as it is.
LEMMA GateBystander ==
    ASSUME NEW x \in Threads, GateOK(threads[x]), threads'[x] = threads[x],
           NEW n, Grows(n), threads[x].pc = "done" => n # threads[x].number
    PROVE  GateOK(threads[x])'
  BY DEF GateOK, TraceOK, Grows, Busy, Fine, Refused

\* The end of a call that the gates let through.
LEMMA EndingGate ==
    ASSUME NEW t \in Threads, GateOK(threads[t]), Busy(threads[t]), IsThread(threads[t]),
           NEW d, Moves(t, Ended(threads[t], d))
    PROVE  GateOK(threads[t])'
  <1> DEFINE th == threads[t]
  <1>1. /\ Ended(th, d).pc = "done" /\ Ended(th, d).call = th.call
        /\ Ended(th, d).status \in Fine => Ended(th, d).data # NoData
    BY EndedFacts
  <1>2. ~Refused(th.call) /\ th.call.capability # "company_resolution"
    BY DEF GateOK
  <1>3. threads'[t].pc = "done" /\ threads'[t].call = th.call
        /\ (threads'[t].status \in Fine => threads'[t].data # NoData)
    BY <1>1 DEF Moves
  <1> HIDE DEF th
  <1> QED
    BY <1>2, <1>3 DEF GateOK, TraceOK, Busy, Fine, Refused

\* A step of a thread under way stores under no finished thread's number.
LEMMA StepGates ==
    ASSUME Inductive, GatesInductive, NEW t \in Threads, NEW u, Moves(t, u),
           Grows(threads[t].number), stored' = stored \/ Busy(threads[t]),
           GateOK(threads[t])'
    PROVE  GatesInductive'
  <1> SUFFICES ASSUME NEW x \in Threads PROVE GateOK(threads[x])'
    BY DEF GatesInductive
  <1>1. CASE x = t
    BY <1>1
  <1>2. CASE x # t
    <2>1. threads'[x] = threads[x] /\ GateOK(threads[x])
      BY <1>2 DEF Moves, GatesInductive
    <2>2. CASE stored' = stored
      BY <2>1, <2>2 DEF GateOK, TraceOK, Busy, Fine, Refused
    <2>3. CASE Busy(threads[t])
      <3>1. threads[t].number # threads[x].number
        BY <1>2, <2>3 DEF Inductive, NumbersOK, ThreadOK
      <3> QED
        BY <2>1, <3>1, GateBystander
    <2> QED
      BY <2>2, <2>3
  <1> QED
    BY <1>1, <1>2

\* The gates decide before the thread can touch anything.
LEMMA BeginCallGates ==
    ASSUME Inductive, GatesInductive, NEW t \in Threads, NEW c \in Calls, BeginCall(t, c)
    PROVE  GatesInductive'
  <1> DEFINE resolution == Resolve(c.query)
             listing == SelectListing(resolution.listings, c)
             answer == AtOnce(c, Withheld(c, resolution, listing))
             asked == Request(c, resolution, listing)
             u == [pc |-> IF answer = "ASK" THEN "lookup" ELSE "done", call |-> c,
                   number |-> calls + 1, evaluated |-> clock, request |-> asked,
                   fetched |-> NoData, status |-> answer, data |-> NoData]
  <1>1. threads' = [threads EXCEPT ![t] = u] /\ stored' = stored
    BY Zenon DEF BeginCall
  <1>2. /\ answer = "ASK" => ~Refused(c) /\ c.capability # "company_resolution"
        /\ Refused(c) => answer \in {"REJECTED", "FAILED", "FINAL_ANSWER"}
        /\ answer \in Fine => c.capability = "company_resolution"
    BY GateFacts
  <1> HIDE DEF answer, asked
  <1>3. /\ u.pc = IF answer = "ASK" THEN "lookup" ELSE "done"
        /\ u.call = c /\ u.number = calls + 1 /\ u.status = answer /\ u.data = NoData
    OBVIOUS
  <1> HIDE DEF u
  <1>4. Moves(t, u)
    BY <1>1, MovesFacts DEF Inductive
  <1>5. calls + 1 \notin DOMAIN stored
    BY DEF Inductive, StoredOK, ClockOK
  <1>6. GateOK(u)
    BY <1>2, <1>3, <1>5 DEF GateOK, TraceOK, Busy, Fine
  <1>7. GateOK(threads[t])'
    BY <1>1, <1>4, <1>6 DEF Moves, GateOK, TraceOK, Busy, Fine, Refused
  <1>8. Grows(threads[t].number)
    BY <1>1 DEF Grows
  <1> QED
    BY <1>1, <1>4, <1>7, <1>8, StepGates

\* Going on to the port, or from it, keeps the call.
LEMMA GoingOnGate ==
    ASSUME NEW t \in Threads, GateOK(threads[t]), Busy(threads[t]),
           threads'[t].call = threads[t].call, threads'[t].pc # "done"
    PROVE  GateOK(threads[t])'
  BY DEF GateOK, Busy, Refused

\* The cache's two sections and the fetch between them.
LEMMA CacheGates ==
    ASSUME Inductive, GatesInductive, NEW t \in Threads,
           LookUp(t) \/ Fetch(t) \/ StoreData(t)
    PROVE  GatesInductive'
  <1> DEFINE th == threads[t]
             key == Key(th.request)
             hit == Ended(th, Labelled(cache[key].data))
             own == Ended(th, th.fetched)
  <1>1. Busy(th)
    BY DEF LookUp, Fetch, StoreData, Busy
  <1>2. /\ IsThread(th) /\ th.number \notin DOMAIN stored /\ NumbersOK
        /\ GateOK(th)
    BY <1>1 DEF Inductive, ThreadOK, GatesInductive
  <1>3. Grows(th.number)
    <2>1. stored' = stored \/ stored' = [n \in DOMAIN stored \cup {th.number} |->
                                           IF n = th.number THEN clock ELSE stored[n]]
      BY DEF LookUp, Fetch, StoreData
    <2> HIDE DEF th
    <2> QED
      BY <1>2, <2>1 DEF Grows
  <1>4. ASSUME NEW d, threads' = [threads EXCEPT ![t] = Ended(th, d)]
        PROVE  GatesInductive'
    <2> DEFINE u == Ended(th, d)
    <2>1. Moves(t, u)
      BY <1>2, <1>4, MovesFacts
    <2>2. GateOK(threads[t])'
      BY <1>1, <1>2, <2>1, EndingGate
    <2> HIDE DEF u
    <2> QED
      BY <1>1, <1>3, <2>1, <2>2, StepGates
  <1>5. ASSUME NEW u, threads' = [threads EXCEPT ![t] = u], u.call = th.call, u.pc # "done"
        PROVE  GatesInductive'
    <2>1. Moves(t, u)
      BY <1>2, <1>5, MovesFacts
    <2>2. GateOK(threads[t])'
      BY <1>1, <1>2, <1>5, <2>1, GoingOnGate DEF Moves
    <2> QED
      BY <1>1, <1>3, <2>1, <2>2, StepGates
  <1>6. CASE LookUp(t)
    <2> DEFINE miss == [th EXCEPT !["pc"] = "fetch"]
    <2>1. threads' = [threads EXCEPT ![t] = IF Unexpired(key) THEN hit ELSE miss]
      BY <1>6, Zenon DEF LookUp
    <2>2. "pc" \in ThreadFields /\ "call" \in ThreadFields \ {"pc"}
      BY DEF ThreadFields
    <2>3. IsThread(miss) /\ miss["pc"] = "fetch" /\ miss["call"] = th["call"]
      BY <1>2, <2>2, SetField
    <2> HIDE DEF miss, hit
    <2>4. CASE Unexpired(key)
      <3>1. threads' = [threads EXCEPT ![t] = hit]
        BY <2>1, <2>4
      <3> QED
        BY <1>4, <3>1 DEF hit
    <2>5. CASE ~Unexpired(key)
      <3>1. threads' = [threads EXCEPT ![t] = miss] /\ miss.call = th.call /\ miss.pc # "done"
        BY <2>1, <2>3, <2>5
      <3> QED
        BY <1>5, <3>1
    <2> QED
      BY <2>4, <2>5
  <1>7. CASE Fetch(t)
    <2>1. PICK got : threads' = [threads EXCEPT ![t].pc = "store", ![t].fetched = got]
      BY <1>7, Zenon DEF Fetch
    <2> DEFINE one == [th EXCEPT !["pc"] = "store"]
               two == [one EXCEPT !["fetched"] = got]
    <2>2. threads' = [threads EXCEPT ![t] = two]
      BY <1>2, <2>1 DEF NumbersOK, IsThread
    <2>3. /\ "pc" \in ThreadFields /\ "fetched" \in ThreadFields
          /\ {"call", "fetched"} \subseteq ThreadFields \ {"pc"}
          /\ {"call", "pc"} \subseteq ThreadFields \ {"fetched"}
      BY DEF ThreadFields
    <2>4. IsThread(one) /\ one["pc"] = "store" /\ one["call"] = th["call"]
      BY <1>2, <2>3, SetField
    <2> HIDE DEF one
    <2>5. two["pc"] = "store" /\ two["call"] = th["call"]
      BY <2>3, <2>4, SetField
    <2> HIDE DEF two
    <2>6. two.call = th.call /\ two.pc # "done"
      BY <2>5
    <2> QED
      BY <1>5, <2>2, <2>6
  <1>8. CASE StoreData(t)
    <2>1. threads' = [threads EXCEPT ![t] = hit] \/ threads' = [threads EXCEPT ![t] = own]
      BY <1>8 DEF StoreData
    <2> QED
      BY <1>4, <2>1
  <1> QED
    BY <1>6, <1>7, <1>8

\* However calls interleave, a refused tool call leaves nothing behind, and
\* nothing is called a success without data (_execute_tool_call, adapt_*_result).
THEOREM RefusedStaysTraceless == DataSpec => []RefusedLeavesNoTrace
  <1>1. DataInit => GatesInductive
    <2> SUFFICES ASSUME DataInit PROVE GatesInductive
      OBVIOUS
    <2>1. \A x \in Threads : threads[x].pc = "idle"
      BY DEF DataInit, Quiet
    <2> QED
      BY <2>1 DEF GatesInductive, GateOK, Busy
  <1>2. ASSUME Inductive, GatesInductive, [DataNext]_dataVars PROVE GatesInductive'
    <2>1. CASE Tick \/ UNCHANGED dataVars
      <3>1. threads' = threads /\ stored' = stored
        BY <2>1 DEF Tick, dataVars
      <3> QED
        BY <1>2, <3>1 DEF GatesInductive, GateOK, TraceOK, Busy, Fine, Refused
    <2>2. ASSUME NEW t \in Threads, NEW c \in Calls, BeginCall(t, c) PROVE GatesInductive'
      BY <1>2, <2>2, BeginCallGates
    <2>3. ASSUME NEW t \in Threads, LookUp(t) \/ Fetch(t) \/ StoreData(t)
          PROVE  GatesInductive'
      BY <1>2, <2>3, CacheGates
    <2> QED
      BY <1>2, <2>1, <2>2, <2>3 DEF DataNext
  <1>3. GatesInductive => RefusedLeavesNoTrace
    BY DEF GatesInductive, GateOK, TraceOK, Refused, Fine, RefusedLeavesNoTrace, Answers
  <1> QED
    BY <1>1, <1>2, <1>3, DataInvariant, PTL DEF DataSpec

-----------------------------------------------------------------------------
(* The right company *)

\* Data that answers a question to a port, whatever the company.
Fitting(d, request) ==
    /\ d.kind = request.kind
    /\ request.variant # Absent => d.variant = request.variant

\* A question that a call may put to a port.
RightQuestion(request, c) ==
    LET resolved == Resolve(c.query) IN
    /\ resolved.status = "RESOLVED" /\ request.company = resolved.company
    /\ request.kind = c.capability
    /\ c.variant # Absent => request.variant = c.variant
    /\ c.capability = "market" =>
          \E i \in DOMAIN resolved.listings : resolved.listings[i].id = request.variant

\* What RightCompany says of one answer.
RightAnswer(a) ==
    LET resolved == Resolve(a.call.query) IN
    /\ resolved.status = "RESOLVED" /\ a.data.company = resolved.company
    /\ a.data.kind = a.call.capability
    /\ a.call.variant # Absent => a.data.variant = a.call.variant
    /\ a.data.kind = "market" =>
          \E i \in DOMAIN resolved.listings : resolved.listings[i].id = a.data.variant

\* A thread under way asks a question of its call, and what it fetched answers it.
RightThread(th) ==
    /\ Busy(th) => RightQuestion(th.request, th.call)
    /\ th.pc = "store" /\ th.fetched # NoData => Fitting(th.fetched, th.request)
    /\ th.pc = "done" /\ th.data # NoData => RightAnswer(th)

\* An entry answers the question of its key.
CacheFits == \A key \in DOMAIN cache : Fitting(cache[key].data, key)

RightInductive == CacheFits /\ \A t \in Threads : RightThread(threads[t])

\* The places of the listings of a company that was resolved are numbers.
LEMMA ListingPlaces == ASSUME NEW q PROVE DOMAIN Resolve(q).listings \subseteq Nat
  <1>1. ASSUME NEW c, NEW ticker
        PROVE  DOMAIN Resolved(c, q, ticker).listings \subseteq Nat
    BY DEF Resolved, MatchingListings, AtPlaces, InSequence
  <1>2. ASSUME NEW status
        PROVE  DOMAIN Unresolved(status).listings \subseteq Nat
    BY DEF Unresolved
  <1>3. ASSUME NEW hits, NEW ticker
        PROVE  DOMAIN Finalized(hits, q, ticker).listings \subseteq Nat
    BY <1>1, <1>2 DEF Finalized
  <1>4. DOMAIN ByText(q).listings \subseteq Nat
    BY <1>2, <1>3 DEF ByText
  <1> QED
    BY <1>2, <1>3, <1>4 DEF Resolve

\* The listing selected is one of those given, and the one asked for if one was.
LEMMA SelectFacts ==
    ASSUME NEW listings, DOMAIN listings \subseteq Nat, NEW c,
           SelectListing(listings, c) # NoListing
    PROVE  \E i \in DOMAIN listings :
              /\ listings[i] = SelectListing(listings, c)
              /\ c.variant # Absent => listings[i].id = c.variant
  <1> DEFINE wanted == {i \in DOMAIN listings : listings[i].id = c.variant}
             primary == {i \in DOMAIN listings : listings[i].primary}
             preferred == IF c.variant # Absent THEN wanted
                          ELSE IF primary # {} THEN primary ELSE DOMAIN listings
  <1>1. SelectListing(listings, c) =
          IF preferred = {} THEN NoListing ELSE listings[Min(preferred)]
    BY DEF SelectListing
  <1>2. preferred \in SUBSET Nat
    OBVIOUS
  <1>3. /\ \A i \in preferred : i \in DOMAIN listings
        /\ c.variant # Absent => \A i \in preferred : listings[i].id = c.variant
    OBVIOUS
  <1> HIDE DEF preferred
  <1>4. preferred # {} /\ SelectListing(listings, c) = listings[Min(preferred)]
    BY <1>1
  <1>5. Min(preferred) \in preferred
    BY <1>2, <1>4, MinFacts
  <1> QED
    BY <1>3, <1>4, <1>5

\* A call gets to a port only with a question it may ask.
LEMMA AskedFacts ==
    ASSUME NEW c,
           AtOnce(c, Withheld(c, Resolve(c.query),
                              SelectListing(Resolve(c.query).listings, c))) = "ASK"
    PROVE  RightQuestion(Request(c, Resolve(c.query),
                                 SelectListing(Resolve(c.query).listings, c)), c)
  <1> DEFINE resolution == Resolve(c.query)
             listing == SelectListing(resolution.listings, c)
             withheld == Withheld(c, resolution, listing)
             asked == Request(c, resolution, listing)
  <1>1. withheld \in {"INVALID", "RESOLUTION_BLOCKED", "OK", "UNAVAILABLE", "ASK"}
    BY DEF Withheld
  <1>2. withheld = "ASK"
    <2> HIDE DEF withheld
    <2>1. Declined(c) # "ASK"
      BY DEF Declined
    <2>2. withheld # "ASK" => Reported(c.entry, withheld) # "ASK"
      BY <1>1 DEF Reported, TaskStatus, ToolStatus
    <2>3. AtOnce(c, withheld) = "ASK"
      BY DEF withheld
    <2> QED
      BY <2>1, <2>2, <2>3 DEF AtOnce
  <1>3. /\ resolution.status \notin {"INVALID", "AMBIGUOUS", "NOT_FOUND"}
        /\ c.capability = "market" => listing # NoListing
    <2> HIDE DEF resolution, listing
    <2> QED
      BY <1>2 DEF Withheld
  <1>4. resolution.status = "RESOLVED"
    BY <1>3, ResolveStatus
  <1>5. /\ asked.kind = c.capability /\ asked.company = resolution.company
        /\ asked.variant = IF c.capability = "market" THEN listing.id ELSE c.variant
    <2> HIDE DEF resolution, listing
    <2> QED
      BY DEF Request
  <1>6. CASE c.capability = "market"
    <2>1. PICK i \in DOMAIN resolution.listings :
            /\ resolution.listings[i] = listing
            /\ c.variant # Absent => resolution.listings[i].id = c.variant
      BY <1>3, <1>6, ListingPlaces, SelectFacts
    <2> HIDE DEF listing, asked
    <2>2. RightQuestion(asked, c)
      BY <1>4, <1>5, <1>6, <2>1 DEF RightQuestion
    <2> QED
      BY <2>2 DEF asked, listing
  <1>7. CASE c.capability # "market"
    <2> HIDE DEF asked
    <2>1. RightQuestion(asked, c)
      BY <1>4, <1>5, <1>7 DEF RightQuestion
    <2> QED
      BY <2>1 DEF asked
  <1> QED
    BY <1>6, <1>7

\* What the reference data answers is of the kind and the variant asked for.
LEMMA FixtureFits ==
    ASSUME NEW request, FixtureAnswer(request) # NoData
    PROVE  Fitting(FixtureAnswer(request), request)
  <1> DEFINE hits == FixtureHits(request)
             d == Fixtures[Min(hits)]
  <1>1. hits \in SUBSET Nat
    BY DataAssumption DEF FixtureHits
  <1>2. \A i \in hits : Fixtures[i].kind = request.kind
                          /\ (request.variant # Absent => Fixtures[i].variant = request.variant)
    BY DEF FixtureHits
  <1>3. FixtureAnswer(request) =
          CASE hits = {} -> NoData
            [] hits # {} /\ request.kind = "news" -> NewsPackage(d, request)
            [] OTHER -> FromFixture(d, d.variant, d.availability)
    BY DEF FixtureAnswer
  <1> HIDE DEF hits
  <1>4. hits # {}
    BY <1>3
  <1>5. Min(hits) \in hits
    BY <1>1, <1>4, MinFacts
  <1>6. d.kind = request.kind /\ (request.variant # Absent => d.variant = request.variant)
    BY <1>2, <1>5
  <1> HIDE DEF d
  <1>7. Fitting(NewsPackage(d, request), request)
    BY <1>6 DEF Fitting, NewsPackage, FromFixture
  <1>8. Fitting(FromFixture(d, d.variant, d.availability), request)
    BY <1>6 DEF Fitting, FromFixture
  <1> QED
    BY <1>3, <1>4, <1>7, <1>8

\* So is what the live source answers.
LEMMA LiveFits ==
    ASSUME NEW request, NEW number, NEW d \in LiveAnswers(request, number), d # NoData
    PROVE  Fitting(d, request)
  <1>1. \E variant, availability, at :
          /\ d = Live(request, variant, availability, at, number)
          /\ request.variant # Absent => variant = request.variant
    BY DEF LiveAnswers, LiveSeries, LivePackages
  <1> QED
    BY <1>1 DEF Live, Fitting

\* At the end of a call, data that fits its question is shown only if it is of
\* the company asked about.
LEMMA EndedRight ==
    ASSUME NEW th, IsThread(th), RightQuestion(th.request, th.call), NEW d,
           d # NoData => Fitting(d, th.request)
    PROVE  RightThread(Ended(th, d))
  <1> DEFINE a == Ended(th, d)
  <1>1. /\ a.pc = "done" /\ a.call = th.call /\ a.data \in {d, NoData}
        /\ a.data # NoData => Belongs(d, th.request)
    BY EndedFacts
  <1> HIDE DEF a
  <1>2. ASSUME a.data # NoData PROVE RightAnswer(a)
    <2>1. a.data = d /\ Fitting(d, th.request) /\ Belongs(d, th.request)
      BY <1>1, <1>2
    <2> QED
      BY <1>1, <2>1 DEF RightAnswer, RightQuestion, Fitting, Belongs
  <1>3. RightThread(a)
    BY <1>1, <1>2 DEF RightThread, Busy
  <1> QED
    BY <1>3 DEF a

\* A step of one thread, which stays right, with a cache that does.
LEMMA StepRight ==
    ASSUME RightInductive, NEW t \in Threads, NEW u, Moves(t, u), RightThread(u), CacheFits'
    PROVE  RightInductive'
  <1>1. \A x \in Threads : RightThread(threads'[x])
    BY DEF RightInductive, Moves
  <1> QED
    BY <1>1 DEF RightInductive, RightThread, Busy, RightAnswer, RightQuestion, Fitting

\* A new call asks what it may ask, or nothing.
LEMMA BeginCallRight ==
    ASSUME Inductive, RightInductive, NEW t \in Threads, NEW c \in Calls, BeginCall(t, c)
    PROVE  RightInductive'
  <1> DEFINE resolution == Resolve(c.query)
             listing == SelectListing(resolution.listings, c)
             answer == AtOnce(c, Withheld(c, resolution, listing))
             asked == Request(c, resolution, listing)
             u == [pc |-> IF answer = "ASK" THEN "lookup" ELSE "done", call |-> c,
                   number |-> calls + 1, evaluated |-> clock, request |-> asked,
                   fetched |-> NoData, status |-> answer, data |-> NoData]
  <1>1. threads' = [threads EXCEPT ![t] = u] /\ cache' = cache
    BY Zenon DEF BeginCall
  <1>2. answer = "ASK" => RightQuestion(asked, c)
    BY AskedFacts
  <1> HIDE DEF answer, asked
  <1>3. /\ u.pc = IF answer = "ASK" THEN "lookup" ELSE "done"
        /\ u.call = c /\ u.request = asked /\ u.data = NoData
    OBVIOUS
  <1> HIDE DEF u
  <1>4. RightThread(u)
    BY <1>2, <1>3 DEF RightThread, Busy
  <1>5. Moves(t, u)
    BY <1>1, MovesFacts DEF Inductive
  <1>6. CacheFits'
    BY <1>1 DEF RightInductive, CacheFits, Fitting
  <1> QED
    BY <1>4, <1>5, <1>6, StepRight

\* A hit is an entry of the question asked.
LEMMA HitFits ==
    ASSUME Inductive, RightInductive, NEW request, Unexpired(Key(request))
    PROVE  Fitting(Labelled(cache[Key(request)].data), request)
  <1> DEFINE key == Key(request)
             d == cache[key].data
  <1>1. key \in DOMAIN cache /\ key.kind = request.kind /\ key.variant = request.variant
    BY DEF Unexpired, Key
  <1> HIDE DEF key
  <1>2. Sourced(d) /\ Fitting(d, key)
    BY <1>1 DEF Inductive, CacheOK, EntryOK, RightInductive, CacheFits
  <1> HIDE DEF d
  <1>3. Labelled(d).kind = d.kind /\ Labelled(d).variant = d.variant
    BY <1>2, LabelledFacts
  <1> QED
    BY <1>1, <1>2, <1>3 DEF Fitting, key, d

\* The two looks at the cache and the fetch between them: what is fetched and
\* what is kept answers the question of this very call.
LEMMA CacheRight ==
    ASSUME Inductive, RightInductive, NEW t \in Threads, LookUp(t) \/ Fetch(t) \/ StoreData(t)
    PROVE  RightInductive'
  <1> DEFINE th == threads[t]
             key == Key(th.request)
             hit == Ended(th, Labelled(cache[key].data))
             own == Ended(th, th.fetched)
  <1>1. Busy(th)
    BY DEF LookUp, Fetch, StoreData, Busy
  <1>2. /\ IsThread(th) /\ NumbersOK /\ CacheFits /\ RightThread(th)
        /\ RightQuestion(th.request, th.call)
    BY <1>1 DEF Inductive, ThreadOK, RightInductive, RightThread
  <1>0. /\ IsThread(th) /\ "pc" \in ThreadFields /\ "fetched" \in ThreadFields
        /\ "call" \in ThreadFields /\ "request" \in ThreadFields
    BY <1>2 DEF ThreadFields
  <1>3. CASE LookUp(t)
    <2> DEFINE miss == [th EXCEPT !["pc"] = "fetch"]
    <2>1. /\ threads' = [threads EXCEPT ![t] = IF Unexpired(key) THEN hit ELSE miss]
          /\ cache' = cache
      BY <1>3, Zenon DEF LookUp
    <2>2. CacheFits'
      BY <1>2, <2>1 DEF CacheFits, Fitting
    <2>3. CASE Unexpired(key)
      <3>1. RightThread(hit)
        BY <1>2, <2>3, HitFits, EndedRight
      <3>2. Moves(t, hit)
        BY <1>2, <2>1, <2>3, MovesFacts
      <3> QED
        BY <2>2, <3>1, <3>2, StepRight
    <2>4. CASE ~Unexpired(key)
      <3>1. IsThread(miss) /\ miss["pc"] = "fetch" /\ \A g \in ThreadFields \ {"pc"} :
               miss[g] = th[g]
        BY <1>0, SetField
      <3>2. Moves(t, miss)
        BY <1>2, <2>1, <2>4, MovesFacts
      <3> HIDE DEF miss
      <3>3. miss.pc = "fetch" /\ miss.call = th.call /\ miss.request = th.request
        BY <1>0, <3>1
      <3>4. RightThread(miss)
        BY <1>2, <3>3 DEF RightThread
      <3> QED
        BY <2>2, <3>2, <3>4, StepRight
    <2> QED
      BY <2>3, <2>4
  <1>4. CASE Fetch(t)
    <2> DEFINE fixture == FixtureAnswer(th.request)
    <2>1. PICK live \in LiveAnswers(th.request, th.number) :
            threads' = [threads EXCEPT ![t].pc = "store",
                          ![t].fetched = IF th.request.kind = "market"
                                         THEN MarketFallback(live, fixture)
                                         ELSE FinancialFallback(live, fixture)]
      BY <1>4, Zenon DEF Fetch
    <2> DEFINE got == IF th.request.kind = "market" THEN MarketFallback(live, fixture)
                      ELSE FinancialFallback(live, fixture)
               one == [th EXCEPT !["pc"] = "store"]
               two == [one EXCEPT !["fetched"] = got]
    <2>2. got \in {live, fixture}
      BY DEF MarketFallback, FinancialFallback
    <2>3. got # NoData => Fitting(got, th.request)
      <3> HIDE DEF got
      <3> QED
        BY <2>2, LiveFits, FixtureFits
    <2> HIDE DEF got
    <2>4. threads' = [threads EXCEPT ![t] = two]
      BY <1>2, <2>1 DEF NumbersOK, IsThread, got
    <2>5. Moves(t, two)
      BY <1>2, <2>4, MovesFacts
    <2>7. IsThread(one) /\ one["pc"] = "store" /\ \A g \in ThreadFields \ {"pc"} : one[g] = th[g]
      BY <1>0, SetField
    <2> HIDE DEF one
    <2>8. IsThread(two) /\ two["fetched"] = got /\ \A g \in ThreadFields \ {"fetched"} :
            two[g] = one[g]
      BY <1>0, <2>7, SetField
    <2> HIDE DEF two
    <2>9. RightThread(two)
      <3>1. /\ two.pc = "store" /\ two.call = th.call /\ two.request = th.request
            /\ two.fetched = got
        BY <1>0, <2>7, <2>8
      <3> QED
        BY <1>2, <2>3, <3>1 DEF RightThread
    <2>10. CacheFits'
      BY <1>2, <1>4 DEF Fetch, CacheFits, Fitting
    <2> QED
      BY <2>5, <2>9, <2>10, StepRight
  <1>5. CASE StoreData(t)
    <2> DEFINE data == th.fetched
    <2>1. data # NoData => Fitting(data, th.request)
      BY <1>2, <1>5 DEF StoreData, RightThread
    <2>2. CASE Unexpired(key)
      <3>1. threads' = [threads EXCEPT ![t] = hit] /\ cache' = cache
        BY <1>5, <2>2 DEF StoreData, StillFresh
      <3>2. RightThread(hit)
        BY <1>2, <2>2, HitFits, EndedRight
      <3>3. Moves(t, hit)
        BY <1>2, <3>1, MovesFacts
      <3>4. CacheFits'
        BY <1>2, <3>1 DEF CacheFits, Fitting
      <3> QED
        BY <3>2, <3>3, <3>4, StepRight
    <2>3. CASE ~Unexpired(key)
      <3>1. threads' = [threads EXCEPT ![t] = own]
        BY <1>5, <2>3 DEF StoreData, StillFresh
      <3>2. RightThread(own)
        BY <1>2, <2>1, EndedRight
      <3>3. Moves(t, own)
        BY <1>2, <3>1, MovesFacts
      <3>4. \A k \in DOMAIN cache' : \/ k \in DOMAIN cache /\ cache'[k] = cache[k]
                                     \/ k = key /\ cache'[k].data = data /\ data # NoData
        <4>1. CASE data = NoData
          <5>1. cache' = Restrict(cache, DOMAIN cache \ {key})
            BY <1>5, <2>3, <4>1 DEF StoreData, StillFresh
          <5> QED
            BY <5>1 DEF Restrict
        <4>2. CASE data # NoData
          <5>1. cache' = [k \in DOMAIN cache \cup {key} |->
                            IF k = key THEN [data |-> data, expires |-> clock + TTL]
                            ELSE cache[k]]
            BY <1>5, <2>3, <4>2 DEF StoreData, StillFresh
          <5> HIDE DEF key, data
          <5> QED
            BY <4>2, <5>1
        <4> QED
          BY <4>1, <4>2
      <3>5. Fitting(data, th.request) => Fitting(data, key)
        BY DEF Fitting, Key
      <3>6. \A k \in DOMAIN cache' : Fitting(cache'[k].data, k)
        <4> HIDE DEF key, data
        <4> QED
          BY <1>2, <2>1, <3>4, <3>5 DEF CacheFits, Fitting
      <3>7. CacheFits'
        BY <3>6 DEF CacheFits, Fitting
      <3> QED
        BY <3>2, <3>3, <3>7, StepRight
    <2> QED
      BY <2>2, <2>3
  <1> QED
    BY <1>3, <1>4, <1>5

\* Whatever calls fetch and store in whatever order, an answer is about the
\* company, the listing, the year or the type its caller asked for
\* (the snapshot use cases and the keys of their caches).
THEOREM AnswersStayRight == DataSpec => []RightCompany
  <1>1. DataInit => RightInductive
    <2> SUFFICES ASSUME DataInit PROVE RightInductive
      OBVIOUS
    <2>1. \A x \in Threads : threads[x].pc = "idle"
      BY DEF DataInit, Quiet
    <2>2. CacheFits
      BY DEF DataInit, CacheFits
    <2> QED
      BY <2>1, <2>2 DEF RightInductive, RightThread, Busy
  <1>2. ASSUME Inductive, RightInductive, [DataNext]_dataVars PROVE RightInductive'
    <2>1. CASE Tick \/ UNCHANGED dataVars
      <3>1. threads' = threads /\ cache' = cache
        BY <2>1 DEF Tick, dataVars
      <3> QED
        BY <1>2, <3>1
           DEF RightInductive, CacheFits, RightThread, Busy, RightAnswer, RightQuestion, Fitting
    <2>2. ASSUME NEW t \in Threads, NEW c \in Calls, BeginCall(t, c) PROVE RightInductive'
      BY <1>2, <2>2, BeginCallRight
    <2>3. ASSUME NEW t \in Threads, LookUp(t) \/ Fetch(t) \/ StoreData(t)
          PROVE  RightInductive'
      BY <1>2, <2>3, CacheRight
    <2> QED
      BY <1>2, <2>1, <2>2, <2>3 DEF DataNext
  <1>3. RightInductive => RightCompany
    BY DEF RightInductive, RightThread, RightAnswer, RightCompany, Shown, Answers
  <1> QED
    BY <1>1, <1>2, <1>3, DataInvariant, PTL DEF DataSpec

=============================================================================
