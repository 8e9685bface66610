------------------------ MODULE WorkflowManagerProofs ------------------------
(***************************************************************************)
(* Proofs about WorkflowManager, for any set of threads and tasks.  The    *)
(* safety properties of the runs follow from one inductive invariant,      *)
(* Inductive, that says what the record held by a thread tells about the   *)
(* stored one at each place the thread can be in.                          *)
(***************************************************************************)
EXTENDS WorkflowManager, TLAPS

-----------------------------------------------------------------------------
(* The inductive invariant *)

\* Statuses of a workflow that is worked on or has results.
Working == {"READY", "RUNNING", "PAUSED", "COMPLETED", "PARTIAL"}

Cleared(a) == a \in {"NOT_REQUIRED", "APPROVED"}

\* The thread holds a record it has written or is going to write.
Holding(t) == pc[t] \notin {"idle", "resumed"}

\* The thread holds a record with a final status, and has stored it.
Settled(t) ==
    \/ pc[t] \in {"announce", "notify", "resave"}
    \/ pc[t] = "checkpoint" /\ copy[t].status # "PAUSED"

\* The stored record before and after the workflow is created.
StoreOK ==
    /\ wf.status # "CREATED"
    /\ wf.status = "ABSENT" => wf = Absent /\ \A t \in Threads : pc[t] = "idle"

\* The status of the record a thread holds, by where the thread is.
PlaceOK(t) ==
    /\ pc[t] = "commit" =>
          /\ op[t] \in Operations
          /\ copy[t].status \in {"READY", "RUNNING", "PAUSED", "CANCELLED", "FAILED"}
          /\ op[t] = "execute" <=> copy[t].status = "RUNNING"
          /\ op[t] = "pause" => copy[t].status = "PAUSED"
          /\ op[t] = "cancel" => copy[t].status = "CANCELLED"
          /\ op[t] = "reject" => copy[t].status = "FAILED"
    /\ pc[t] = "executing" => copy[t].status = "RUNNING"
    /\ pc[t] \in {"memory", "result", "checkpoint"} => copy[t].status \in Outcomes
    /\ pc[t] \in {"announce", "notify", "resave"} => copy[t].status \in Final

\* The approval in the record a thread holds: an approval that was never
\* required stays so, in every record; work is held only when cleared.
ApprovalOK(t) ==
    Holding(t) =>
        /\ copy[t].status \in Working => Cleared(copy[t].approval)
        /\ copy[t].approval = "NOT_REQUIRED" <=> wf.approval = "NOT_REQUIRED"

\* Only a pause and the end of a run hold a version the store may not have.
VersionOK(t) ==
    \/ ~Holding(t)
    \/ pc[t] = "commit" /\ op[t] = "pause"
    \/ pc[t] \in {"memory", "result"}
    \/ copy[t].version <= wf.version

\* The execution of the current lease cannot be behind the stored version.
LeaseOK(t) ==
    Executing(t) =>
        /\ run[t] <= lease
        /\ wf.status = "RUNNING" /\ run[t] = lease => copy[t].version >= wf.version

\* A stored final status is still the one the thread holds.
SettledOK(t) == Settled(t) => copy[t].status = wf.status

ThreadOK(t) ==
    PlaceOK(t) /\ ApprovalOK(t) /\ VersionOK(t) /\ LeaseOK(t) /\ SettledOK(t)

Inductive ==
    /\ TypeOK
    /\ ApprovalGate
    /\ RunningHasExecutor
    /\ CheckpointFollowsRecord
    /\ NotificationsTruthful
    /\ AnswersStayTrue
    /\ StoreOK
    /\ \A t \in Threads : ThreadOK(t)

\* What any write may do to the stored record, in the view of a thread that
\* holds an older one.
Evolves ==
    /\ wf' \in Record
    /\ lease' \in Nat
    /\ wf'.version >= wf.version
    /\ wf'.approval = "NOT_REQUIRED" <=> wf.approval = "NOT_REQUIRED"
    /\ IsTerminal(wf.status) => wf'.status = wf.status
    /\ lease' >= lease
    /\ wf'.status = "RUNNING" /\ lease' = lease
          => wf.status = "RUNNING" /\ wf'.version = wf.version

-----------------------------------------------------------------------------
(* Lemmas *)

\* A record that is written again, with some fields replaced.
WithStatus(w, s) == [w EXCEPT !.status = s]

WithVersion(w, s, v) == [w EXCEPT !.status = s, !.version = v]

WithApproval(w, s, a) == [w EXCEPT !.status = s, !.approval = a]

LEMMA RecordFields ==
    ASSUME NEW w \in Record, NEW s \in Status, NEW v \in Nat, NEW a \in Approval
    PROVE  /\ WithStatus(w, s) \in Record
           /\ WithStatus(w, s).status = s
           /\ WithStatus(w, s).approval = w.approval
           /\ WithStatus(w, s).version = w.version
           /\ WithVersion(w, s, v) \in Record
           /\ WithVersion(w, s, v).status = s
           /\ WithVersion(w, s, v).approval = w.approval
           /\ WithVersion(w, s, v).version = v
           /\ WithApproval(w, s, a) \in Record
           /\ WithApproval(w, s, a).status = s
           /\ WithApproval(w, s, a).approval = a
           /\ WithApproval(w, s, a).version = w.version
  BY DEF Record, WithStatus, WithVersion, WithApproval

\* The record each operation computes (Proposal), field by field.
LEMMA ProposalFields ==
    ASSUME NEW o \in Operations, NEW w \in Record
    PROVE  /\ Proposal(o, w) \in Record
           /\ Proposal(o, w).status = CASE o = "execute" -> "RUNNING"
                                        [] o = "pause" -> "PAUSED"
                                        [] o \in {"resume", "approve"} -> "READY"
                                        [] o = "cancel" -> "CANCELLED"
                                        [] o = "reject" -> "FAILED"
           /\ Proposal(o, w).approval = CASE o = "approve" -> "APPROVED"
                                          [] o = "reject" -> "REJECTED"
                                          [] OTHER -> w.approval
           /\ o # "pause" => Proposal(o, w).version = w.version
  <1>1. /\ o = "execute" => Proposal(o, w) = WithStatus(w, "RUNNING")
        /\ o = "pause" => Proposal(o, w) = WithVersion(w, "PAUSED", w.version + 1)
        /\ o = "resume" => Proposal(o, w) = WithStatus(w, "READY")
    BY DEF Proposal, Paused, Resumed, WithStatus, WithVersion
  <1>2. o = "cancel" => Proposal(o, w) = WithStatus(w, "CANCELLED")
    BY DEF Proposal, WithStatus
  <1>3. o \in {"approve", "reject"} => Proposal(o, w) = Decided(w, o)
    BY DEF Proposal
  <1>4. /\ Decided(w, "approve") = WithApproval(w, "READY", "APPROVED")
        /\ Decided(w, "reject") = WithApproval(w, "FAILED", "REJECTED")
    BY DEF Decided, WithApproval
  <1>5. w.version + 1 \in Nat
    BY DEF Record
  <1> QED
    BY <1>1, <1>2, <1>3, <1>4, <1>5, RecordFields DEF Operations, Status, Approval

\* A write that save_workflow accepts, of a record a thread may hold, only
\* moves the stored record on.
LEMMA SavedEvolves ==
    ASSUME TypeOK, NEW new \in Record, Saved(new),
           new.approval = "NOT_REQUIRED" <=> wf.approval = "NOT_REQUIRED",
           new.status = "RUNNING" => new.version <= wf.version
    PROVE  /\ Evolves
           /\ wf' = new
           /\ new.status = wf.status \/ CanMove(wf.status, new.status)
  <1>1. /\ wf' = new /\ wf.version \in Nat /\ new.version \in Nat /\ lease \in Nat
        /\ new.status = wf.status \/ CanMove(wf.status, new.status)
        /\ ~(new.version < wf.version)
    BY DEF TypeOK, Record, Saved, StaleStatus, StaleVersion
  <1>2. lease' = IF new.status = "RUNNING" /\ wf.status # "RUNNING" THEN lease + 1 ELSE lease
    BY DEF Saved
  <1>3. IsTerminal(wf.status) => wf'.status = wf.status
    BY <1>1 DEF IsTerminal, CanMove
  <1>4. wf'.version >= wf.version /\ lease' \in Nat /\ lease' >= lease
    BY <1>1, <1>2
  <1>5. wf'.status = "RUNNING" /\ lease' = lease
          => wf.status = "RUNNING" /\ wf'.version = wf.version
    BY <1>1, <1>2
  <1> QED
    BY <1>1, <1>3, <1>4, <1>5 DEF Evolves

\* A thread that takes no part in a step keeps its part of the invariant.
LEMMA Bystander ==
    ASSUME TypeOK, Evolves, NEW u \in Threads, ThreadOK(u),
           pc'[u] = pc[u], op'[u] = op[u], copy'[u] = copy[u], run'[u] = run[u]
    PROVE  ThreadOK(u)'
  <1>1. copy[u] \in Record /\ wf \in Record /\ run[u] \in Nat /\ lease \in Nat
    BY DEF TypeOK
  <1>2. PlaceOK(u)'
    BY DEF ThreadOK, PlaceOK
  <1>3. ApprovalOK(u)'
    BY DEF ThreadOK, ApprovalOK, Holding, Evolves
  <1>4. VersionOK(u)'
    BY <1>1 DEF ThreadOK, VersionOK, Holding, Evolves, Record
  <1>5. LeaseOK(u)'
    BY <1>1 DEF ThreadOK, LeaseOK, Executing, Evolves, Record
  <1>6. SettledOK(u)'
    BY DEF ThreadOK, SettledOK, Settled, Evolves, PlaceOK, IsTerminal, Final, Outcomes
  <1> QED
    BY <1>2, <1>3, <1>4, <1>5, <1>6 DEF ThreadOK

\* The step is thread t's: the others stay as they are.
Others(t) ==
    \A u \in Threads \ {t} :
        pc'[u] = pc[u] /\ op'[u] = op[u] /\ copy'[u] = copy[u] /\ run'[u] = run[u]

\* A thread that answers its caller is back where it started.
LEMMA AnswerFacts ==
    ASSUME TypeOK, NEW t \in Threads, NEW claim \in SUBSET (Final \cup {"ERROR"}),
           Answer(t, claim)
    PROVE  /\ pc' \in [Threads -> Locations] /\ op' \in [Threads -> Operations \cup {"none"}]
           /\ copy' \in [Threads -> Record] /\ run' \in [Threads -> Nat]
           /\ told' = told \cup claim /\ told' \subseteq Final \cup {"ERROR"}
           /\ pc'[t] = "idle"
           /\ Others(t)
           /\ ThreadOK(t)'
  <1>1. Absent \in Record
    BY DEF Absent, Record, Approval
  <1>2. /\ pc' = [pc EXCEPT ![t] = "idle"] /\ op' = [op EXCEPT ![t] = "none"]
        /\ copy' = [copy EXCEPT ![t] = Absent] /\ run' = [run EXCEPT ![t] = 0]
        /\ told' = told \cup claim
    BY DEF Answer, Goto
  <1>3. pc'[t] = "idle" /\ Others(t)
    BY <1>2 DEF TypeOK, Others
  <1>4. ThreadOK(t)'
    BY <1>3 DEF ThreadOK, PlaceOK, ApprovalOK, VersionOK, LeaseOK, SettledOK, Settled,
                Holding, Executing
  <1>5. pc' \in [Threads -> Locations] /\ op' \in [Threads -> Operations \cup {"none"}]
    BY <1>2 DEF TypeOK, Locations
  <1>6. copy' \in [Threads -> Record] /\ run' \in [Threads -> Nat]
    BY <1>1, <1>2 DEF TypeOK
  <1>7. told' \subseteq Final \cup {"ERROR"}
    BY <1>2 DEF TypeOK
  <1> QED
    BY <1>2, <1>3, <1>4, <1>5, <1>6, <1>7

\* A thread that goes on with its operation changes only where it is.
LEMMA GotoFacts ==
    ASSUME TypeOK, NEW t \in Threads, NEW where \in Locations, Goto(t, where), Stay(t)
    PROVE  /\ pc' \in [Threads -> Locations] /\ op' \in [Threads -> Operations \cup {"none"}]
           /\ copy' \in [Threads -> Record] /\ run' \in [Threads -> Nat]
           /\ told' = told /\ told' \subseteq Final \cup {"ERROR"}
           /\ pc'[t] = where /\ op' = op /\ copy' = copy /\ run' = run
           /\ Others(t)
  BY DEF Goto, Stay, TypeOK, Others

\* The invariant survives a step that does not write the workflow record and
\* does not end the execution of the current lease.
LEMMA QuietStep ==
    ASSUME Inductive, NEW t \in Threads, TypeOK', ThreadOK(t)', Others(t),
           UNCHANGED <<wf, lease, checkpoint>>,
           wf.status # "ABSENT",
           pc[t] # "checkpoint",
           wf.status = "RUNNING" /\ Executing(t) /\ run[t] = lease
              => Executing(t)' /\ run'[t] = run[t],
           published' \subseteq published \cup {wf.status},
           told' \subseteq told \cup {wf.status, "ERROR"}
    PROVE  Inductive'
  <1> USE DEF Inductive
  <1>1. Evolves
    BY DEF Evolves, TypeOK, Record
  <1>2. \A u \in Threads : ThreadOK(u)'
    <2> TAKE u \in Threads
    <2>1. CASE u # t
      BY <1>1, <2>1, Bystander DEF Others
    <2> QED
      BY <2>1
  <1>3. ApprovalGate' /\ StoreOK'
    BY DEF ApprovalGate, StoreOK
  <1>4. RunningHasExecutor'
    BY DEF RunningHasExecutor, Executing, Others
  <1>5. CheckpointFollowsRecord'
    BY DEF CheckpointFollowsRecord, Others
  <1>6. NotificationsTruthful' /\ AnswersStayTrue'
    BY DEF NotificationsTruthful, AnswersStayTrue
  <1> QED
    BY <1>2, <1>3, <1>4, <1>5, <1>6

\* The invariant survives a step in which a thread stores a record.
LEMMA WritingStep ==
    ASSUME Inductive, NEW t \in Threads, TypeOK', ThreadOK(t)', Others(t), Evolves,
           UNCHANGED <<checkpoint, published>>,
           pc[t] # "checkpoint",
           wf'.status \notin {"ABSENT", "CREATED", "AWAITING_APPROVAL"},
           wf'.status \in Working => Cleared(wf'.approval),
           wf'.status = "RUNNING" => Executing(t)' /\ run'[t] = lease',
           wf'.version # wf.version => pc'[t] = "checkpoint" /\ copy'[t].version = wf'.version,
           told' \subseteq told \cup {wf'.status, "ERROR"}
    PROVE  Inductive'
  <1> USE DEF Inductive
  <1>1. \A u \in Threads : ThreadOK(u)'
    <2> TAKE u \in Threads
    <2>1. CASE u # t
      BY <2>1, Bystander DEF Others
    <2> QED
      BY <2>1
  <1>2. ApprovalGate' /\ StoreOK' /\ RunningHasExecutor'
    BY DEF ApprovalGate, StoreOK, RunningHasExecutor, Working, Cleared
  <1>3. CheckpointFollowsRecord'
    BY DEF CheckpointFollowsRecord, Others, Evolves, TypeOK, Record
  <1>4. NotificationsTruthful' /\ AnswersStayTrue'
    BY DEF NotificationsTruthful, AnswersStayTrue, Evolves, TypeOK, Final, IsTerminal
  <1> QED
    BY <1>1, <1>2, <1>3, <1>4

-----------------------------------------------------------------------------
(* The invariant holds initially, and every action keeps it *)

LEMMA InitInductive == Init => Inductive
  <1> SUFFICES ASSUME Init PROVE Inductive
    OBVIOUS
  <1> USE DEF Init, Absent
  <1>1. TypeOK
    BY DEF TypeOK, Record, Approval, Locations
  <1>2. ApprovalGate /\ RunningHasExecutor /\ CheckpointFollowsRecord /\ StoreOK
    BY DEF ApprovalGate, RunningHasExecutor, CheckpointFollowsRecord, StoreOK
  <1>3. NotificationsTruthful /\ AnswersStayTrue
    BY DEF NotificationsTruthful, AnswersStayTrue
  <1>4. \A t \in Threads : ThreadOK(t)
    BY DEF ThreadOK, PlaceOK, ApprovalOK, VersionOK, LeaseOK, SettledOK, Settled,
           Holding, Executing
  <1> QED
    BY <1>1, <1>2, <1>3, <1>4 DEF Inductive

\* CreateResearchWorkflow stores the first record; no thread holds one yet.
LEMMA CreateKeeps ==
    ASSUME Inductive, NEW t \in Threads, Create(t)
    PROVE  Inductive'
  <1> USE DEF Inductive
  <1>1. /\ wf = Absent /\ \A u \in Threads : pc[u] = "idle"
        /\ UNCHANGED <<checkpoint, memory, published, lease, told, pc, op, copy, run>>
    BY DEF Create, StoreOK
  <1>2. \/ wf' = [Absent EXCEPT !.status = "READY"]
        \/ wf' = [Absent EXCEPT !.status = "AWAITING_APPROVAL", !.approval = "PENDING"]
    BY DEF Create
  <1>3. /\ wf' \in Record /\ wf'.version = 0 /\ wf.version = 0
        /\ \/ wf'.status = "READY" /\ wf'.approval = "NOT_REQUIRED"
           \/ wf'.status = "AWAITING_APPROVAL" /\ wf'.approval = "PENDING"
    <2>1. /\ Absent \in Record /\ Absent.version = 0 /\ Absent.approval = "NOT_REQUIRED"
          /\ "READY" \in Status /\ "AWAITING_APPROVAL" \in Status /\ "PENDING" \in Approval
      BY DEF Absent, Record, Status, Approval
    <2>2. \/ wf' = WithStatus(Absent, "READY")
          \/ wf' = WithApproval(Absent, "AWAITING_APPROVAL", "PENDING")
      BY <1>2 DEF WithStatus, WithApproval
    <2> QED
      BY <1>1, <2>1, <2>2, RecordFields
  <1>4. TypeOK'
    BY <1>1, <1>3 DEF TypeOK
  <1>5. ApprovalGate' /\ RunningHasExecutor' /\ StoreOK'
    BY <1>3 DEF ApprovalGate, RunningHasExecutor, StoreOK
  <1>6. CheckpointFollowsRecord'
    BY <1>1, <1>3 DEF CheckpointFollowsRecord
  <1>7. NotificationsTruthful' /\ AnswersStayTrue'
    BY <1>1 DEF NotificationsTruthful, AnswersStayTrue, TypeOK, Absent, Final
  <1>8. \A u \in Threads : ThreadOK(u)'
    BY <1>1 DEF ThreadOK, PlaceOK, ApprovalOK, VersionOK, LeaseOK, SettledOK, Settled,
                Holding, Executing
  <1> QED
    BY <1>4, <1>5, <1>6, <1>7, <1>8

\* A thread reads the record and computes the one it will write.
LEMMA ReadKeeps ==
    ASSUME Inductive, NEW t \in Threads, pc[t] \in {"idle", "resumed"},
           NEW o \in Operations, Read(t, o)
    PROVE  Inductive'
  <1> USE DEF Inductive
  <1>1. Admits(o, wf) /\ UNCHANGED shared /\ wf \in Record
    BY DEF Read, TypeOK
  <1>2. /\ wf.status # "ABSENT" /\ pc[t] # "checkpoint" /\ ~Executing(t)
        /\ UNCHANGED <<wf, lease, checkpoint>> /\ UNCHANGED <<memory, published>>
    BY <1>1 DEF Admits, shared, Executing
  <1>3. CASE Undecided(o, wf) /\ Goto(t, "commit") /\ op' = [op EXCEPT ![t] = o]
             /\ copy' = [copy EXCEPT ![t] = Proposal(o, wf)] /\ UNCHANGED <<run, told>>
    <2>1. Proposal(o, wf) \in Record
      BY <1>1, ProposalFields
    <2>2. /\ pc'[t] = "commit" /\ op'[t] = o /\ copy'[t] = Proposal(o, wf)
          /\ Others(t) /\ TypeOK'
      BY <1>2, <1>3, <2>1 DEF Goto, TypeOK, Others, Locations
    <2>3. PlaceOK(t)'
      BY <1>1, <2>2, ProposalFields DEF PlaceOK, Operations, Record
    <2>4. ApprovalOK(t)'
      BY <1>1, <1>2, <1>3, <2>2, ProposalFields
      DEF ApprovalOK, Holding, Operations, Record, Admits, Undecided, ApprovalGate,
          Working, Cleared, Approval
    <2>5. VersionOK(t)'
      BY <1>1, <1>2, <2>2, ProposalFields DEF VersionOK, Operations, Record
    <2>6. LeaseOK(t)' /\ SettledOK(t)'
      BY <2>2 DEF LeaseOK, SettledOK, Settled, Executing
    <2> QED
      BY <1>2, <1>3, <2>2, <2>3, <2>4, <2>5, <2>6, QuietStep DEF ThreadOK
  <1>4. CASE Answer(t, {"ERROR"})
    BY <1>2, <1>4, AnswerFacts, QuietStep DEF TypeOK
  <1> QED
    BY <1>3, <1>4 DEF Read

LEMMA ExecuteResumedKeeps ==
    ASSUME Inductive, NEW t \in Threads, ExecuteResumed(t)
    PROVE  Inductive'
  <1>1. CASE Read(t, "execute")
    BY <1>1, ReadKeeps DEF ExecuteResumed, Operations
  <1>2. CASE Answer(t, {}) /\ UNCHANGED shared
    <2>1. wf.status # "ABSENT" /\ pc[t] # "checkpoint" /\ ~Executing(t)
      BY DEF ExecuteResumed, Inductive, StoreOK, Executing
    <2> QED
      BY <1>2, <2>1, AnswerFacts, QuietStep DEF TypeOK, shared, Inductive
  <1> QED
    BY <1>1, <1>2 DEF ExecuteResumed

\* A refused write leaves the store as it is and is answered.
LEMMA RefusedKeeps ==
    ASSUME Inductive, NEW t \in Threads, Holding(t), pc[t] # "checkpoint",
           NEW claim \in SUBSET {"ERROR"}, Answer(t, claim),
           UNCHANGED <<wf, lease, checkpoint, memory, published>>,
           ~(wf.status = "RUNNING" /\ Executing(t) /\ run[t] = lease)
    PROVE  Inductive'
  <1>1. TypeOK /\ wf.status # "ABSENT"
    BY DEF Inductive, StoreOK, Holding
  <1>2. claim \in SUBSET (Final \cup {"ERROR"})
    OBVIOUS
  <1>3. TypeOK' /\ Others(t) /\ ThreadOK(t)' /\ told' = told \cup claim
    BY <1>1, <1>2, AnswerFacts DEF TypeOK
  <1> QED
    BY <1>1, <1>3, QuietStep

\* The facts common to all accepted writes of the record a thread holds.
LEMMA SavedFacts ==
    ASSUME Inductive, NEW t \in Threads, Holding(t), pc[t] \notin {"memory", "result"},
           copy[t].status \notin {"ABSENT", "CREATED", "AWAITING_APPROVAL"},
           Saved(copy[t])
    PROVE  /\ Evolves /\ wf' = copy[t]
           /\ wf'.status \in Working => Cleared(wf'.approval)
           /\ wf'.version # wf.version => pc[t] = "commit" /\ op[t] = "pause"
  <1>1. copy[t] \in Record /\ wf \in Record
    BY DEF Inductive, TypeOK
  <1>2. copy[t].status = "RUNNING" => copy[t].version <= wf.version
    BY DEF Inductive, ThreadOK, VersionOK, PlaceOK
  <1>3. ApprovalOK(t) /\ VersionOK(t) /\ TypeOK
    BY DEF Inductive, ThreadOK
  <1>4. Evolves /\ wf' = copy[t]
    BY <1>1, <1>2, <1>3, SavedEvolves DEF ApprovalOK
  <1>5. wf'.version # wf.version => pc[t] = "commit" /\ op[t] = "pause"
    BY <1>1, <1>3, <1>4 DEF VersionOK, Evolves, Record
  <1> QED
    BY <1>3, <1>4, <1>5 DEF ApprovalOK

LEMMA CommitKeeps ==
    ASSUME Inductive, NEW t \in Threads, Commit(t)
    PROVE  Inductive'
  <1>1. /\ TypeOK /\ ThreadOK(t) /\ pc[t] = "commit" /\ Holding(t)
        /\ ~Executing(t) /\ copy[t] \in Record
        /\ UNCHANGED <<checkpoint, memory, published>>
    BY DEF Inductive, Commit, Holding, Executing, TypeOK
  <1>2. CASE Saved(copy[t]) /\ AfterCommit(t)
    <2>1. copy[t].status \in {"READY", "RUNNING", "PAUSED", "CANCELLED", "FAILED"}
      BY <1>1 DEF ThreadOK, PlaceOK
    <2>2. /\ Evolves /\ wf' = copy[t]
          /\ wf'.status \in Working => Cleared(wf'.approval)
          /\ wf'.version # wf.version => op[t] = "pause"
      BY <1>1, <1>2, <2>1, SavedFacts
    <2>3. lease' \in Nat /\ wf' \in Record
      BY <2>2 DEF Evolves
    <2>4. op[t] = "execute" <=> wf'.status = "RUNNING"
      BY <1>1, <2>2 DEF ThreadOK, PlaceOK
    <2>5. CASE /\ op[t] = "execute" /\ Goto(t, "executing")
               /\ run' = [run EXCEPT ![t] = lease'] /\ UNCHANGED <<op, copy, told>>
      <3>1. /\ pc'[t] = "executing" /\ run'[t] = lease' /\ copy'[t] = copy[t]
            /\ TypeOK' /\ Others(t)
        BY <1>1, <2>3, <2>5 DEF TypeOK, Goto, Others, Locations
      <3>2. ThreadOK(t)'
        BY <1>1, <2>2, <2>3, <2>4, <2>5, <3>1
        DEF ThreadOK, PlaceOK, ApprovalOK, VersionOK, LeaseOK, SettledOK, Settled, Record, Holding
      <3> QED
        BY <1>1, <2>1, <2>2, <2>5, <3>1, <3>2, WritingStep DEF Executing
    <2>6. CASE \/ op[t] = "pause" /\ Goto(t, "checkpoint") /\ Stay(t)
               \/ op[t] = "resume" /\ Goto(t, "resumed") /\ Stay(t)
               \/ op[t] = "cancel" /\ Goto(t, "announce") /\ Stay(t)
      <3>1. PICK where \in {"checkpoint", "resumed", "announce"} :
               /\ Goto(t, where) /\ Stay(t)
               /\ where = "checkpoint" <=> op[t] = "pause"
               /\ where = "announce" <=> op[t] = "cancel"
        BY <2>6
      <3>2. /\ pc'[t] = where /\ copy'[t] = copy[t] /\ told' = told /\ run' = run
            /\ TypeOK' /\ Others(t)
        BY <1>1, <2>3, <3>1, GotoFacts DEF TypeOK, Locations
      <3>3. ThreadOK(t)'
        BY <1>1, <2>2, <2>3, <3>1, <3>2
        DEF ThreadOK, PlaceOK, ApprovalOK, VersionOK, LeaseOK, SettledOK, Settled,
            Executing, Holding, Outcomes, Final, Record
      <3>4. wf'.status # "RUNNING"
        BY <2>4, <2>6
      <3> QED
        BY <1>1, <2>1, <2>2, <3>1, <3>2, <3>3, <3>4, WritingStep
    <2>7. CASE \/ op[t] = "approve" /\ Answer(t, {})
               \/ op[t] = "reject" /\ Answer(t, {copy[t].status})
      <3>1. PICK claim \in SUBSET {copy[t].status} :
               Answer(t, claim) /\ (claim # {} => op[t] = "reject")
        BY <2>7
      <3>2. claim \in SUBSET (Final \cup {"ERROR"})
        BY <1>1, <3>1 DEF ThreadOK, PlaceOK, Final
      <3>3. /\ pc'[t] = "idle" /\ told' = told \cup claim /\ ThreadOK(t)' /\ Others(t)
            /\ TypeOK'
        BY <1>1, <2>3, <3>1, <3>2, AnswerFacts DEF TypeOK
      <3>4. wf'.status # "RUNNING"
        BY <2>4, <2>7
      <3> QED
        BY <1>1, <2>1, <2>2, <2>7, <3>3, <3>4, WritingStep
    <2> QED
      BY <1>2, <2>5, <2>6, <2>7 DEF AfterCommit
  <1>3. CASE Conflicts(copy[t]) /\ Answer(t, {})
    BY <1>1, <1>3, RefusedKeeps DEF Conflicts
  <1>4. CASE Regresses(copy[t]) /\ Answer(t, {"ERROR"})
    BY <1>1, <1>4, RefusedKeeps DEF Regresses
  <1> QED
    BY <1>2, <1>3, <1>4 DEF Commit

LEMMA IdentityMismatchKeeps ==
    ASSUME Inductive, NEW t \in Threads, IdentityMismatch(t)
    PROVE  Inductive'
  <1> DEFINE failed == WithStatus(copy[t], "FAILED")
  <1>1. /\ TypeOK /\ ThreadOK(t) /\ pc[t] = "executing" /\ Holding(t)
        /\ copy[t] \in Record /\ wf \in Record /\ wf.status # "ABSENT"
        /\ UNCHANGED <<checkpoint, memory, published>>
    BY DEF Inductive, IdentityMismatch, Holding, TypeOK, StoreOK
  <1>2. /\ failed \in Record /\ failed.status = "FAILED"
        /\ failed.approval = copy[t].approval /\ failed.version = copy[t].version
    BY <1>1, RecordFields, 0 \in Nat, "FAILED" \in Status, "PENDING" \in Approval
    DEF Status, Approval
  <1>3. copy[t].version <= wf.version
    BY <1>1 DEF ThreadOK, VersionOK, Holding
  <1>4. CASE Saved(failed) /\ Goto(t, "announce")
             /\ copy' = [copy EXCEPT ![t] = failed] /\ UNCHANGED <<op, run, told>>
    <2>1. Evolves /\ wf' = failed
      BY <1>1, <1>2, <1>4, SavedEvolves DEF ThreadOK, ApprovalOK
    <2>2. wf'.version = wf.version
      BY <1>1, <1>2, <1>3, <2>1 DEF Evolves, Record
    <2>3. /\ pc'[t] = "announce" /\ copy'[t] = failed /\ told' = told
          /\ TypeOK' /\ Others(t)
      BY <1>1, <1>2, <1>4, <2>1 DEF TypeOK, Goto, Others, Locations, Evolves
    <2>4. ThreadOK(t)'
      BY <1>1, <1>2, <2>1, <2>2, <2>3
      DEF ThreadOK, PlaceOK, ApprovalOK, VersionOK, LeaseOK, SettledOK, Settled,
          Executing, Holding, Final, Working, Record
    <2> QED
      BY <1>1, <1>2, <2>1, <2>2, <2>3, <2>4, WritingStep DEF Working
  <1>5. CASE Conflicts(failed) /\ Answer(t, {})
    <2>1. wf.status # "RUNNING"
      BY <1>2, <1>5 DEF Conflicts, StaleStatus, CanMove
    <2> QED
      BY <1>1, <1>5, <2>1, RefusedKeeps DEF Conflicts
  <1>6. CASE Regresses(failed) /\ Answer(t, {"ERROR"})
    <2>1. ~(copy[t].version >= wf.version)
      BY <1>1, <1>2, <1>6 DEF Regresses, StaleVersion, Record
    <2>2. ~(wf.status = "RUNNING" /\ Executing(t) /\ run[t] = lease)
      BY <1>1, <2>1 DEF ThreadOK, LeaseOK
    <2> QED
      BY <1>1, <1>6, <2>2, RefusedKeeps DEF Regresses
  <1> QED
    BY <1>4, <1>5, <1>6 DEF IdentityMismatch, WithStatus

LEMMA FinishRunKeeps ==
    ASSUME Inductive, NEW t \in Threads, NEW outcome \in Outcomes, FinishRun(t, outcome)
    PROVE  Inductive'
  <1>1. /\ TypeOK /\ ThreadOK(t) /\ pc[t] = "executing" /\ wf.status # "ABSENT"
        /\ copy[t] \in Record /\ wf \in Record /\ run[t] \in Nat
        /\ UNCHANGED <<wf, checkpoint, memory, published, lease, op, run, told>>
    BY DEF Inductive, FinishRun, TypeOK, StoreOK, shared
  <1>2. /\ copy' \in [Threads -> Record]
        /\ copy'[t].status = outcome /\ copy'[t].approval = copy[t].approval
        /\ copy'[t].version = copy[t].version + 1
    <2>1. outcome \in Status
      BY DEF Outcomes, Final, Status
    <2>2. copy' = [copy EXCEPT ![t].status = outcome, ![t].version = @ + 1,
                               ![t].latest = run[t]]
      BY DEF FinishRun
    <2> QED
      BY <1>1, <2>1, <2>2 DEF TypeOK, Record
  <1>3. pc'[t] = "memory" /\ TypeOK' /\ Others(t)
    BY <1>1, <1>2 DEF TypeOK, FinishRun, Goto, Others, Locations
  <1>4. ThreadOK(t)'
    <2>1. ApprovalOK(t)'
      BY <1>1, <1>2, <1>3 DEF ThreadOK, PlaceOK, ApprovalOK, Holding, Working
    <2>2. LeaseOK(t)'
      BY <1>1, <1>2, <1>3 DEF ThreadOK, LeaseOK, Executing, Record
    <2> QED
      BY <1>2, <1>3, <2>1, <2>2 DEF ThreadOK, PlaceOK, VersionOK, SettledOK, Settled
  <1> QED
    BY <1>1, <1>3, <1>4, QuietStep DEF Executing

LEMMA PersistMemoryKeeps ==
    ASSUME Inductive, NEW t \in Threads, PersistMemory(t)
    PROVE  Inductive'
  <1>1. /\ TypeOK /\ ThreadOK(t) /\ pc[t] = "memory" /\ wf.status # "ABSENT"
        /\ UNCHANGED <<wf, checkpoint, published, lease>>
        /\ Goto(t, "result") /\ Stay(t)
    BY DEF Inductive, PersistMemory, StoreOK
  <1>2. memory' \in [Tasks -> Nat]
    BY DEF Inductive, TypeOK, PersistMemory
  <1>3. /\ pc'[t] = "result" /\ copy' = copy /\ run' = run /\ op' = op /\ told' = told
        /\ Others(t) /\ TypeOK'
    BY <1>1, <1>2, GotoFacts DEF TypeOK, Locations
  <1>4. ThreadOK(t)'
    BY <1>1, <1>3
    DEF ThreadOK, PlaceOK, ApprovalOK, VersionOK, LeaseOK, SettledOK, Settled, Executing, Holding
  <1> QED
    BY <1>1, <1>3, <1>4, QuietStep DEF Executing

LEMMA CommitResultKeeps ==
    ASSUME Inductive, NEW t \in Threads, CommitResult(t)
    PROVE  Inductive'
  <1>1. /\ TypeOK /\ ThreadOK(t) /\ pc[t] = "result" /\ Holding(t) /\ Executing(t)
        /\ copy[t] \in Record /\ wf \in Record /\ wf.status # "ABSENT"
        /\ copy[t].status \in Outcomes
        /\ UNCHANGED <<checkpoint, memory, published>>
    BY DEF Inductive, CommitResult, Holding, Executing, TypeOK, StoreOK, ThreadOK, PlaceOK
  <1>2. CASE Saved(copy[t]) /\ Goto(t, "checkpoint") /\ Stay(t)
    <2>1. Evolves /\ wf' = copy[t]
      BY <1>1, <1>2, SavedEvolves DEF ThreadOK, ApprovalOK, Outcomes, Final
    <2>2. /\ pc'[t] = "checkpoint" /\ copy' = copy /\ run' = run /\ told' = told
          /\ Others(t) /\ TypeOK'
      BY <1>1, <1>2, <2>1, GotoFacts DEF TypeOK, Locations, Evolves
    <2>3. ThreadOK(t)'
      BY <1>1, <2>1, <2>2
      DEF ThreadOK, PlaceOK, ApprovalOK, VersionOK, LeaseOK, SettledOK, Settled,
          Executing, Holding, Record
    <2> QED
      BY <1>1, <2>1, <2>2, <2>3, WritingStep DEF ThreadOK, ApprovalOK, Outcomes, Final
  <1>3. CASE Conflicts(copy[t]) /\ Answer(t, {})
    <2>1. wf.status # "RUNNING"
      BY <1>1, <1>3 DEF Conflicts, StaleStatus, CanMove, Outcomes, Final
    <2> QED
      BY <1>1, <1>3, <2>1, RefusedKeeps DEF Conflicts
  <1>4. CASE Regresses(copy[t]) /\ Answer(t, {"ERROR"})
    <2>1. ~(copy[t].version >= wf.version)
      BY <1>1, <1>4 DEF Regresses, StaleVersion, Record
    <2>2. ~(wf.status = "RUNNING" /\ Executing(t) /\ run[t] = lease)
      BY <1>1, <2>1 DEF ThreadOK, LeaseOK
    <2> QED
      BY <1>1, <1>4, <2>2, RefusedKeeps DEF Regresses
  <1> QED
    BY <1>2, <1>3, <1>4 DEF CommitResult

\* save_checkpoint: the thread that replaces the newest checkpoint is the one
\* the record has been waiting for; a refused one was not.
LEMMA SaveCheckpointKeeps ==
    ASSUME Inductive, NEW t \in Threads, SaveCheckpoint(t)
    PROVE  Inductive'
  <1> USE DEF Inductive
  <1>1. /\ TypeOK /\ ThreadOK(t) /\ pc[t] = "checkpoint" /\ ~Executing(t)
        /\ copy[t] \in Record /\ wf \in Record /\ wf.status # "ABSENT"
        /\ copy[t].version <= wf.version
        /\ UNCHANGED <<wf, memory, published, lease>>
    BY DEF SaveCheckpoint, Executing, TypeOK, StoreOK, ThreadOK, VersionOK, Holding
  <1>2. /\ checkpoint' \in [version : Nat, latest : Nat]
        /\ checkpoint'.version <= wf.version
        /\ checkpoint'.version >= copy[t].version
        /\ checkpoint'.version >= checkpoint.version
    <2>1. checkpoint \in [version : Nat, latest : Nat] /\ checkpoint.version <= wf.version
      BY DEF TypeOK, CheckpointFollowsRecord
    <2>2. \/ /\ Newer(copy[t].version)
             /\ checkpoint' = [version |-> copy[t].version, latest |-> copy[t].latest]
          \/ ~Newer(copy[t].version) /\ UNCHANGED checkpoint
      BY DEF SaveCheckpoint
    <2> QED
      BY <1>1, <2>1, <2>2 DEF Newer, Record
  <1>3. /\ TypeOK' /\ ThreadOK(t)' /\ Others(t)
        /\ told' \subseteq told \cup {"ERROR"}
    <2>1. CASE \E claim \in {{}, {"ERROR"}} : Answer(t, claim)
      BY <1>1, <1>2, <2>1, AnswerFacts DEF TypeOK
    <2>2. CASE copy[t].status # "PAUSED" /\ Goto(t, "notify") /\ Stay(t)
      <3>1. /\ pc'[t] = "notify" /\ copy' = copy /\ run' = run /\ op' = op /\ told' = told
            /\ TypeOK' /\ Others(t)
        BY <1>1, <1>2, <2>2, GotoFacts DEF TypeOK, Locations
      <3>2. ThreadOK(t)'
        BY <1>1, <2>2, <3>1
        DEF ThreadOK, PlaceOK, ApprovalOK, VersionOK, LeaseOK, SettledOK, Settled,
            Executing, Holding, Outcomes
      <3> QED
        BY <3>1, <3>2
    <2> QED
      BY <2>1, <2>2 DEF SaveCheckpoint
  <1>4. Evolves
    BY <1>1 DEF Evolves, TypeOK, Record
  <1>5. \A u \in Threads : ThreadOK(u)'
    <2> TAKE u \in Threads
    <2>1. CASE u # t
      BY <1>3, <1>4, <2>1, Bystander DEF Others
    <2> QED
      BY <1>3, <2>1
  <1>6. ApprovalGate' /\ RunningHasExecutor' /\ StoreOK'
    BY <1>1, <1>3 DEF ApprovalGate, RunningHasExecutor, StoreOK, Executing, Others
  <1>7. CheckpointFollowsRecord'
    BY <1>1, <1>2, <1>3 DEF CheckpointFollowsRecord, Others, TypeOK, Record
  <1>8. NotificationsTruthful' /\ AnswersStayTrue'
    BY <1>1, <1>3 DEF NotificationsTruthful, AnswersStayTrue
  <1> QED
    BY <1>3, <1>5, <1>6, <1>7, <1>8

LEMMA AnnounceKeeps ==
    ASSUME Inductive, NEW t \in Threads, Announce(t)
    PROVE  Inductive'
  <1>1. /\ TypeOK /\ ThreadOK(t) /\ pc[t] = "announce" /\ wf.status # "ABSENT"
        /\ copy[t].status \in Final /\ copy[t].status = wf.status
        /\ UNCHANGED <<wf, checkpoint, memory, lease>>
    BY DEF Inductive, Announce, StoreOK, ThreadOK, PlaceOK, SettledOK, Settled
  <1>2. published' \subseteq published \cup {wf.status} /\ published' \subseteq Final
    BY <1>1 DEF Announce, TypeOK
  <1>3. /\ TypeOK' /\ ThreadOK(t)' /\ Others(t) /\ told' = told \cup {wf.status}
    BY <1>1, <1>2, AnswerFacts DEF Announce, TypeOK
  <1> QED
    BY <1>1, <1>2, <1>3, QuietStep DEF Executing

LEMMA NotifyKeeps ==
    ASSUME Inductive, NEW t \in Threads, Notify(t)
    PROVE  Inductive'
  <1>1. /\ TypeOK /\ ThreadOK(t) /\ pc[t] = "notify" /\ wf.status # "ABSENT"
        /\ copy[t].status \in Final /\ copy[t].status = wf.status
        /\ UNCHANGED <<wf, checkpoint, memory, lease>>
    BY DEF Inductive, Notify, StoreOK, ThreadOK, PlaceOK, SettledOK, Settled
  <1>2. CASE published' = published \cup {copy[t].status} /\ Answer(t, {copy[t].status})
    <2>1. published' \subseteq Final
      BY <1>1, <1>2 DEF TypeOK
    <2>2. /\ TypeOK' /\ ThreadOK(t)' /\ Others(t) /\ told' = told \cup {wf.status}
      BY <1>1, <1>2, <2>1, AnswerFacts DEF TypeOK
    <2> QED
      BY <1>1, <1>2, <2>2, QuietStep DEF Executing
  <1>3. CASE Goto(t, "resave") /\ Stay(t) /\ UNCHANGED published
    <2>1. /\ pc'[t] = "resave" /\ copy' = copy /\ run' = run /\ op' = op /\ told' = told
          /\ TypeOK' /\ Others(t)
      BY <1>1, <1>3, GotoFacts DEF TypeOK, Locations
    <2>2. ThreadOK(t)'
      BY <1>1, <2>1
      DEF ThreadOK, PlaceOK, ApprovalOK, VersionOK, LeaseOK, SettledOK, Settled,
          Executing, Holding
    <2> QED
      BY <1>1, <1>3, <2>1, <2>2, QuietStep DEF Executing
  <1> QED
    BY <1>2, <1>3 DEF Notify

LEMMA ResaveKeeps ==
    ASSUME Inductive, NEW t \in Threads, Resave(t)
    PROVE  Inductive'
  <1>1. /\ TypeOK /\ ThreadOK(t) /\ pc[t] = "resave" /\ Holding(t) /\ ~Executing(t)
        /\ copy[t].status \in Final /\ wf.status # "ABSENT"
        /\ UNCHANGED <<checkpoint, memory, published>>
    BY DEF Inductive, Resave, StoreOK, ThreadOK, PlaceOK, Holding, Executing
  <1>2. CASE Saved(copy[t]) /\ Answer(t, {copy[t].status})
    <2>1. /\ Evolves /\ wf' = copy[t] /\ wf'.version = wf.version
          /\ wf'.status \in Working => Cleared(wf'.approval)
      BY <1>1, <1>2, SavedFacts DEF Final
    <2>2. /\ TypeOK' /\ ThreadOK(t)' /\ Others(t) /\ told' = told \cup {wf'.status}
      BY <1>1, <1>2, <2>1, AnswerFacts DEF TypeOK, Evolves
    <2> QED
      BY <1>1, <2>1, <2>2, WritingStep DEF Final
  <1>3. CASE Refused(copy[t]) /\ Answer(t, {"ERROR"})
    BY <1>1, <1>3, RefusedKeeps DEF Refused
  <1> QED
    BY <1>2, <1>3 DEF Resave

LEMMA NextKeeps == Inductive /\ [Next]_vars => Inductive'
  <1> SUFFICES ASSUME Inductive, [Next]_vars PROVE Inductive'
    OBVIOUS
  <1>1. CASE UNCHANGED vars
    <2>1. TypeOK' /\ ApprovalGate' /\ RunningHasExecutor' /\ CheckpointFollowsRecord'
      BY <1>1 DEF vars, Inductive, TypeOK, ApprovalGate, RunningHasExecutor, Executing,
                  CheckpointFollowsRecord
    <2>2. NotificationsTruthful' /\ AnswersStayTrue' /\ StoreOK'
      BY <1>1 DEF vars, Inductive, NotificationsTruthful, AnswersStayTrue, StoreOK
    <2>3. \A u \in Threads : ThreadOK(u)'
      BY <1>1 DEF vars, Inductive, ThreadOK, PlaceOK, ApprovalOK, VersionOK, LeaseOK,
                  SettledOK, Settled, Executing, Holding
    <2> QED
      BY <2>1, <2>2, <2>3 DEF Inductive
  <1>2. ASSUME NEW t \in Threads, Create(t) PROVE Inductive'
    BY <1>2, CreateKeeps
  <1>3. ASSUME NEW t \in Threads, NEW o \in Operations, Begin(t, o) PROVE Inductive'
    BY <1>3, ReadKeeps DEF Begin
  <1>4. ASSUME NEW t \in Threads, Continue(t) PROVE Inductive'
    <2>1. CASE \E outcome \in Outcomes : FinishRun(t, outcome)
      BY <1>4, <2>1, FinishRunKeeps
    <2>2. CASE ExecuteResumed(t) \/ Commit(t) \/ IdentityMismatch(t)
      BY <1>4, <2>2, ExecuteResumedKeeps, CommitKeeps, IdentityMismatchKeeps
    <2>3. CASE PersistMemory(t) \/ CommitResult(t) \/ SaveCheckpoint(t)
      BY <1>4, <2>3, PersistMemoryKeeps, CommitResultKeeps, SaveCheckpointKeeps
    <2>4. CASE Announce(t) \/ Notify(t) \/ Resave(t)
      BY <1>4, <2>4, AnnounceKeeps, NotifyKeeps, ResaveKeeps
    <2> QED
      BY <1>4, <2>1, <2>2, <2>3, <2>4 DEF Continue
  <1> QED
    BY <1>1, <1>2, <1>3, <1>4 DEF Next

-----------------------------------------------------------------------------
(* Theorems *)

\* The inductive invariant holds in every reachable state.
THEOREM InductiveInvariant == Spec => []Inductive
  BY InitInductive, NextKeeps, PTL DEF Spec

\* The variables keep their types: threads, store and answers.
THEOREM TypeCorrect == Spec => []TypeOK
  <1>1. Inductive => TypeOK
    BY DEF Inductive
  <1> QED
    BY <1>1, InductiveInvariant, PTL

\* No interleaving of approvals, rejections, executions and resumes lets a
\* workflow that awaits a decision be worked on without an approval.
THEOREM NoWorkWithoutApproval == Spec => []ApprovalGate
  <1>1. Inductive => ApprovalGate
    BY DEF Inductive
  <1> QED
    BY <1>1, InductiveInvariant, PTL

\* A RUNNING record always has an execution in flight that will end it.
THEOREM NoOrphanedRun == Spec => []RunningHasExecutor
  <1>1. Inductive => RunningHasExecutor
    BY DEF Inductive
  <1> QED
    BY <1>1, InductiveInvariant, PTL

\* A stored checkpoint is never ahead of its record, and lags behind it only
\* while a thread is about to store the missing one.
THEOREM CheckpointsInStep == Spec => []CheckpointFollowsRecord
  <1>1. Inductive => CheckpointFollowsRecord
    BY DEF Inductive
  <1> QED
    BY <1>1, InductiveInvariant, PTL

\* When no operation is in flight the stores agree: nothing is RUNNING, and the
\* checkpoint a resume would start from is the one the record counts.
RestIsConsistent ==
    (\A t \in Threads : pc[t] = "idle") =>
        wf.status # "RUNNING" /\ checkpoint.version = wf.version

\* Whatever operations raced or were refused by the store, what they leave once
\* all have returned is a workflow that can be read, resumed or executed.
THEOREM RestStaysConsistent == Spec => []RestIsConsistent
  <1>1. Inductive => RestIsConsistent
    <2> SUFFICES ASSUME Inductive, \A t \in Threads : pc[t] = "idle"
                 PROVE  wf.status # "RUNNING" /\ checkpoint.version = wf.version
      BY DEF RestIsConsistent
    <2>1. wf.status # "RUNNING"
      BY DEF Inductive, RunningHasExecutor, Executing
    <2>2. checkpoint.version <= wf.version /\ ~(checkpoint.version < wf.version)
      BY DEF Inductive, CheckpointFollowsRecord
    <2>3. checkpoint.version \in Nat /\ wf.version \in Nat
      BY DEF Inductive, TypeOK, Record
    <2> QED
      BY <2>1, <2>2, <2>3
  <1> QED
    BY <1>1, InductiveInvariant, PTL

\* Notifications and answers that report a final status stay true.
THEOREM ReportsStayTrue == Spec => [](NotificationsTruthful /\ AnswersStayTrue)
  <1>1. Inductive => NotificationsTruthful /\ AnswersStayTrue
    BY DEF Inductive
  <1> QED
    BY <1>1, InductiveInvariant, PTL

\* A record that a thread may store.
Storable(new) ==
    /\ new \in Record
    /\ new.status \notin {"ABSENT", "CREATED", "AWAITING_APPROVAL"}
    /\ new.status \in Working => Cleared(new.approval)
    /\ new.approval = "NOT_REQUIRED" <=> wf.approval = "NOT_REQUIRED"

\* Every write of the record is its creation or a save that the store accepts.
LEMMA Writes ==
    ASSUME Inductive, Next
    PROVE  \/ wf' = wf
           \/ \E t \in Threads : Create(t)
           \/ wf.status # "ABSENT" /\ \E new : Storable(new) /\ Saved(new)
  <1>1. ASSUME NEW t \in Threads, NEW o \in Operations, Begin(t, o) PROVE wf' = wf
    BY <1>1 DEF Begin, Read, shared
  <1>2. ASSUME NEW t \in Threads, Continue(t), wf' # wf
        PROVE  wf.status # "ABSENT" /\ \E new : Storable(new) /\ Saved(new)
    <2>1. wf.status # "ABSENT"
      <3>1. pc[t] # "idle"
        BY <1>2 DEF Continue, ExecuteResumed, Commit, IdentityMismatch, FinishRun,
                    PersistMemory, CommitResult, SaveCheckpoint, Announce, Notify, Resave
      <3> QED
        BY <3>1 DEF Inductive, StoreOK
    <2>2. ThreadOK(t) /\ copy[t] \in Record
      BY DEF Inductive, TypeOK
    <2>3. CASE Commit(t) \/ CommitResult(t) \/ Resave(t)
      <3>1. Saved(copy[t]) /\ pc[t] \in {"commit", "result", "resave"}
        BY <1>2, <2>3 DEF Commit, CommitResult, Resave, Conflicts, Regresses, Refused
      <3>2. Storable(copy[t])
        BY <2>2, <3>1
        DEF Storable, ThreadOK, PlaceOK, ApprovalOK, Holding, Outcomes, Final
      <3> QED
        BY <2>1, <3>1, <3>2
    <2>4. CASE IdentityMismatch(t)
      <3> DEFINE failed == WithStatus(copy[t], "FAILED")
      <3>1. Saved(failed) /\ pc[t] = "executing"
        BY <1>2, <2>4 DEF IdentityMismatch, Conflicts, Regresses, WithStatus
      <3>2. failed \in Record /\ failed.status = "FAILED" /\ failed.approval = copy[t].approval
        BY <2>2, RecordFields, 0 \in Nat DEF Status, Approval
      <3>3. Storable(failed)
        BY <2>2, <3>1, <3>2 DEF Storable, ThreadOK, ApprovalOK, Holding, Working
      <3> QED
        BY <2>1, <3>1, <3>3
    <2>5. CASE \/ ExecuteResumed(t) \/ \E outcome \in Outcomes : FinishRun(t, outcome)
               \/ PersistMemory(t) \/ SaveCheckpoint(t) \/ Announce(t) \/ Notify(t)
      BY <1>2, <2>5 DEF ExecuteResumed, Read, FinishRun, PersistMemory, SaveCheckpoint,
                        Announce, Notify, shared
    <2> QED
      BY <1>2, <2>3, <2>4, <2>5 DEF Continue
  <1> QED
    BY <1>1, <1>2 DEF Next

\* A final status is never left, whatever stale records are written back.
THEOREM FinalStays == Spec => TerminalIsFinal
  <1>1. Inductive /\ [Next]_vars => [IsTerminal(wf.status) => wf'.status = wf.status]_wf
    <2> SUFFICES ASSUME Inductive, Next, wf' # wf, IsTerminal(wf.status)
                 PROVE  wf'.status = wf.status
      BY DEF vars
    <2>1. ~ \E t \in Threads : Create(t)
      BY DEF Create, IsTerminal
    <2>2. PICK new : Storable(new) /\ Saved(new)
      BY <2>1, Writes
    <2> QED
      BY <2>2 DEF Saved, StaleStatus, IsTerminal, CanMove
  <1> QED
    BY <1>1, InductiveInvariant, PTL DEF Spec, TerminalIsFinal

\* The threads implement WorkflowLifecycle: every accepted write is a step of
\* the lifecycle that clients are promised, and every other step is invisible.
THEOREM ManagerImplementsLifecycle == Spec => Lifecycle
  <1>1. Init => L!Init
    BY DEF Init, L!Init, Absent
  <1>2. L!Approval = Approval /\ \A s, next : L!CanMove(s, next) <=> CanMove(s, next)
    BY DEF L!Approval, Approval, L!CanMove, CanMove
  <1>3. Inductive /\ [Next]_vars => [L!Next]_(L!lifecycleVars)
    <2> SUFFICES ASSUME Inductive, Next, wf' # wf
                 PROVE  L!Next \/ UNCHANGED L!lifecycleVars
      BY DEF vars, L!lifecycleVars
    <2>1. CASE \E t \in Threads : Create(t)
      <3>1. wf.status = "ABSENT"
        BY <2>1 DEF Create
      <3>2. \/ wf' = WithStatus(Absent, "READY")
            \/ wf' = WithApproval(Absent, "AWAITING_APPROVAL", "PENDING")
        BY <2>1 DEF Create, WithStatus, WithApproval
      <3>3. \/ wf'.status = "READY" /\ wf'.approval = "NOT_REQUIRED"
            \/ wf'.status = "AWAITING_APPROVAL" /\ wf'.approval = "PENDING"
        <4>1. /\ Absent \in Record /\ Absent.approval = "NOT_REQUIRED" /\ 0 \in Nat
              /\ "READY" \in Status /\ "AWAITING_APPROVAL" \in Status
              /\ "PENDING" \in Approval
          BY DEF Absent, Record, Status, Approval
        <4> QED
          BY <3>2, <4>1, RecordFields
      <3> QED
        BY <3>1, <3>3 DEF L!Next, L!Create
    <2>2. CASE wf.status # "ABSENT" /\ \E new : Storable(new) /\ Saved(new)
      <3>1. PICK new : Storable(new) /\ Saved(new)
        BY <2>2
      <3>2. /\ wf' = new /\ new \in Record /\ wf \in Record
            /\ new.status = wf.status \/ CanMove(wf.status, new.status)
        BY <3>1 DEF Saved, StaleStatus, Storable, Inductive, TypeOK
      <3>3. CASE new.status \in {"CANCELLED", "FAILED"} /\ new.status = wf.status
        BY <1>2, <3>2, <3>3 DEF L!Next, L!Amend, Record
      <3>4. CASE new.status \in {"CANCELLED", "FAILED"} /\ CanMove(wf.status, new.status)
        BY <1>2, <3>2, <3>4 DEF L!Next, L!Close, Record
      <3>5. CASE new.status \in Working
        <4>1. new.approval = wf.approval \/ wf.approval = "PENDING" \/ wf.approval = "REJECTED"
          BY <3>1, <3>2, <3>5 DEF Storable, Cleared, Record, Approval
        <4>2. CASE wf.status = "AWAITING_APPROVAL"
          <5>1. wf.approval = "PENDING"
            BY <4>2 DEF Inductive, ApprovalGate
          <5>2. new.status = "READY" /\ new.approval = "APPROVED"
            BY <3>1, <3>2, <3>5, <4>2, <5>1 DEF Storable, Cleared, CanMove, Working
          <5> QED
            BY <3>2, <4>2, <5>2 DEF L!Next, L!Approve
        <4>3. CASE wf.status \in Working
          <5>1. Cleared(wf.approval)
            BY <4>3 DEF Inductive, ApprovalGate, Working, Cleared
          <5>2. new.approval = wf.approval
            BY <4>1, <5>1 DEF Cleared
          <5>3. CASE new.status = wf.status
            BY <3>2, <5>2, <5>3 DEF L!lifecycleVars
          <5>4. CASE CanMove(wf.status, new.status)
            BY <1>2, <3>2, <3>5, <5>1, <5>2, <5>4
            DEF L!Next, L!Advance, L!Cleared, Cleared, Working
          <5> QED
            BY <3>2, <5>3, <5>4
        <4>4. CASE wf.status \in {"CANCELLED", "FAILED"}
          BY <3>2, <3>5, <4>4 DEF CanMove, Working
        <4> QED
          BY <2>2, <3>2, <4>2, <4>3, <4>4 DEF Inductive, StoreOK, Record, Status, Working
      <3> QED
        BY <3>1, <3>2, <3>3, <3>4, <3>5 DEF Storable, Record, Status, Working
    <2> QED
      BY <2>1, <2>2, Writes
  <1> QED
    BY <1>1, <1>3, InductiveInvariant, PTL DEF Spec, Lifecycle, L!Spec

=============================================================================
