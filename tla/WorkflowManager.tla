--------------------------- MODULE WorkflowManager ---------------------------
(***************************************************************************)
(* ManageResearchWorkflow over InMemoryResearchWorkflowStore, for one      *)
(* workflow (every store operation is keyed by the workflow, and no        *)
(* operation touches two).  The API's handlers are plain functions, so     *)
(* each request runs on a thread of its own.  A thread reads the record,   *)
(* decides on what it read, and writes the whole record back later; only   *)
(* the single store call is under the store's lock.  An execution keeps    *)
(* the record it wrote for as long as the research runs.                   *)
(*                                                                         *)
(* Abstracted: the research itself (PlanExecution models it) is its        *)
(* outcome and the set of tasks it reports as ended; a checkpoint is its   *)
(* version and the execution that produced its results.                    *)
(***************************************************************************)
EXTENDS WorkflowStatus, Naturals

CONSTANTS Threads,     \* request threads
          Tasks,       \* tasks of the workflow's plan
          MaxVersion   \* bound: no pause beyond this checkpoint version

ASSUME BoundAssumption == MaxVersion \in Nat

VARIABLES
    wf,          \* the stored workflow record
    checkpoint,  \* the stored checkpoint (version 0: none stored)
    memory,      \* research memory: the execution that recorded each task (0: none)
    published,   \* final statuses announced by a notification
    lease,       \* history: number of moves of the stored record into RUNNING
    told,        \* history: the final statuses callers were answered with, and
                 \* ERROR when an exception left an operation (the API's 500)
    pc, op, copy, run   \* per thread: where it is, the operation it serves,
                        \* the record it holds, the lease of its execution

shared == <<wf, checkpoint, memory, published, lease>>
vars == <<wf, checkpoint, memory, published, lease, told, pc, op, copy, run>>

Operations == {"execute", "pause", "resume", "cancel", "approve", "reject"}

Final == {"CANCELLED", "COMPLETED", "PARTIAL", "FAILED"}

\* Faulty variant: one end of an execution is not mapped to a status.
UnmappedOutcomes == {"PAUSED", "BUDGET_EXCEEDED"} \cup Final

\* The status an execution ends in: PAUSED when the caller's control asked for
\* a soft pause; a blown budget and every other failure are FAILED.
Outcomes == {"PAUSED"} \cup Final

Locations == {"idle", "resumed", "commit", "executing", "memory", "result",
              "checkpoint", "notify", "announce", "resave"}

Record == [status : Status \cup {"ABSENT"}, approval : Approval,
           version : Nat, latest : Nat]

Absent == [status |-> "ABSENT", approval |-> "NOT_REQUIRED",
           version |-> 0, latest |-> 0]

Init ==
    /\ wf = Absent
    /\ checkpoint = [version |-> 0, latest |-> 0]
    /\ memory = [k \in Tasks |-> 0]
    /\ published = {}
    /\ lease = 0
    /\ told = {}
    /\ pc = [t \in Threads |-> "idle"]
    /\ op = [t \in Threads |-> "none"]
    /\ copy = [t \in Threads |-> Absent]
    /\ run = [t \in Threads |-> 0]

-----------------------------------------------------------------------------
(* The store *)

\* Faulty guard: the stored status is not looked at, as before the fix for
\* the cancellation race.
AnyMove(new) == FALSE

\* save_workflow raises WorkflowTransitionError: another status, reached by
\* a move that the record stored now does not allow.
StaleStatus(new) ==
    /\ new.status # wf.status
    /\ ~CanMove(wf.status, new.status)

\* Faulty guard: an older checkpoint version may overwrite a newer one.
AnyVersion(new) == FALSE

\* save_workflow raises WorkflowStoreError: the record would go back to an
\* older checkpoint version.
StaleVersion(new) == new.version < wf.version

\* Store new, or leave the store as it is; the ways a save can end.
Saved(new) ==
    /\ ~StaleStatus(new) /\ ~StaleVersion(new)
    /\ wf' = new
    /\ lease' = IF new.status = "RUNNING" /\ wf.status # "RUNNING"
                THEN lease + 1 ELSE lease

Conflicts(new) == StaleStatus(new) /\ UNCHANGED <<wf, lease>>

Regresses(new) == ~StaleStatus(new) /\ StaleVersion(new) /\ UNCHANGED <<wf, lease>>

Refused(new) == (StaleStatus(new) \/ StaleVersion(new)) /\ UNCHANGED <<wf, lease>>

-----------------------------------------------------------------------------
(* One thread *)

Goto(t, where) == pc' = [pc EXCEPT ![t] = where]

Stay(t) == UNCHANGED <<op, copy, run, told>>

\* Return to the caller with an answer that claims the facts in claim, and
\* forget the operation's local variables.
Answer(t, claim) ==
    /\ Goto(t, "idle")
    /\ told' = told \cup claim
    /\ op' = [op EXCEPT ![t] = "none"]
    /\ copy' = [copy EXCEPT ![t] = Absent]
    /\ run' = [run EXCEPT ![t] = 0]

\* The checks of each operation on the record it read.  When one fails the
\* operation answers NOT_FOUND, CONFLICT, APPROVAL_REQUIRED, REJECTED or, for
\* a pause of a paused workflow, OK, and changes nothing.
Admits(o, w) ==
    /\ w.status # "ABSENT"
    /\ o = "execute" => /\ ~IsTerminal(w.status)
                        /\ w.approval \notin {"PENDING", "REJECTED"}
                        /\ w.status \in {"READY", "PAUSED", "RUNNING"}
                        /\ CanMove(w.status, "RUNNING")
    /\ o = "pause"   => w.status = "RUNNING"
    /\ o = "resume"  => w.status = "PAUSED" /\ w.approval # "PENDING"
    /\ o = "cancel"  => ~IsTerminal(w.status) /\ CanMove(w.status, "CANCELLED")
    /\ o \in {"approve", "reject"} => w.status = "AWAITING_APPROVAL"

\* with_approval raises, uncaught, when the decision has been taken.
Undecided(o, w) == o \in {"approve", "reject"} => w.approval = "PENDING"

\* Faulty variant: a rejection releases the workflow.
DecidedReady(w, decision) ==
    [w EXCEPT !.status = "READY",
              !.approval = IF decision = "approve" THEN "APPROVED" ELSE "REJECTED"]

\* with_approval
Decided(w, decision) ==
    IF decision = "approve" THEN [w EXCEPT !.status = "READY", !.approval = "APPROVED"]
                            ELSE [w EXCEPT !.status = "FAILED", !.approval = "REJECTED"]

\* Faulty variant: resume claims the run itself before it calls execute.
ResumedRunning(w) == [w EXCEPT !.status = "RUNNING"]

Resumed(w) == [w EXCEPT !.status = "READY"]

\* The manual pause carries the results of the record's last checkpoint into a
\* new one (_build_checkpoint).
Paused(w) == [w EXCEPT !.status = "PAUSED", !.version = @ + 1]

\* The record an operation computes from the one it read.
Proposal(o, w) ==
    CASE o = "execute" -> [w EXCEPT !.status = "RUNNING"]
      [] o = "pause"   -> Paused(w)
      [] o = "resume"  -> Resumed(w)
      [] o = "cancel"  -> [w EXCEPT !.status = "CANCELLED"]
      [] o \in {"approve", "reject"} -> Decided(w, o)

-----------------------------------------------------------------------------
(* Operations *)

\* CreateResearchWorkflow: the record is first stored as READY, or as
\* AWAITING_APPROVAL when the policy asks for a human decision.
Create(t) ==
    /\ pc[t] = "idle"
    /\ wf.status = "ABSENT"
    /\ \/ wf' = [Absent EXCEPT !.status = "READY"]
       \/ wf' = [Absent EXCEPT !.status = "AWAITING_APPROVAL", !.approval = "PENDING"]
    /\ UNCHANGED <<checkpoint, memory, published, lease, told, pc, op, copy, run>>

\* get_workflow, the checks, and the record to be written.
Read(t, o) ==
    /\ Admits(o, wf)
    /\ o = "pause" => wf.version < MaxVersion
    /\ \/ /\ Undecided(o, wf)
          /\ Goto(t, "commit")
          /\ op' = [op EXCEPT ![t] = o]
          /\ copy' = [copy EXCEPT ![t] = Proposal(o, wf)]
          /\ UNCHANGED <<run, told>>
       \/ ~Undecided(o, wf) /\ Answer(t, {"ERROR"})
    /\ UNCHANGED shared

Begin(t, o) == pc[t] = "idle" /\ Read(t, o)

\* Having stored READY, resume calls execute, which reads again.
ExecuteResumed(t) ==
    /\ pc[t] = "resumed"
    /\ \/ Read(t, "execute")
       \/ ~Admits("execute", wf) /\ Answer(t, {}) /\ UNCHANGED shared

\* What follows the accepted write of each operation.
AfterCommit(t) ==
    \/ /\ op[t] = "execute"
       /\ Goto(t, "executing")
       /\ run' = [run EXCEPT ![t] = lease']
       /\ UNCHANGED <<op, copy, told>>
    \/ op[t] = "pause" /\ Goto(t, "checkpoint") /\ Stay(t)
    \/ op[t] = "resume" /\ Goto(t, "resumed") /\ Stay(t)
    \/ op[t] = "cancel" /\ Goto(t, "announce") /\ Stay(t)
    \/ op[t] = "approve" /\ Answer(t, {})
    \/ op[t] = "reject" /\ Answer(t, {copy[t].status})

\* _commit_or_conflict catches the transition error and no other.
Commit(t) ==
    /\ pc[t] = "commit"
    /\ \/ Saved(copy[t]) /\ AfterCommit(t)
       \/ Conflicts(copy[t]) /\ Answer(t, {})
       \/ Regresses(copy[t]) /\ Answer(t, {"ERROR"})
    /\ UNCHANGED <<checkpoint, memory, published>>

\* The company no longer resolves to the workflow's: fail without running.
IdentityMismatch(t) ==
    /\ pc[t] = "executing"
    /\ LET failed == [copy[t] EXCEPT !.status = "FAILED"]
       IN \/ /\ Saved(failed)
             /\ Goto(t, "announce")
             /\ copy' = [copy EXCEPT ![t] = failed]
             /\ UNCHANGED <<op, run, told>>
          \/ Conflicts(failed) /\ Answer(t, {})
          \/ Regresses(failed) /\ Answer(t, {"ERROR"})
    /\ UNCHANGED <<checkpoint, memory, published>>

\* The research ends: the new checkpoint is built on the record the execution
\* started from.
FinishRun(t, outcome) ==
    /\ pc[t] = "executing"
    /\ outcome = "PAUSED" => copy[t].version < MaxVersion
    /\ copy' = [copy EXCEPT ![t].status = outcome, ![t].version = @ + 1,
                            ![t].latest = run[t]]
    /\ Goto(t, "memory")
    /\ UNCHANGED <<shared, op, run, told>>

\* _persist_memory, before the commit: the ended tasks without a record get
\* one.  A failing store ends the loop early, with a warning.
PersistMemory(t) ==
    /\ pc[t] = "memory"
    /\ \E ended \in SUBSET Tasks :
          memory' = [k \in Tasks |-> IF k \in ended /\ memory[k] = 0
                                     THEN run[t] ELSE memory[k]]
    /\ Goto(t, "result")
    /\ UNCHANGED <<wf, checkpoint, published, lease>> /\ Stay(t)

\* The commit of _apply_execution_result.
CommitResult(t) ==
    /\ pc[t] = "result"
    /\ \/ Saved(copy[t]) /\ Goto(t, "checkpoint") /\ Stay(t)
       \/ Conflicts(copy[t]) /\ Answer(t, {})
       \/ Regresses(copy[t]) /\ Answer(t, {"ERROR"})
    /\ UNCHANGED <<checkpoint, memory, published>>

Newer(version) == version > checkpoint.version

\* save_checkpoint, which raises, uncaught, unless the version is newer.
SaveCheckpoint(t) ==
    /\ pc[t] = "checkpoint"
    /\ \/ /\ Newer(copy[t].version)
          /\ checkpoint' = [version |-> copy[t].version, latest |-> copy[t].latest]
          /\ \/ copy[t].status = "PAUSED" /\ Answer(t, {})
             \/ copy[t].status # "PAUSED" /\ Goto(t, "notify") /\ Stay(t)
       \/ ~Newer(copy[t].version) /\ Answer(t, {"ERROR"}) /\ UNCHANGED checkpoint
    /\ UNCHANGED <<wf, memory, published, lease>>

\* _notify after a cancel or an identity mismatch: a failure is ignored.
Announce(t) ==
    /\ pc[t] = "announce"
    /\ \/ published' = published \cup {copy[t].status}
       \/ UNCHANGED published
    /\ Answer(t, {copy[t].status})
    /\ UNCHANGED <<wf, checkpoint, memory, lease>>

\* _notify after an execution: a failure is noted in the record.
Notify(t) ==
    /\ pc[t] = "notify"
    /\ \/ published' = published \cup {copy[t].status} /\ Answer(t, {copy[t].status})
       \/ Goto(t, "resave") /\ Stay(t) /\ UNCHANGED published
    /\ UNCHANGED <<wf, checkpoint, memory, lease>>

\* The record is saved again with the warning, outside _commit_or_conflict.
Resave(t) ==
    /\ pc[t] = "resave"
    /\ \/ Saved(copy[t]) /\ Answer(t, {copy[t].status})
       \/ Refused(copy[t]) /\ Answer(t, {"ERROR"})
    /\ UNCHANGED <<checkpoint, memory, published>>

\* What a thread does inside an operation once it has begun it.
Continue(t) ==
    \/ ExecuteResumed(t) \/ Commit(t) \/ IdentityMismatch(t)
    \/ \E outcome \in Outcomes : FinishRun(t, outcome)
    \/ PersistMemory(t) \/ CommitResult(t) \/ SaveCheckpoint(t)
    \/ Announce(t) \/ Notify(t) \/ Resave(t)

Next ==
    \E t \in Threads :
       \/ Create(t)
       \/ \E o \in Operations : Begin(t, o)
       \/ Continue(t)

Spec == Init /\ [][Next]_vars

\* Clients owe nothing; a thread that has begun an operation goes on with it
\* (the research itself ends: PlanExecution).
FairSpec == Spec /\ \A t \in Threads : WF_vars(Continue(t))

-----------------------------------------------------------------------------
(* Properties *)

TypeOK ==
    /\ wf \in Record
    /\ checkpoint \in [version : Nat, latest : Nat]
    /\ memory \in [Tasks -> Nat]
    /\ published \subseteq Final
    /\ lease \in Nat
    /\ told \subseteq Final \cup {"ERROR"}
    /\ pc \in [Threads -> Locations]
    /\ op \in [Threads -> Operations \cup {"none"}]
    /\ copy \in [Threads -> Record]
    /\ run \in [Threads -> Nat]

\* A workflow that asked for a human decision is worked on, or holds results,
\* only after an approval, however reads and writes of concurrent approvals,
\* rejections, executions and resumes interleave.
ApprovalGate ==
    /\ wf.status \in {"READY", "RUNNING", "PAUSED", "COMPLETED", "PARTIAL"}
          => wf.approval \in {"NOT_REQUIRED", "APPROVED"}
    /\ wf.status = "AWAITING_APPROVAL" => wf.approval = "PENDING"

\* A RUNNING record is never orphaned: the execution of its current lease is
\* still in flight and will try to commit an outcome.
Executing(t) == pc[t] \in {"executing", "memory", "result"}

RunningHasExecutor ==
    wf.status = "RUNNING" => \E t \in Threads : Executing(t) /\ run[t] = lease

\* The record is committed before its checkpoint: the stored checkpoint is
\* never of a later version than the record, and one of an earlier version
\* is about to be replaced by the thread that committed the record.
CheckpointFollowsRecord ==
    /\ checkpoint.version <= wf.version
    /\ checkpoint.version < wf.version
          => \E t \in Threads : pc[t] = "checkpoint" /\ copy[t].version = wf.version

\* A notification of a final status is sent only for the status the workflow
\* ends in, even when executions and cancellations race.
NotificationsTruthful == published \subseteq {wf.status}

\* What a caller was told stays true: once an answer has reported a workflow
\* as cancelled, rejected, failed or completed, that is what it remains,
\* whatever the threads still in flight write.
AnswersStayTrue == told \ {"ERROR"} \subseteq {wf.status}

\* A final status is never left, by any write of any thread.
TerminalIsFinal == [][IsTerminal(wf.status) => wf'.status = wf.status]_wf

\* The threads implement the lifecycle a client is promised.
L == INSTANCE WorkflowLifecycle WITH status <- wf.status, approval <- wf.approval

Lifecycle == L!Spec

\* A workflow does not stay RUNNING for ever.
ExecutionEnds == (wf.status = "RUNNING") ~> (wf.status # "RUNNING")

-----------------------------------------------------------------------------
(* What the repository says and the code does not do *)

\* A result is accepted only from the execution whose lease is the current
\* one: a stale execution commits nothing (comment in _apply_execution_result).
StaleExecutionDiscarded ==
    [][\A t \in Threads :
          pc[t] = "result" /\ pc'[t] = "checkpoint" => run[t] = lease]_vars

\* No race between lifecycle operations ends in an unhandled exception
\* (implementation report of the cancellation race).
ConflictsAreAnswered == "ERROR" \notin told

\* An execution answered "stale execution result discarded" has left nothing
\* behind in the research memory.
DiscardedLeavesNoMemory ==
    [][\A t \in Threads :
          pc[t] = "result" /\ pc'[t] = "idle" /\ StaleStatus(copy[t])
             => \A k \in Tasks : memory[k] # run[t]]_vars

=============================================================================
