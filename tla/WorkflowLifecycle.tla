-------------------------- MODULE WorkflowLifecycle --------------------------
(***************************************************************************)
(* What a client of the research workflow API is promised about one        *)
(* workflow, whatever the request threads do: the status follows the       *)
(* lifecycle table, work starts only on an approved (or approval-free)     *)
(* workflow, and a final status stays.  WorkflowManager implements this    *)
(* specification with threads that read the record first and write it      *)
(* later.                                                                  *)
(*                                                                         *)
(* The approval recorded beside a final CANCELLED or FAILED status is not  *)
(* promised: Close and Amend let it be any value, because a canceller that *)
(* read the record earlier writes back the approval it read.               *)
(***************************************************************************)
EXTENDS WorkflowStatus

VARIABLES status, approval

lifecycleVars == <<status, approval>>

Cleared(a) == a \in {"NOT_REQUIRED", "APPROVED"}

Init == status = "ABSENT" /\ approval = "NOT_REQUIRED"

Create ==
    /\ status = "ABSENT"
    /\ \/ status' = "READY" /\ approval' = "NOT_REQUIRED"
       \/ status' = "AWAITING_APPROVAL" /\ approval' = "PENDING"

Approve ==
    /\ status = "AWAITING_APPROVAL"
    /\ status' = "READY"
    /\ approval' = "APPROVED"

\* A move among the open statuses, or to a status that reports finished work.
Advance ==
    /\ Cleared(approval)
    /\ CanMove(status, status')
    /\ status' \in {"READY", "RUNNING", "PAUSED", "COMPLETED", "PARTIAL"}
    /\ UNCHANGED approval

\* Cancelled, failed or rejected.
Close ==
    /\ CanMove(status, status')
    /\ status' \in {"CANCELLED", "FAILED"}
    /\ approval' \in Approval

\* A closed record is written again under the same status.
Amend ==
    /\ status \in {"CANCELLED", "FAILED"}
    /\ approval' \in Approval
    /\ UNCHANGED status

Next == Create \/ Approve \/ Advance \/ Close \/ Amend

Spec == Init /\ [][Next]_lifecycleVars

=============================================================================
