--------------------------- MODULE WorkflowStatus ---------------------------
(***************************************************************************)
(* The lifecycle table of a research workflow: the statuses, which of them *)
(* are final, and which moves domain/workflow/status.py allows.  A move    *)
(* from a status to itself is never in the table; the store treats such a  *)
(* write as an amendment of the record and not as a move.                  *)
(***************************************************************************)

Status == {"CREATED", "READY", "RUNNING", "PAUSED", "AWAITING_APPROVAL",
           "COMPLETED", "PARTIAL", "FAILED", "CANCELLED"}

Approval == {"NOT_REQUIRED", "PENDING", "APPROVED", "REJECTED"}

IsTerminal(s) == s \in {"COMPLETED", "PARTIAL", "FAILED", "CANCELLED"}

\* Faulty table: a cancelled workflow may still be completed.
CanMoveFromCancelled(s, next) ==
    \/ s = "READY" /\ next \in {"RUNNING", "AWAITING_APPROVAL", "CANCELLED"}
    \/ s = "RUNNING" /\ next \notin {"CREATED", "READY", "RUNNING"}
    \/ s = "PAUSED" /\ next \in {"READY", "RUNNING", "CANCELLED"}
    \/ s = "AWAITING_APPROVAL" /\ next \in {"READY", "CANCELLED", "FAILED"}
    \/ s = "CANCELLED" /\ next = "COMPLETED"

CanMove(s, next) ==
    \/ s = "CREATED" /\ next \in {"READY", "AWAITING_APPROVAL", "CANCELLED"}
    \/ s = "READY" /\ next \in {"RUNNING", "AWAITING_APPROVAL", "CANCELLED"}
    \/ s = "RUNNING" /\ next \in {"PAUSED", "AWAITING_APPROVAL", "COMPLETED",
                                  "PARTIAL", "FAILED", "CANCELLED"}
    \/ s = "PAUSED" /\ next \in {"READY", "RUNNING", "CANCELLED"}
    \/ s = "AWAITING_APPROVAL" /\ next \in {"READY", "CANCELLED", "FAILED"}

=============================================================================
