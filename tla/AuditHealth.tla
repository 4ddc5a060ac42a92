---------------------------- MODULE AuditHealth ----------------------------
(***************************************************************************)
(* What the audit writer promises, as a function of the outcomes of the    *)
(* writes alone: the pipeline is reported unhealthy exactly when the last  *)
(* Threshold writes all failed.  There is no counter, no flag and no       *)
(* hysteresis: AuditPipeline shows that the writer's three fields and the  *)
(* readiness component implement this.                                     *)
(***************************************************************************)
EXTENDS Integers, Sequences

CONSTANT Threshold, MaxWrites

VARIABLES
    attempts,   \* the outcome of every write so far, TRUE for success
    healthy     \* what /ready shows for the audit pipeline

\* The last Threshold writes exist and all failed.
TailFailed(s) ==
    /\ Len(s) >= Threshold
    /\ \A i \in (Len(s) - Threshold + 1)..Len(s) : ~s[i]

Init == attempts = <<>> /\ healthy = TRUE

Attempt(ok) ==
    /\ Len(attempts) < MaxWrites
    /\ attempts' = Append(attempts, ok)
    /\ healthy' = ~TailFailed(attempts')

Next == \E ok \in BOOLEAN : Attempt(ok)

Spec == Init /\ [][Next]_<<attempts, healthy>>
=============================================================================
