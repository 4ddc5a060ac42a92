--------------------------- MODULE AuditPipeline ---------------------------
(***************************************************************************)
(* The audit writer driven by an arbitrary sequence of write outcomes.     *)
(* attempts is a history variable: it records the outcomes and constrains  *)
(* nothing.  It is what the writer's counters and flag are measured        *)
(* against.                                                                *)
(***************************************************************************)
EXTENDS AuditWriter, FiniteSets

CONSTANT MaxWrites  \* bound: how many writes are explored

VARIABLE attempts   \* the outcome of every write so far, TRUE for success

vars == <<writerVars, attempts>>

Init == InitWriter /\ attempts = <<>>

Write(ok) ==
    /\ Len(attempts) < MaxWrites
    /\ write(ok)
    /\ attempts' = Append(attempts, ok)

Next == \E ok \in BOOLEAN : Write(ok)

Spec == Init /\ [][Next]_vars

-----------------------------------------------------------------------------
TypeOK ==
    /\ failed_write_count \in Nat
    /\ consecutive_failure_count \in Nat
    /\ degraded \in BOOLEAN
    /\ IsReadiness(readiness, Names)
    /\ attempts \in Seq(BOOLEAN)

\* The indices of the writes that failed.
Failures(s) == {i \in 1..Len(s) : ~s[i]}

\* consecutive_failure_count is the length of the run of failures the history
\* ends with: that many failures, and before them a success or nothing.
CountsTrailingRun ==
    /\ consecutive_failure_count <= Len(attempts)
    /\ \A i \in (Len(attempts) - consecutive_failure_count + 1)..Len(attempts) :
          ~attempts[i]
    /\ consecutive_failure_count < Len(attempts) =>
          attempts[Len(attempts) - consecutive_failure_count]

\* failed_write_count counts every failure since startup and never resets.
CountsEveryFailure == failed_write_count = Cardinality(Failures(attempts))

\* GatewayAuditWriter.write never loses count: both counters are functions of the
\* whole history of outcomes, the one of its tail and the other of all of it.
CountersExact == CountsTrailingRun /\ CountsEveryFailure

\* Exactly the last failure_threshold writes decide degradation: whatever came
\* before them, the writer is degraded iff all of them failed.
DegradedIffTailFailed ==
    degraded <=>
       /\ Len(attempts) >= failure_threshold
       /\ \A i \in (Len(attempts) - failure_threshold + 1)..Len(attempts) : ~attempts[i]

\* The audit_writer component of the tracker is the negation of degraded at
\* every step, so /ready and the strict-mode check never disagree.
ReadinessMirrorsWriter ==
    /\ AUDIT_WRITER_COMPONENT \in Registered(readiness)
    /\ (readiness.ready[AUDIT_WRITER_COMPONENT] <=> ~degraded)

\* Neither degradation nor recovery leaves a stale or missing reason behind, or
\* registers a component twice.
ReadinessWellKept == WellKept(readiness)

-----------------------------------------------------------------------------
\* The writer implements the history-only specification of audit health.
Health == INSTANCE AuditHealth
            WITH Threshold <- failure_threshold,
                 healthy <- readiness.ready[AUDIT_WRITER_COMPONENT]

ImplementsAuditHealth == Health!Spec
=============================================================================
