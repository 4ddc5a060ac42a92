---------------------------- MODULE AuditWriter ----------------------------
(***************************************************************************)
(* GatewayAuditWriter (audit/writer.py): counts consecutive failures of    *)
(* the inner writer, degrades at a threshold, recovers at the first        *)
(* success, and signals both transitions to the readiness tracker.         *)
(*                                                                         *)
(* write runs on the event-loop thread only, and the one thing another     *)
(* thread can see of it is the tracker, which it touches at most once per  *)
(* call: the call is one step.                                             *)
(***************************************************************************)
EXTENDS Integers, Sequences, Readiness

CONSTANTS
    FailureThreshold,   \* the failure_threshold argument of the constructor
    Names,              \* the component names of the readiness tracker
    StartupTrackers     \* the trackers the writer may find when it enters service

ASSUME ThresholdAssumption == FailureThreshold \in Int

ASSUME StartupAssumption ==
    \A rs \in StartupTrackers :
       /\ IsReadiness(rs, Names)
       /\ WellKept(rs)
       /\ "audit_writer" \in Registered(rs)
       /\ rs.ready["audit_writer"]

VARIABLES
    failed_write_count,         \* _failed_write_count
    consecutive_failure_count,  \* _consecutive_failure_count
    degraded,                   \* _degraded
    readiness                   \* the ReadinessState shared with /ready

writerVars ==
    <<failed_write_count, consecutive_failure_count, degraded, readiness>>

AUDIT_WRITER_COMPONENT == "audit_writer"
ThresholdReason == "Audit write failures exceeded threshold"

\* max(1, failure_threshold)
failure_threshold == IF FailureThreshold > 1 THEN FailureThreshold ELSE 1

InitWriter ==
    /\ failed_write_count = 0
    /\ consecutive_failure_count = 0
    /\ degraded = FALSE
    /\ readiness \in StartupTrackers

-----------------------------------------------------------------------------
\* The except branch of write: count, and degrade when the threshold is met.
ThresholdMet == consecutive_failure_count + 1 >= failure_threshold

\* Degrades one failure late (> instead of >=).
FailedWriteLate ==
    /\ failed_write_count' = failed_write_count + 1
    /\ consecutive_failure_count' = consecutive_failure_count + 1
    /\ degraded' = (degraded \/ consecutive_failure_count + 1 > failure_threshold)
    /\ readiness' = IF consecutive_failure_count + 1 > failure_threshold /\ ~degraded
                    THEN mark_not_ready(readiness, ThresholdReason, AUDIT_WRITER_COMPONENT)
                    ELSE readiness

\* Degrades without telling the readiness tracker.
FailedWriteSilent ==
    /\ failed_write_count' = failed_write_count + 1
    /\ consecutive_failure_count' = consecutive_failure_count + 1
    /\ degraded' = (degraded \/ ThresholdMet)
    /\ UNCHANGED readiness

FailedWrite ==
    /\ failed_write_count' = failed_write_count + 1
    /\ consecutive_failure_count' = consecutive_failure_count + 1
    /\ degraded' = (degraded \/ ThresholdMet)
    /\ readiness' = IF ThresholdMet /\ ~degraded
                    THEN mark_not_ready(readiness, ThresholdReason, AUDIT_WRITER_COMPONENT)
                    ELSE readiness

\* Forgets to reset the run of failures.
SuccessfulWriteNoReset ==
    /\ degraded' = FALSE
    /\ readiness' = IF degraded THEN mark_ready(readiness, AUDIT_WRITER_COMPONENT)
                    ELSE readiness
    /\ UNCHANGED <<failed_write_count, consecutive_failure_count>>

\* Counts a success against the failures instead of resetting the run.
SuccessfulWriteDecrements ==
    /\ degraded' = FALSE
    /\ readiness' = IF degraded THEN mark_ready(readiness, AUDIT_WRITER_COMPONENT)
                    ELSE readiness
    /\ consecutive_failure_count' = consecutive_failure_count - 1
    /\ UNCHANGED failed_write_count

\* The inner write returned: recover if degraded, then reset the run.
SuccessfulWrite ==
    /\ degraded' = FALSE
    /\ readiness' = IF degraded THEN mark_ready(readiness, AUDIT_WRITER_COMPONENT)
                    ELSE readiness
    /\ consecutive_failure_count' = 0
    /\ UNCHANGED failed_write_count

\* write(event), with the outcome of the inner writer; it never raises.
write(ok) == IF ok THEN SuccessfulWrite ELSE FailedWrite
=============================================================================
