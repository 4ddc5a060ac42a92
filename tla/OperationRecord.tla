-------------------------- MODULE OperationRecord --------------------------
(***************************************************************************)
(* The end of POST /v1/evaluate/operation-aware: the composed input goes   *)
(* to the kernel, and the kernel's result becomes a response and one       *)
(* durable record (core/operation_aware_evaluator.py, audit/               *)
(* operation_aware_gateway_events.py, OperationAwareEvaluateResponse).     *)
(*                                                                         *)
(* The record is assembled outside any try: an inconsistency it refuses is *)
(* raised through the handler after the kernel has decided.  The writer,   *)
(* whose failures only cost the record, is modelled in AuditWriter, and    *)
(* the records of the earlier exits in Gateway.                            *)
(***************************************************************************)
EXTENDS OperationInput, Classification

VARIABLES
    kernel,     \* the kernel's result, once it has run
    response,   \* what the caller is sent, once decided
    record      \* the durable record, if one was written

recordVars == <<vars, kernel, response, record>>

NotRun == [evaluation_status |-> "none"]
NoResponse == [status |-> 0]
NoRecord == [action |-> "none"]

InitRecord == Init /\ kernel = NotRun /\ response = NoResponse /\ record = NoRecord

-----------------------------------------------------------------------------
\* str.strip() of a caller's request_id is empty.
BlankId(id) == id \in {"", " "}

\* GatewayAuditEvent, as assemble_gateway_audit_event copies it from the result.
assemble_gateway_audit_event(k, id) ==
    [request_id |-> id, evaluation_status |-> k.evaluation_status, outcome |-> k.outcome,
     failure_reason |-> k.failure_reason, audit_evidence_id |-> "evidence",
     enforcement_action |-> Disposition(k)]

\* A __post_init__ that wants an outcome of every evaluation.
WantsOutcome(e) == ~BlankId(e.request_id) /\ e.outcome # "none"

\* GatewayAuditEvent.__post_init__; the evidence id is the gateway's own.
post_init(e) ==
    /\ ~BlankId(e.request_id)
    /\ CASE e.evaluation_status = "failed" -> e.outcome = "none" /\ e.failure_reason # "none"
         [] e.evaluation_status = "completed" -> e.outcome # "none" /\ e.failure_reason = "none"
         [] OTHER -> FALSE
    /\ e.enforcement_action \in {"ALLOW", "DENY"}

\* Leaves out the identity the certificate carried.
DetailSubjectOnly(t) ==
    [producer_status |-> t.status,
     producer_subject_id |-> t.operation_producer_subject_id,
     producer_workload_identity |-> None_]

\* The producer facts in the detail of both events.
ProducerDetail(t) ==
    [producer_status |-> t.status,
     producer_subject_id |-> t.operation_producer_subject_id,
     producer_workload_identity |-> t.producer_workload_identity]

\* Takes every completed evaluation for an allowed one.
OutcomeOfStatus(k) == IF k.evaluation_status = "completed" THEN "ALLOWED" ELSE "DENIED"

\* AuditOutcome of the completed event.
AuditOutcomeOf(k) == IF Disposition(k) = "ALLOW" THEN "ALLOWED" ELSE "DENIED"

\* emit_operation_aware_completed_event
CompletedRecord(k, composed, t, status) ==
    Update(ProducerDetail(t), [
     action |-> "oa_authorization_completed", outcome |-> AuditOutcomeOf(k),
     request_id |-> composed.request_id, subject_id |-> t.authorization_subject_id,
     http_status |-> status, source |-> t.source, provenance |-> composed.provenance,
     event |-> assemble_gateway_audit_event(k, composed.request_id)])

\* emit_operation_aware_missing_evidence_event
MissingEvidenceRecord(composed, t, status) ==
    Update(ProducerDetail(t), [
     action |-> "oa_evidence_missing", request_id |-> composed.request_id,
     subject_id |-> t.authorization_subject_id, http_status |-> status])

\* OperationAwareEvaluateResponse.from_result
from_result(k, id, status) ==
    [status |-> status, request_id |-> id, evaluation_status |-> k.evaluation_status,
     outcome |-> k.outcome, failure_reason |-> k.failure_reason,
     evidence_id |-> IF k.evidence THEN "evidence" ELSE "none",
     disposition |-> Disposition(k)]

-----------------------------------------------------------------------------
\* Before the kernel: no evaluator (503), a decision request the kernel's model
\* refuses (400), or any other exception (500).
Unevaluated(status) ==
    /\ stage = "composed" /\ q.endpoint = "operation_aware"
    /\ stage' = "rejected"
    /\ response' = [status |-> status]
    /\ UNCHANGED <<q, trust, result, kernel, record>>

\* The kernel evaluates the decision request once.
Evaluate(k) ==
    /\ stage = "composed" /\ q.endpoint = "operation_aware"
    /\ DecisionRequestOk(result.context)
    /\ stage' = "evaluated"
    /\ kernel' = k
    /\ UNCHANGED <<q, trust, result, response, record>>

\* Classify, record, answer.  The write succeeds or fails; there is a writer, as
\* startup publishes no operation-aware evaluator without one.
Answer(written) ==
    /\ stage = "evaluated"
    /\ LET status == classify_operation_aware_http_status(kernel)
           raises == /\ kernel.evidence
                     /\ ~post_init(assemble_gateway_audit_event(kernel, result.request_id))
       IN  /\ stage' = IF raises THEN "raised" ELSE "answered"
           /\ response' = IF raises THEN [status |-> 500]
                          ELSE from_result(kernel, result.request_id, status)
           /\ record' = IF raises \/ ~written THEN NoRecord
                        ELSE IF kernel.evidence
                        THEN CompletedRecord(kernel, result, trust, status)
                        ELSE MissingEvidenceRecord(result, trust, status)
    /\ UNCHANGED <<q, trust, result, kernel>>

NextRecord ==
    \/ Next /\ UNCHANGED <<kernel, response, record>>
    \/ \E status \in {400, 500, 503} : Unevaluated(status)
    \/ \E k \in KernelResults : Evaluate(k)
    \/ \E written \in BOOLEAN : Answer(written)

SpecRecord == InitRecord /\ [][NextRecord]_recordVars

-----------------------------------------------------------------------------
\* The record and the response are of one evaluation: emitted by different code
\* from the same result, they name the same request, status, evidence and
\* disposition, and a caller was let through exactly where the record says so.
RecordExplainsResponse ==
    stage = "answered" /\ record # NoRecord =>
       /\ record.http_status = response.status
       /\ record.request_id = response.request_id
       /\ record.action = "oa_authorization_completed" <=> response.evidence_id # "none"
       /\ record.action = "oa_authorization_completed" =>
             /\ record.outcome = "ALLOWED" <=> response.status = 200
             /\ record.event.audit_evidence_id = response.evidence_id
             /\ record.event.enforcement_action = response.disposition
             /\ record.event.outcome = response.outcome

\* A kernel decision that rests on producer-only context is accountable: its
\* record, with evidence or without, calls the producer trusted and names it by
\* the identity the deployment vouches for, the certificate's or the subject's.
\* An untrusted caller is never named as a producer subject.
ProducerAccountable ==
    stage = "answered" /\ record # NoRecord =>
       /\ q.fields # {} =>
             /\ record.producer_status = "trusted"
             /\ IF q.config.mtls THEN record.producer_workload_identity \in q.config.admitted
                ELSE record.producer_subject_id \in {Trim[e] : e \in q.config.allowlist}
       /\ record.producer_subject_id # None_ =>
             record.producer_subject_id = record.subject_id /\ ~q.config.mtls
       /\ record.action = "oa_authorization_completed" =>
             \A f \in q.fields : record.provenance[f] = "trusted_producer_asserted"

\* Once the kernel has decided, assembling the record raises for one kind of
\* request only: one with a blank request_id of the caller's own, which the
\* composition keeps and the kernel did not refuse.
RecordingRaisesOnlyForBlankId ==
    stage = "raised" /\ kernel # NotRun => q.request_id # None_ /\ BlankId(q.request_id)
=============================================================================
