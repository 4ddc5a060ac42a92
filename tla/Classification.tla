--------------------------- MODULE Classification ---------------------------
(***************************************************************************)
(* classify_operation_aware_http_status (api/operation_aware_              *)
(* classification.py), and the kernel results it is applied to.            *)
(***************************************************************************)

\* A failure reason the table does not know, as a newer kernel may return.
UnknownReason == "unrecognized"

FAILURE_REASON_HTTP_STATUS ==
    [invalid_request             |-> 400,
     unsupported_schema_version  |-> 400,
     invalid_policy_bundle       |-> 503,
     policy_validation_failure   |-> 503,
     condition_evaluation_error  |-> 500,
     internal_evaluation_error   |-> 500]

UNRECOGNIZED_STATE_HTTP_STATUS == 500

CompletedStatus ==
    [ALLOW |-> 200, DENY |-> 403, NOT_APPLICABLE |-> 403]

\* Takes every completed evaluation for an allow.
ClassifyCompletedAsAllow(k) ==
    IF k.evaluation_status = "completed" THEN 200
    ELSE IF k.failure_reason \in DOMAIN FAILURE_REASON_HTTP_STATUS
         THEN FAILURE_REASON_HTTP_STATUS[k.failure_reason]
         ELSE UNRECOGNIZED_STATE_HTTP_STATUS

classify_operation_aware_http_status(k) ==
    CASE k.evaluation_status = "completed" /\ k.outcome \in DOMAIN CompletedStatus
            -> CompletedStatus[k.outcome]
      [] k.evaluation_status = "failed" /\ k.failure_reason \in DOMAIN FAILURE_REASON_HTTP_STATUS
            -> FAILURE_REASON_HTTP_STATUS[k.failure_reason]
      [] OTHER -> UNRECOGNIZED_STATE_HTTP_STATUS

\* The results of the operation-aware kernel: an outcome exactly when it
\* completed, a failure reason exactly when it failed, with or without evidence.
KernelResults ==
    [evaluation_status : {"completed"}, outcome : DOMAIN CompletedStatus,
     failure_reason : {"none"}, evidence : BOOLEAN]
    \cup
    [evaluation_status : {"failed"}, outcome : {"none"},
     failure_reason : DOMAIN FAILURE_REASON_HTTP_STATUS \cup {UnknownReason},
     evidence : BOOLEAN]

\* The kernel's enforcement disposition: fail-closed on everything but ALLOW.
Disposition(k) == IF k.outcome = "ALLOW" THEN "ALLOW" ELSE "DENY"
=============================================================================
