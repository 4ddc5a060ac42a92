--------------------------- MODULE OperationInput ---------------------------
(***************************************************************************)
(* From a validated request and a verified subject to the input of the     *)
(* kernel, on both endpoints: the canonical action and resource, the       *)
(* context and, for POST /v1/evaluate/operation-aware, producer trust and  *)
(* the provenance of every field (core/operation_aware_composition.py and  *)
(* the composition part of routes.evaluate).                               *)
(*                                                                         *)
(* One behaviour is one request: q is chosen among Queries and then only   *)
(* the gateway moves.                                                      *)
(***************************************************************************)
EXTENDS Canonical, ProducerTrust

CONSTANT Queries    \* requests, each with the configuration that serves it

VARIABLES
    q,          \* the request
    stage,      \* "arrived", "resolved", "composed", "rejected" or "raised"
    trust,      \* the OperationProducerTrust, once resolved
    result      \* the composed input, once composed

vars == <<q, stage, trust, result>>

OPERATION_PRODUCER_ONLY_FIELDS ==
    {"operation_intent", "location", "device", "protocol_context", "safety_context",
     "environment_context", "risk_context", "identity_evidence_reference",
     "adapter_evidence_reference"}

\* What the schemas, the verifiers and the certificate parser make of a request:
\* strings by their segments, a subject that is not empty, known fields and one
\* fault per header.  None_ stands for Python's None, which is no URI.
WellFormed(r) ==
    /\ r.endpoint \in {"evaluate", "operation_aware"}
    /\ {r.action, r.resource_type, r.resource_id} \subseteq Seq(STRING)
    /\ r.context = [k \in DOMAIN r.context |-> r.context[k]]
    /\ r.fields \subseteq OPERATION_PRODUCER_ONLY_FIELDS
    /\ r.subject # ""
    /\ r.headers \in Seq([fault : Faults, uris : Seq(STRING)])
    /\ r.config.mtls \in BOOLEAN
    /\ None_ \notin r.config.admitted

ASSUME QueriesAssumption == \A r \in Queries : WellFormed(r)

\* A configuration whose admitted URIs parse: load_config would raise otherwise.
Loadable(config) == parse_operation_producer_mtls_admitted_uris(config.admitted).ok

\* The operation-aware schema accepts no free-form context; neither accepts a
\* blank action.
Validated(r) ==
    /\ ~IsBlank(r.action)
    /\ r.endpoint = "operation_aware" => r.context = <<>>

Nothing == [action |-> None, resource_id |-> None, context |-> <<>>, request_id |-> "",
            provenance |-> <<>>, error |-> "none"]

Init ==
    /\ q \in {r \in Queries : Loadable(r.config) /\ Validated(r)}
    /\ stage = "arrived"
    /\ trust = TrustError("none")
    /\ result = Nothing

-----------------------------------------------------------------------------
(* POST /v1/evaluate: reserved keys, then the action, then the resource.   *)

\* Takes a type for a composed resource, where there is no resource at all.
EffectiveContextByType(r, action, resource_id) ==
    IF r.resource_type = None THEN r.context
    ELSE Update(Update(r.context,
                       build_composition_evidence(r.action, r.resource_type, action)),
                build_resource_composition_evidence(r.resource_id, r.resource_type, resource_id))

\* effective_context: the evidence of each composition as it is made.
EffectiveContext(r, action, resource_id) ==
    LET afterAction ==
            IF r.resource_type # None
            THEN Update(r.context, build_composition_evidence(r.action, r.resource_type, action))
            ELSE r.context
    IN  IF ResourceWasComposed(r.resource_type, r.resource_id)
        THEN Update(afterAction, build_resource_composition_evidence(
                                    r.resource_id, r.resource_type, resource_id))
        ELSE afterAction

ComposeEvaluate(r) ==
    LET a == compose_action(r.action, r.resource_type)
        i == compose_resource_id(r.resource_type, r.resource_id)
    IN  IF reserved_key_collisions(r.context) # {}
        THEN [Nothing EXCEPT !.error = "reserved"]
        ELSE IF ~a.ok THEN [Nothing EXCEPT !.error = "action"]
        ELSE IF ~i.ok THEN [Nothing EXCEPT !.error = "resource"]
        ELSE [Nothing EXCEPT !.action = a.value, !.resource_id = i.value,
                             !.context = EffectiveContext(r, a.value, i.value),
                             !.request_id = IF r.request_id \in {None_, ""} THEN "correlation"
                                            ELSE r.request_id]

-----------------------------------------------------------------------------
(* compose_operation_aware_input.                                          *)

\* The consistency checks that raise CompositionInternalError.  The subject and
\* the identity context both come from the one verified token.
InternallyConsistent(subject, t) ==
    /\ t.authorization_subject_id = subject
    /\ IF t.status = "trusted"
       THEN \/ /\ t.source = "configured_subject_id_allowlist"
               /\ t.operation_producer_subject_id = subject
            \/ /\ t.source = "mtls_admitted_uri_san"
               /\ t.operation_producer_subject_id = None_
               /\ t.producer_workload_identity \notin {None_, ""}
       ELSE t.operation_producer_subject_id = None_

\* _producer_only_field_provenance, for each of the producer-only fields.
ProducerOnlyProvenance(r) ==
    [f \in OPERATION_PRODUCER_ONLY_FIELDS |->
        IF f \in r.fields THEN "trusted_producer_asserted" ELSE "unavailable"]

\* Calls every action with a type gateway-derived, composed or not.
ProvenanceByShape(r, t, context) ==
    Update(ProducerOnlyProvenance(r), [
     operation_producer_subject_id |->
        IF t.operation_producer_subject_id # None_ THEN "verified" ELSE "unavailable",
     action |-> IF is_composite_action(r.action) THEN "gateway_derived"
                ELSE "untrusted_caller_asserted",
     resource_id |-> "unavailable",
     resource_type |-> "unavailable",
     context |-> "unavailable",
     request_id |-> "gateway_derived"])

\* Where each field came from; the constant entries are left out.
Provenance(r, t, context) ==
    Update(ProducerOnlyProvenance(r), [
     operation_producer_subject_id |->
        IF t.operation_producer_subject_id # None_ THEN "verified" ELSE "unavailable",
     action |-> IF r.resource_type # None THEN "gateway_derived"
                ELSE "untrusted_caller_asserted",
     resource_id |-> IF ResourceWasComposed(r.resource_type, r.resource_id)
                     THEN "gateway_derived"
                     ELSE IF r.resource_id # None THEN "untrusted_caller_asserted"
                     ELSE "unavailable",
     resource_type |-> IF r.resource_type # None THEN "untrusted_caller_asserted"
                       ELSE "unavailable",
     context |-> IF context # <<>> THEN "gateway_derived" ELSE "unavailable",
     request_id |-> IF r.request_id # None_ THEN "untrusted_caller_asserted"
                    ELSE "gateway_derived"])

\* combined_context: the copy of the caller's context and the evidence of both
\* compositions, put together by code of its own.
CombinedContext(r, action, resource_id) ==
    LET ofAction ==
            IF r.resource_type # None
            THEN build_composition_evidence(r.action, r.resource_type, action) ELSE <<>>
        ofResource ==
            IF ResourceWasComposed(r.resource_type, r.resource_id)
            THEN build_resource_composition_evidence(r.resource_id, r.resource_type, resource_id)
            ELSE <<>>
    IN  Update(Update(r.context, ofAction), ofResource)

compose_operation_aware_input(r, t) ==
    LET a == compose_action(r.action, r.resource_type)
        i == compose_resource_id(r.resource_type, r.resource_id)
        context == CombinedContext(r, a.value, i.value)
    IN  IF ~InternallyConsistent(r.subject, t) THEN [Nothing EXCEPT !.error = "internal"]
        ELSE IF r.fields # {} /\ t.status # "trusted"
        THEN [Nothing EXCEPT !.error = "untrusted producer"]
        ELSE IF reserved_key_collisions(r.context) # {}
        THEN [Nothing EXCEPT !.error = "reserved"]
        ELSE IF ~a.ok THEN [Nothing EXCEPT !.error = "action"]
        ELSE IF ~i.ok THEN [Nothing EXCEPT !.error = "resource"]
        ELSE [action |-> a.value, resource_id |-> i.value, context |-> context,
              request_id |-> IF r.request_id # None_ THEN r.request_id ELSE "correlation",
              provenance |-> Provenance(r, t, context), error |-> "none"]

\* build_operation_aware_decision_request refuses caller context.
DecisionRequestOk(context) == DOMAIN context \subseteq ReservedKeys

-----------------------------------------------------------------------------
Resolve ==
    /\ stage = "arrived" /\ q.endpoint = "operation_aware"
    /\ trust' = resolve_operation_producer_trust(q.headers, q.subject, q.config)
    /\ stage' = CASE trust'.error = "none" -> "resolved"
                  [] trust'.error \in ListedErrors -> "rejected"
                  [] OTHER -> "raised"
    /\ UNCHANGED <<q, result>>

ComposeOperationAware ==
    /\ stage = "resolved"
    /\ result' = compose_operation_aware_input(q, trust)
    /\ stage' = IF result'.error = "none" THEN "composed" ELSE "rejected"
    /\ UNCHANGED <<q, trust>>

Compose ==
    /\ stage = "arrived" /\ q.endpoint = "evaluate"
    /\ result' = ComposeEvaluate(q)
    /\ stage' = IF result'.error = "none" THEN "composed" ELSE "rejected"
    /\ UNCHANGED <<q, trust>>

Next == Resolve \/ ComposeOperationAware \/ Compose

Spec == Init /\ [][Next]_vars

-----------------------------------------------------------------------------
\* The deployment vouches for the caller as a producer: by the configured
\* mechanism alone, with exactly one readable certificate and identity or with
\* an entry of the allowlist.
Vouched(r) ==
    IF r.config.mtls
    THEN \E h \in {r.headers[i] : i \in 1..Len(r.headers)}, u \in r.config.admitted :
            r.headers = <<h>> /\ h.fault = "none" /\ h.uris = <<u>>
    ELSE \E e \in r.config.allowlist : Trim[e] = r.subject

\* Producer-only context reaches the kernel only from a vouched producer, and a
\* bearer subject is recorded as the producer only where the subject allowlist
\* is the mechanism.
ProducerContextVouched ==
    stage = "composed" /\ q.endpoint = "operation_aware" =>
       /\ q.fields # {} => Vouched(q)
       /\ trust.status = "trusted" <=> Vouched(q)
       /\ trust.operation_producer_subject_id # None_ => ~q.config.mtls

\* No request and no loadable configuration reaches CompositionInternalError,
\* or the decision request's refusal of caller context.
NoInternalError ==
    /\ result.error # "internal"
    /\ stage = "composed" /\ q.endpoint = "operation_aware" => DecisionRequestOk(result.context)

\* Provenance agrees with what the request carried and with the evidence in the
\* context: derived means composed, asserted means taken over unchanged.
ProvenanceHonest ==
    stage = "composed" /\ q.endpoint = "operation_aware" =>
       LET p == result.provenance IN
       /\ {f \in DOMAIN p : p[f] = "trusted_producer_asserted"} = q.fields
       /\ p["action"] = "gateway_derived" <=> "composed_action" \in DOMAIN result.context
       /\ p["action"] = "untrusted_caller_asserted" <=> result.action = q.action
       /\ p["resource_id"] = "gateway_derived" <=>
             "composed_resource_id" \in DOMAIN result.context
       /\ p["resource_id"] = "untrusted_caller_asserted" =>
             result.resource_id = q.resource_id /\ q.resource_id # None
       /\ p["resource_id"] = "unavailable" <=> result.resource_id = None
       /\ p["operation_producer_subject_id"] = "verified" => Vouched(q) /\ ~q.config.mtls

\* The reserved keys of a composed context are the gateway's own and undo the
\* composition: they hold exactly when something was composed, and the original
\* parts put together are what the kernel is asked about.
EvidenceExplains ==
    stage = "composed" =>
       LET c == result.context IN
       /\ DOMAIN c \cap ReservedKeys =
             (IF result.action # q.action THEN ActionEvidenceKeys ELSE {})
             \cup (IF result.resource_id # q.resource_id THEN ResourceEvidenceKeys ELSE {})
       /\ "composed_action" \in DOMAIN c =>
             /\ c["original_action"] \o c["resource_type"] = result.action
             /\ c["composed_action"] = result.action
       /\ "composed_resource_id" \in DOMAIN c =>
             /\ c["resource_type"] \o c["original_resource_id"] = result.resource_id
             /\ c["composed_resource_id"] = result.resource_id
       /\ \A k \in DOMAIN q.context : c[k] = q.context[k]

\* The kernel is only ever asked about a typed action and, if any, a typed
\* resource; where the gateway supplied the types they are one and the same.
CanonicalForm ==
    stage = "composed" =>
       /\ Len(result.action) >= 2
       /\ result.resource_id # None => Len(result.resource_id) >= 2
       /\ q.resource_type # None =>
             /\ Len(result.action) = 2 /\ result.action[2] = q.resource_type[1]
             /\ result.resource_id # None =>
                   Len(result.resource_id) = 2 /\ result.resource_id[1] = result.action[2]

\* Both endpoints canonicalise alike, though each assembles the evidence in code
\* of its own: what the operation-aware endpoint made of a request, /v1/evaluate
\* would have made of it too, and it refuses an action or a resource exactly
\* when the other does.
EndpointsAgree ==
    q.endpoint = "operation_aware" /\ stage \in {"composed", "rejected"}
       /\ trust.error = "none" /\ result.error # "untrusted producer" =>
       LET e == ComposeEvaluate(q) IN
       /\ e.error = result.error
       /\ <<e.action, e.resource_id, e.context>> =
             <<result.action, result.resource_id, result.context>>
=============================================================================
