--------------------------- MODULE ProducerTrust ---------------------------
(***************************************************************************)
(* Whether the caller is a trusted operation producer                      *)
(* (auth/operation_producer*.py, auth/producer_mtls*.py) and the two       *)
(* allowlists of config.py it is decided by.                               *)
(*                                                                         *)
(* Configured entries and identities are model strings; Trim says what     *)
(* str.strip() makes of an entry, "" being the empty string.               *)
(***************************************************************************)
EXTENDS Integers, Sequences

CONSTANT Trim       \* a function on the strings that may be configured

None_ == "None"

\* parse_operation_producer_subject_ids: entries trimmed, empty ones dropped.
parse_operation_producer_subject_ids(raw) == {Trim[e] : e \in raw} \ {""}

\* A parser that takes an empty entry as it is.
AdmittedUrisKeepEmpty(raw) == [ok |-> TRUE, uris |-> raw]

\* parse_operation_producer_mtls_admitted_uris: entries exactly as written; an
\* empty one is an error, and load_config raises.
parse_operation_producer_mtls_admitted_uris(raw) == [ok |-> "" \notin raw, uris |-> raw]

\* OperationProducerTrust, or the certificate error that stops resolution.
Trust(status, source, subject, producer, workload) ==
    [error |-> "none", status |-> status, source |-> source,
     authorization_subject_id |-> subject, operation_producer_subject_id |-> producer,
     producer_workload_identity |-> workload]
TrustError(error) ==
    [error |-> error, status |-> None_, source |-> None_,
     authorization_subject_id |-> None_, operation_producer_subject_id |-> None_,
     producer_workload_identity |-> None_]

\* The allowlist of subject ids: an exact match, and a producer is the subject.
classify_operation_producer(subject, trusted_subject_ids) ==
    IF trusted_subject_ids = {}
    THEN Trust("untrusted", "not_configured", subject, None_, None_)
    ELSE IF subject \in trusted_subject_ids
    THEN Trust("trusted", "configured_subject_id_allowlist", subject, subject, None_)
    ELSE Trust("untrusted", "subject_id_not_allowed", subject, None_, None_)

(* A header occurrence carries an assertion: fault is the first check it   *)
(* fails on its way to a leaf certificate, or "none"; uris are the URI     *)
(* SANs of that certificate.                                               *)
Faults == {"none", "oversized", "decoding", "parsing", "extensions"}

\* The errors the handler answers 400 for; any other one it does not catch.
ListedErrors ==
    {"missing", "duplicate", "oversized", "decoding", "parsing", "no uri san",
     "multiple uri sans"}

\* retrieve_trusted_producer_certificate_assertion: one occurrence, not too big.
retrieve(headers) ==
    CASE Len(headers) = 0 -> "missing"
      [] Len(headers) > 1 -> "duplicate"
      [] Len(headers) = 1 /\ headers[1].fault = "oversized" -> "oversized"
      [] OTHER -> "none"

\* decode_producer_certificate_assertion, then parse_producer_leaf_certificate.
leaf(assertion) == IF assertion.fault \in {"decoding", "parsing"} THEN assertion.fault ELSE "none"

\* derive_producer_identity: exactly one URI SAN.  Extensions that cannot be
\* read raise an error that is not one of the profile's.
derive_producer_identity(assertion) ==
    CASE assertion.fault = "extensions" -> "unreadable extensions"
      [] Len(assertion.uris) = 0 -> "no uri san"
      [] Len(assertion.uris) > 1 -> "multiple uri sans"
      [] OTHER -> "none"

admit_producer(uri, admitted) == uri \in admitted

resolve_mtls_operation_producer_trust(headers, subject, admitted) ==
    IF retrieve(headers) # "none" THEN TrustError(retrieve(headers))
    ELSE IF leaf(headers[1]) # "none" THEN TrustError(leaf(headers[1]))
    ELSE IF derive_producer_identity(headers[1]) # "none"
    THEN TrustError(derive_producer_identity(headers[1]))
    ELSE IF admit_producer(headers[1].uris[1], admitted)
    THEN Trust("trusted", "mtls_admitted_uri_san", subject, None_, headers[1].uris[1])
    ELSE Trust("untrusted", "mtls_uri_san_not_admitted", subject, None_, headers[1].uris[1])

\* Falls back to the allowlist when the request carries no certificate.
ResolveFallsBack(headers, subject, config) ==
    IF config.mtls /\ headers # <<>>
    THEN resolve_mtls_operation_producer_trust(
            headers, subject, parse_operation_producer_mtls_admitted_uris(config.admitted).uris)
    ELSE classify_operation_producer(
            subject, parse_operation_producer_subject_ids(config.allowlist))

\* One mechanism per deployment, with no fallback.
resolve_operation_producer_trust(headers, subject, config) ==
    IF config.mtls
    THEN resolve_mtls_operation_producer_trust(
            headers, subject, parse_operation_producer_mtls_admitted_uris(config.admitted).uris)
    ELSE classify_operation_producer(
            subject, parse_operation_producer_subject_ids(config.allowlist))
=============================================================================
