----------------------- MODULE OperationInputProofs ------------------------
(***************************************************************************)
(* Proofs about composition and recording, for every set of well-formed    *)
(* requests and every trimming of configured entries.                      *)
(*                                                                         *)
(* The lemmas say what the pure operators return: who is trusted           *)
(* (Resolution), what a canonical action and resource are (ActionForm,     *)
(* ResourceForm), what the evidence holds (Evidence).  The inductive       *)
(* invariant says that the state is always what those operators make of    *)
(* the request, so that each property is one of the lemmas.                *)
(***************************************************************************)
EXTENDS OperationRecord, SequenceTheorems, TLAPS

-----------------------------------------------------------------------------
(* Producer trust.                                                         *)

\* What a resolution that ends without an error establishes about the caller.
Established(r, t) ==
    /\ t.authorization_subject_id = r.subject
    /\ t.status = "trusted" <=> Vouched(r)
    /\ InternallyConsistent(r.subject, t)
    /\ t.operation_producer_subject_id # None_ =>
          t.status = "trusted" /\ t.operation_producer_subject_id = r.subject /\ ~r.config.mtls
    /\ t.status = "trusted" =>
          IF r.config.mtls THEN t.producer_workload_identity \in r.config.admitted
          ELSE t.operation_producer_subject_id \in {Trim[e] : e \in r.config.allowlist}

\* Without mTLS the subject is what is looked up in the allow-list.
LEMMA AllowlistResolution ==
  ASSUME NEW r, WellFormed(r), ~r.config.mtls
  PROVE  Established(r, resolve_operation_producer_trust(r.headers, r.subject, r.config))
  <1> DEFINE ids == {Trim[e] : e \in r.config.allowlist}
             t == resolve_operation_producer_trust(r.headers, r.subject, r.config)
  <1>1. t = classify_operation_producer(r.subject, ids \ {""})
    BY DEF resolve_operation_producer_trust, parse_operation_producer_subject_ids
  <1>2. Vouched(r) <=> r.subject \in ids
    BY DEF Vouched
  <1>3. r.subject # ""
    BY DEF WellFormed
  <1>4. CASE r.subject \in ids
    <2>1. t = Trust("trusted", "configured_subject_id_allowlist", r.subject, r.subject, None_)
      BY <1>1, <1>3, <1>4 DEF classify_operation_producer
    <2> HIDE DEF ids, t
    <2>2. QED
      BY <1>2, <1>4, <2>1 DEF Trust, Established, InternallyConsistent, ids, t
  <1>5. CASE r.subject \notin ids
    <2>1. \E source : t = Trust("untrusted", source, r.subject, None_, None_)
      BY <1>1, <1>5 DEF classify_operation_producer
    <2> HIDE DEF ids, t
    <2>2. QED
      BY <1>2, <1>5, <2>1 DEF Trust, Established, InternallyConsistent, ids, t
  <1>6. QED
    BY <1>4, <1>5

\* With mTLS the certificate decides alone: its one URI is admitted, or not.
LEMMA CertificateResolution ==
  ASSUME NEW r, WellFormed(r), Loadable(r.config), r.config.mtls,
         NEW t, t = resolve_operation_producer_trust(r.headers, r.subject, r.config),
         t.error = "none"
  PROVE  Established(r, t)
  <1> DEFINE h == r.headers[1]
             u == h.uris[1]
  <1>1. t = resolve_mtls_operation_producer_trust(r.headers, r.subject, r.config.admitted)
    BY DEF resolve_operation_producer_trust, parse_operation_producer_mtls_admitted_uris
  <1>2. r.headers \in Seq([fault : Faults, uris : Seq(STRING)])
    BY DEF WellFormed
  <1>3. /\ retrieve(r.headers) = "none"
        /\ leaf(h) = "none"
        /\ derive_producer_identity(h) = "none"
        /\ IF u \in r.config.admitted
           THEN t = Trust("trusted", "mtls_admitted_uri_san", r.subject, None_, u)
           ELSE t = Trust("untrusted", "mtls_uri_san_not_admitted", r.subject, None_, u)
    <2>1. \A e : TrustError(e).error = e
      BY DEF TrustError
    <2>2. QED
      BY <1>1, <2>1 DEF resolve_mtls_operation_producer_trust, admit_producer
  <1>4. Len(r.headers) = 1 /\ h.fault # "oversized"
    <2> DEFINE n == Len(r.headers)
    <2>1. n \in Nat
      BY <1>2
    <2>2. n # 0 /\ ~(n > 1)
      BY <1>3 DEF retrieve
    <2>3. n = 1 => h.fault # "oversized"
      BY <1>3 DEF retrieve
    <2> HIDE DEF n, h
    <2>4. n = 1
      BY <2>1, <2>2
    <2>5. QED
      BY <2>3, <2>4 DEF n
  <1>5. h.fault \in Faults /\ h.uris \in Seq(STRING)
    <2> DEFINE S == [fault : Faults, uris : Seq(STRING)]
    <2>1. r.headers[1] \in S
      <3> HIDE DEF S
      <3>1. r.headers \in Seq(S)
        BY <1>2 DEF S
      <3>2. QED
        BY <1>4, <3>1
    <2>2. QED
      BY <2>1
  <1>6. h.fault = "none" /\ Len(h.uris) = 1
    <2> DEFINE n == Len(h.uris)
    <2>1. n \in Nat
      BY <1>5
    <2>2. h.fault \notin {"decoding", "parsing"}
      BY <1>3 DEF leaf
    <2>3. h.fault # "extensions" /\ n # 0 /\ ~(n > 1)
      BY <1>3 DEF derive_producer_identity
    <2>4. h.fault = "none"
      BY <1>4, <1>5, <2>2, <2>3 DEF Faults
    <2> HIDE DEF n, h
    <2>5. n = 1
      BY <2>1, <2>3
    <2>6. QED
      BY <2>4, <2>5 DEF n
  <1>7. r.headers = <<h>> /\ h.uris = <<u>>
    BY <1>2, <1>4, <1>5, <1>6
  <1>8. Vouched(r) <=> u \in r.config.admitted
    <2>1. ASSUME u \in r.config.admitted PROVE Vouched(r)
      <3>1. h \in {r.headers[i] : i \in 1..Len(r.headers)}
        BY <1>4
      <3>2. QED
        BY <1>6, <1>7, <2>1, <3>1 DEF Vouched
    <2>2. ASSUME Vouched(r) PROVE u \in r.config.admitted
      <3>1. PICK g \in {r.headers[i] : i \in 1..Len(r.headers)}, v \in r.config.admitted :
               r.headers = <<g>> /\ g.fault = "none" /\ g.uris = <<v>>
        BY <2>2, Zenon DEF Vouched
      <3>2. g = h /\ v = u
        BY <1>7, <3>1
      <3>3. QED
        BY <3>1, <3>2
    <2>3. QED
      BY <2>1, <2>2
  <1>9. u \in r.config.admitted => u \notin {None_, ""}
    BY DEF WellFormed, Loadable, parse_operation_producer_mtls_admitted_uris
  <1> HIDE DEF h, u
  <1>10. /\ t.authorization_subject_id = r.subject
         /\ t.operation_producer_subject_id = None_
         /\ t.producer_workload_identity = u
         /\ IF u \in r.config.admitted
            THEN t.status = "trusted" /\ t.source = "mtls_admitted_uri_san"
            ELSE t.status = "untrusted"
    BY <1>3 DEF Trust
  <1>11. InternallyConsistent(r.subject, t)
    BY <1>9, <1>10 DEF InternallyConsistent
  <1>12. QED
    BY <1>8, <1>10, <1>11 DEF Established

\* Resolution without an error trusts exactly the vouched callers, and what it
\* returns passes every consistency check of the composition.
LEMMA Resolution ==
  ASSUME NEW r, WellFormed(r), Loadable(r.config),
         NEW t, t = resolve_operation_producer_trust(r.headers, r.subject, r.config),
         t.error = "none"
  PROVE  Established(r, t)
  <1>1. r.config.mtls \in BOOLEAN
    BY DEF WellFormed
  <1>2. QED
    BY <1>1, AllowlistResolution, CertificateResolution

-----------------------------------------------------------------------------
(* The canonical form.                                                     *)

\* A composed action is typed; with a resource_type it is verb and type, and
\* without one it is the caller's own.
LEMMA ActionForm ==
  ASSUME NEW r, WellFormed(r), NEW a, a = compose_action(r.action, r.resource_type), a.ok
  PROVE  /\ Len(a.value) >= 2
         /\ r.resource_type = None => a.value = r.action
         /\ r.resource_type # None =>
               /\ a.value = r.action \o r.resource_type /\ a.value # r.action
               /\ Len(r.resource_type) = 1
               /\ Len(a.value) = 2 /\ a.value[2] = r.resource_type[1]
  <1> DEFINE v == r.action
             w == r.resource_type
  <1>1. v \in Seq(STRING) /\ w \in Seq(STRING) /\ Len(v) \in Nat /\ Len(w) \in Nat
    <2>1. v \in Seq(STRING) /\ w \in Seq(STRING)
      BY Zenon DEF WellFormed
    <2> HIDE DEF v, w
    <2>2. QED
      BY <2>1, LenProperties
  <1>2. \/ w = None /\ Len(v) > 1 /\ a.value = v
        \/ w # None /\ Len(v) = 1 /\ Len(w) = 1 /\ a.value = v \o w
    BY DEF compose_action, Rejected, Composed, is_composite_action, IsSegment
  <1> HIDE DEF v, w
  <1>3. CASE w = None
    BY <1>1, <1>2, <1>3 DEF v, w
  <1>4. CASE w # None
    <2>1. Len(v) = 1 /\ Len(w) = 1 /\ a.value = v \o w
      BY <1>2, <1>4
    <2>2. /\ Len(v \o w) = Len(v) + Len(w)
          /\ \A i \in 1..Len(v) + Len(w) :
                (v \o w)[i] = IF i <= Len(v) THEN v[i] ELSE w[i - Len(v)]
      BY <1>1, ConcatProperties
    <2>3. Len(v \o w) = 2 /\ (v \o w)[2] = w[1]
      BY <2>1, <2>2
    <2>4. v \o w # v
      BY <2>1, <2>3
    <2>5. /\ a.value = v \o w /\ a.value # v
          /\ Len(w) = 1
          /\ Len(a.value) = 2 /\ a.value[2] = w[1]
          /\ Len(a.value) >= 2
      BY <2>1, <2>3, <2>4
    <2>6. QED
      BY <1>4, <2>5, Zenon DEF v, w
  <1>5. QED
    BY <1>3, <1>4

\* A composed resource_id is absent, the caller's own typed one, or the type and
\* the caller's local one.
LEMMA ResourceForm ==
  ASSUME NEW r, WellFormed(r),
         NEW i, i = compose_resource_id(r.resource_type, r.resource_id), i.ok
  PROVE  LET composed == ResourceWasComposed(r.resource_type, r.resource_id) IN
         /\ ~composed => i.value = r.resource_id
         /\ ~composed /\ r.resource_id # None => Len(i.value) >= 2 /\ r.resource_type = None
         /\ composed =>
               /\ i.value = r.resource_type \o r.resource_id /\ i.value # r.resource_id
               /\ i.value # None
               /\ Len(i.value) = Len(r.resource_type) + 1
               /\ i.value[1] = r.resource_type[1]
  <1> DEFINE w == r.resource_type
             d == r.resource_id
             composed == ResourceWasComposed(w, d)
  <1>1. w \in Seq(STRING) /\ d \in Seq(STRING) /\ Len(w) \in Nat /\ Len(d) \in Nat
    <2>1. w \in Seq(STRING) /\ d \in Seq(STRING)
      BY Zenon DEF WellFormed
    <2> HIDE DEF w, d
    <2>2. QED
      BY <2>1, LenProperties
  <1>2. \/ ~composed /\ d = None /\ i.value = None
        \/ ~composed /\ d # None /\ w = None /\ Len(d) > 1 /\ i.value = d
        \/ composed /\ d # None /\ w # None /\ ~(Len(d) > 1) /\ i.value = w \o d
    BY DEF compose_resource_id, Rejected, Composed, is_typed_resource_id, ResourceWasComposed
  <1> HIDE DEF w, d, composed
  <1>3. CASE ~composed
    <2>1. /\ i.value = d
          /\ d # None => Len(i.value) >= 2 /\ w = None
      BY <1>1, <1>2, <1>3
    <2>2. QED
      BY <1>3, <2>1 DEF w, d, composed
  <1>4. CASE composed
    <2>1. d # None /\ w # None /\ ~(Len(d) > 1) /\ i.value = w \o d
      BY <1>2, <1>4
    <2>2. Len(d) = 1 /\ Len(w) >= 1
      <3>1. Len(d) # 0 /\ Len(w) # 0
        BY <1>1, <2>1 DEF None
      <3>2. \A n \in Nat : n # 0 => n >= 1 /\ (n = 1 \/ n > 1)
        OBVIOUS
      <3>3. QED
        BY <1>1, <2>1, <3>1, <3>2, Zenon
    <2>3. /\ Len(w \o d) = Len(w) + Len(d)
          /\ \A j \in 1..Len(w) + Len(d) :
                (w \o d)[j] = IF j <= Len(w) THEN w[j] ELSE d[j - Len(w)]
      BY <1>1, ConcatProperties
    <2>4. Len(w \o d) = Len(w) + 1 /\ (w \o d)[1] = w[1]
      BY <1>1, <2>2, <2>3
    <2>5. w \o d # d /\ w \o d # None
      BY <1>1, <2>2, <2>4 DEF None
    <2>6. QED
      BY <1>4, <2>1, <2>4, <2>5 DEF w, d, composed
  <1>5. QED
    BY <1>3, <1>4

\* Both endpoints put the same evidence into the context: to update it with
\* nothing leaves it as it is.
LEMMA ContextsCoincide ==
  ASSUME NEW r, WellFormed(r), NEW a, NEW i
  PROVE  EffectiveContext(r, a, i) = CombinedContext(r, a, i)
  <1>1. ASSUME NEW f, f = [k \in DOMAIN f |-> f[k]] PROVE Update(f, <<>>) = f
    <2>1. DOMAIN <<>> = {}
      OBVIOUS
    <2>2. Update(f, <<>>) = [k \in DOMAIN f |-> f[k]]
      BY <2>1, Zenon DEF Update
    <2>3. QED
      BY <1>1, <2>2
  <1>2. Update(r.context, <<>>) = r.context
    BY <1>1 DEF WellFormed
  <1> DEFINE m == Update(r.context, build_composition_evidence(r.action, r.resource_type, a))
  <1>3. Update(m, <<>>) = m
    <2>1. m = [k \in DOMAIN m |-> m[k]]
      BY DEF Update
    <2> HIDE DEF m
    <2>2. QED
      BY <1>1, <2>1
  <1>4. QED
    BY <1>2, <1>3 DEF EffectiveContext, CombinedContext

\* What the evidence of a context free of reserved keys holds.
LEMMA Evidence ==
  ASSUME NEW r, WellFormed(r), reserved_key_collisions(r.context) = {},
         NEW a, NEW i, NEW c, c = CombinedContext(r, a, i)
  PROVE  LET composed == ResourceWasComposed(r.resource_type, r.resource_id) IN
         /\ DOMAIN c \cap ReservedKeys =
               (IF r.resource_type # None THEN ActionEvidenceKeys ELSE {})
               \cup (IF composed THEN ResourceEvidenceKeys ELSE {})
         /\ DOMAIN c \subseteq DOMAIN r.context \cup ReservedKeys
         /\ "composed_action" \in DOMAIN c <=> r.resource_type # None
         /\ "composed_resource_id" \in DOMAIN c <=> composed
         /\ r.resource_type # None =>
               /\ c["original_action"] = r.action
               /\ c["resource_type"] = r.resource_type
               /\ c["composed_action"] = a
         /\ composed =>
               /\ c["original_resource_id"] = r.resource_id
               /\ c["composed_resource_id"] = i
         /\ \A k \in DOMAIN r.context : c[k] = r.context[k]
  <1> DEFINE composed == ResourceWasComposed(r.resource_type, r.resource_id)
             ofAction == IF r.resource_type # None
                         THEN build_composition_evidence(r.action, r.resource_type, a)
                         ELSE <<>>
             ofResource ==
                IF composed
                THEN build_resource_composition_evidence(r.resource_id, r.resource_type, i)
                ELSE <<>>
             m == Update(r.context, ofAction)
  <1>1. c = Update(m, ofResource)
    BY DEF CombinedContext
  <1>2. /\ DOMAIN ofAction = IF r.resource_type # None THEN ActionEvidenceKeys ELSE {}
        /\ r.resource_type # None =>
              /\ ofAction["original_action"] = r.action
              /\ ofAction["resource_type"] = r.resource_type
              /\ ofAction["composed_action"] = a
    BY DEF build_composition_evidence, ActionEvidenceKeys
  <1>3. /\ DOMAIN ofResource = IF composed THEN ResourceEvidenceKeys ELSE {}
        /\ composed =>
              /\ ofResource["original_resource_id"] = r.resource_id
              /\ ofResource["resource_type"] = r.resource_type
              /\ ofResource["composed_resource_id"] = i
    BY DEF build_resource_composition_evidence, ResourceEvidenceKeys
  <1>4. composed => r.resource_type # None
    BY DEF ResourceWasComposed
  <1> HIDE DEF ofAction, ofResource, composed
  <1>5. /\ DOMAIN m = DOMAIN r.context \cup DOMAIN ofAction
        /\ \A k \in DOMAIN m : m[k] = IF k \in DOMAIN ofAction THEN ofAction[k] ELSE r.context[k]
    BY DEF Update
  <1> HIDE DEF m
  <1>6. /\ DOMAIN c = DOMAIN m \cup DOMAIN ofResource
        /\ \A k \in DOMAIN c : c[k] = IF k \in DOMAIN ofResource THEN ofResource[k] ELSE m[k]
    BY <1>1 DEF Update
  <1>7. DOMAIN r.context \cap ReservedKeys = {}
    BY DEF reserved_key_collisions
  <1>8. /\ DOMAIN c \cap ReservedKeys =
               (IF r.resource_type # None THEN ActionEvidenceKeys ELSE {})
               \cup (IF composed THEN ResourceEvidenceKeys ELSE {})
        /\ DOMAIN c \subseteq DOMAIN r.context \cup ReservedKeys
    BY <1>2, <1>3, <1>5, <1>6, <1>7 DEF ReservedKeys
  <1>9. /\ "composed_action" \in DOMAIN c <=> r.resource_type # None
        /\ "composed_resource_id" \in DOMAIN c <=> composed
    BY <1>8 DEF ReservedKeys, ActionEvidenceKeys, ResourceEvidenceKeys
  <1>10. r.resource_type # None =>
            /\ c["original_action"] = r.action
            /\ c["resource_type"] = r.resource_type
            /\ c["composed_action"] = a
    BY <1>2, <1>3, <1>5, <1>6 DEF ActionEvidenceKeys, ResourceEvidenceKeys
  <1>11. composed => c["original_resource_id"] = r.resource_id /\ c["composed_resource_id"] = i
    BY <1>3, <1>6 DEF ResourceEvidenceKeys
  <1>12. \A k \in DOMAIN r.context : c[k] = r.context[k]
    BY <1>2, <1>3, <1>5, <1>6, <1>7 DEF ReservedKeys
  <1>13. QED
    BY <1>8, <1>9, <1>10, <1>11, <1>12 DEF composed

-----------------------------------------------------------------------------
(* The composed input.                                                     *)

\* x is the canonical form of r, with the evidence of how it was composed.
Canonicalised(r, x) ==
    LET a == compose_action(r.action, r.resource_type)
        i == compose_resource_id(r.resource_type, r.resource_id)
    IN  /\ reserved_key_collisions(r.context) = {} /\ a.ok /\ i.ok
        /\ x.action = a.value
        /\ x.resource_id = i.value
        /\ x.context = CombinedContext(r, a.value, i.value)

\* /evaluate passes on canonical names.
LEMMA EvaluateCanonical ==
  ASSUME NEW r, WellFormed(r), NEW x, x = ComposeEvaluate(r), x.error = "none"
  PROVE  Canonicalised(r, x)
  BY ContextsCoincide DEF ComposeEvaluate, Nothing, Canonicalised

\* So does /evaluate/operation-aware.
LEMMA OperationAwareCanonical ==
  ASSUME NEW r, NEW t, NEW x, x = compose_operation_aware_input(r, t), x.error = "none"
  PROVE  /\ Canonicalised(r, x)
         /\ r.fields # {} => t.status = "trusted"
         /\ x.provenance = Provenance(r, t, x.context)
         /\ x.request_id = IF r.request_id # None_ THEN r.request_id ELSE "correlation"
  BY DEF compose_operation_aware_input, Nothing, Canonicalised

\* A consistent trust leaves the two compositions the same checks, in one order.
LEMMA SameComposition ==
  ASSUME NEW r, WellFormed(r), NEW t, InternallyConsistent(r.subject, t),
         NEW x, x = compose_operation_aware_input(r, t), x.error # "untrusted producer"
  PROVE  LET e == ComposeEvaluate(r) IN
         /\ e.error = x.error /\ x.error # "internal"
         /\ <<e.action, e.resource_id, e.context>> = <<x.action, x.resource_id, x.context>>
  <1>1. r.fields # {} => t.status = "trusted"
    BY DEF compose_operation_aware_input, Nothing
  <1>2. QED
    BY <1>1, ContextsCoincide DEF compose_operation_aware_input, ComposeEvaluate, Nothing

\* Nobody reaches the internal error through a consistent trust.
LEMMA NeverInternal ==
  ASSUME NEW r, NEW t, InternallyConsistent(r.subject, t)
  PROVE  compose_operation_aware_input(r, t).error # "internal"
  BY DEF compose_operation_aware_input, Nothing

\* Composition for /evaluate has no way to fail internally.
LEMMA NeverInternalEvaluate ==
  ASSUME NEW r
  PROVE  ComposeEvaluate(r).error # "internal"
  BY DEF ComposeEvaluate, Nothing

-----------------------------------------------------------------------------
(* The inductive invariant: the state is what the operators make of q.     *)

Decided == {"composed", "evaluated", "answered"}
OperationAware == q.endpoint = "operation_aware"

InputInv ==
    /\ q \in Queries /\ Loadable(q.config) /\ Validated(q)
    /\ stage \in {"arrived", "resolved", "rejected", "raised"} \cup Decided
    /\ stage \in {"arrived", "resolved"} => result = Nothing
    /\ stage = "resolved" => OperationAware /\ trust.error = "none"
    /\ OperationAware /\ stage # "arrived" =>
          /\ trust = resolve_operation_producer_trust(q.headers, q.subject, q.config)
          /\ trust.error # "none" => result = Nothing
          /\ trust.error = "none" /\ stage # "resolved" =>
                result = compose_operation_aware_input(q, trust)
    /\ OperationAware /\ stage \in Decided => trust.error = "none"
    /\ ~OperationAware =>
          /\ stage \in {"arrived", "composed", "rejected"}
          /\ stage # "arrived" => result = ComposeEvaluate(q)
    /\ stage \in Decided => result.error = "none"

\* Once the kernel has run: its result, and what was made of it.
RecordInv ==
    /\ stage \in {"evaluated", "answered"} => OperationAware /\ kernel \in KernelResults
    /\ stage \in {"arrived", "resolved", "composed", "rejected"} => kernel = NotRun
    /\ stage = "raised" /\ kernel # NotRun =>
          /\ OperationAware /\ trust.error = "none" /\ result.error = "none"
          /\ kernel \in KernelResults
          /\ ~post_init(assemble_gateway_audit_event(kernel, result.request_id))
    /\ stage = "answered" =>
          LET status == classify_operation_aware_http_status(kernel) IN
          /\ response = from_result(kernel, result.request_id, status)
          /\ record # NoRecord =>
                record = IF kernel.evidence THEN CompletedRecord(kernel, result, trust, status)
                         ELSE MissingEvidenceRecord(result, trust, status)

InputRecordInv == InputInv /\ RecordInv

\* No request has been seen.
LEMMA InitInputRecord == InitRecord => InputRecordInv
  <1> SUFFICES ASSUME InitRecord PROVE InputRecordInv
    OBVIOUS
  <1>1. q \in Queries /\ WellFormed(q)
    BY QueriesAssumption DEF InitRecord, Init
  <1>2. QED
    BY <1>1
    DEF InitRecord, Init, InputRecordInv, InputInv, RecordInv, Decided, OperationAware

\* The producer's trust is resolved.
LEMMA ResolveInv ==
  ASSUME InputRecordInv, Resolve, UNCHANGED <<kernel, response, record>>
  PROVE  InputRecordInv'
  <1>1. /\ stage = "arrived" /\ OperationAware /\ q' = q /\ result' = result
        /\ trust' = resolve_operation_producer_trust(q.headers, q.subject, q.config)
        /\ kernel' = kernel
    BY DEF Resolve, OperationAware
  <1>2. \/ stage' = "resolved" /\ trust'.error = "none"
        \/ stage' \in {"rejected", "raised"} /\ trust'.error # "none"
    <2>1. CASE trust'.error = "none"
      BY <2>1 DEF Resolve, ListedErrors
    <2>2. CASE trust'.error # "none" /\ trust'.error \in ListedErrors
      BY <2>2 DEF Resolve
    <2>3. CASE trust'.error # "none" /\ trust'.error \notin ListedErrors
      BY <2>3 DEF Resolve
    <2>4. QED
      BY <2>1, <2>2, <2>3
  <1>3. InputInv'
    BY <1>1, <1>2 DEF InputRecordInv, InputInv, Decided, OperationAware
  <1>4. RecordInv'
    BY <1>1, <1>2 DEF InputRecordInv, RecordInv, OperationAware
  <1>5. QED
    BY <1>3, <1>4 DEF InputRecordInv

\* The operation-aware input is composed.
LEMMA ComposeOperationAwareInv ==
  ASSUME InputRecordInv, ComposeOperationAware, UNCHANGED <<kernel, response, record>>
  PROVE  InputRecordInv'
  <1>1. /\ stage = "resolved" /\ q' = q /\ trust' = trust /\ kernel' = kernel
        /\ result' = compose_operation_aware_input(q, trust)
        /\ stage' = IF result'.error = "none" THEN "composed" ELSE "rejected"
    BY DEF ComposeOperationAware
  <1>2. InputInv'
    BY <1>1 DEF InputRecordInv, InputInv, Decided, OperationAware
  <1>3. RecordInv'
    BY <1>1 DEF InputRecordInv, RecordInv, OperationAware
  <1>4. QED
    BY <1>2, <1>3 DEF InputRecordInv

\* The /evaluate input is composed.
LEMMA ComposeInv ==
  ASSUME InputRecordInv, Compose, UNCHANGED <<kernel, response, record>>
  PROVE  InputRecordInv'
  <1>1. /\ stage = "arrived" /\ ~OperationAware
        /\ q' = q /\ trust' = trust /\ kernel' = kernel
        /\ result' = ComposeEvaluate(q)
        /\ stage' = IF result'.error = "none" THEN "composed" ELSE "rejected"
    BY DEF Compose, OperationAware
  <1>2. InputInv'
    BY <1>1 DEF InputRecordInv, InputInv, Decided, OperationAware
  <1>3. RecordInv'
    BY <1>1 DEF InputRecordInv, RecordInv, OperationAware
  <1>4. QED
    BY <1>2, <1>3 DEF InputRecordInv

\* The request is refused before the kernel is asked.
LEMMA UnevaluatedInv ==
  ASSUME InputRecordInv, NEW status, Unevaluated(status)
  PROVE  InputRecordInv'
  <1>1. /\ stage = "composed" /\ stage' = "rejected" /\ OperationAware
        /\ UNCHANGED <<q, trust, result, kernel>>
    BY DEF Unevaluated, OperationAware
  <1>2. InputInv'
    BY <1>1 DEF InputRecordInv, InputInv, Decided, OperationAware
  <1>3. RecordInv'
    BY <1>1 DEF InputRecordInv, RecordInv, OperationAware
  <1>4. QED
    BY <1>2, <1>3 DEF InputRecordInv

\* The kernel evaluates the decision request.
LEMMA EvaluateInv ==
  ASSUME InputRecordInv, NEW k \in KernelResults, Evaluate(k)
  PROVE  InputRecordInv'
  <1>1. /\ stage = "composed" /\ stage' = "evaluated" /\ OperationAware
        /\ kernel' = k
        /\ UNCHANGED <<q, trust, result>>
    BY DEF Evaluate, OperationAware
  <1>2. InputInv'
    BY <1>1 DEF InputRecordInv, InputInv, Decided, OperationAware
  <1>3. RecordInv'
    BY <1>1 DEF RecordInv, OperationAware
  <1>4. QED
    BY <1>2, <1>3 DEF InputRecordInv

\* The record is written or not, and the response sent.
LEMMA AnswerInv ==
  ASSUME InputRecordInv, NEW written \in BOOLEAN, Answer(written)
  PROVE  InputRecordInv'
  <1> DEFINE status == classify_operation_aware_http_status(kernel)
             refused == ~post_init(assemble_gateway_audit_event(kernel, result.request_id))
             written_record == IF kernel.evidence
                               THEN CompletedRecord(kernel, result, trust, status)
                               ELSE MissingEvidenceRecord(result, trust, status)
  <1>1. /\ stage = "evaluated" /\ OperationAware /\ kernel \in KernelResults
        /\ UNCHANGED <<q, trust, result, kernel>>
    BY DEF Answer, InputRecordInv, RecordInv
  <1>2. \/ stage' = "raised" /\ refused
        \/ /\ stage' = "answered"
           /\ response' = from_result(kernel, result.request_id, status)
           /\ record' # NoRecord => record' = written_record
    BY DEF Answer
  <1> HIDE DEF status, refused, written_record
  <1>3. InputInv'
    BY <1>1, <1>2 DEF InputRecordInv, InputInv, Decided, OperationAware
  <1>4. CASE stage' = "raised"
    <2>1. RecordInv'
      BY <1>1, <1>2, <1>4
      DEF InputRecordInv, InputInv, Decided, RecordInv, OperationAware, refused
    <2>2. QED
      BY <1>3, <2>1 DEF InputRecordInv
  <1>5. CASE stage' = "answered"
    <2>1. RecordInv'
      BY <1>1, <1>2, <1>5 DEF RecordInv, OperationAware, status, written_record
    <2>2. QED
      BY <1>3, <2>1 DEF InputRecordInv
  <1>6. QED
    BY <1>2, <1>4, <1>5

\* Every step keeps the invariant.
LEMMA NextInputRecord == InputRecordInv /\ [NextRecord]_recordVars => InputRecordInv'
  <1> SUFFICES ASSUME InputRecordInv, [NextRecord]_recordVars PROVE InputRecordInv'
    OBVIOUS
  <1>1. CASE Next /\ UNCHANGED <<kernel, response, record>>
    BY <1>1, ResolveInv, ComposeOperationAwareInv, ComposeInv DEF Next
  <1>2. ASSUME NEW status \in {400, 500, 503}, Unevaluated(status) PROVE InputRecordInv'
    BY <1>2, UnevaluatedInv
  <1>3. ASSUME NEW k \in KernelResults, Evaluate(k) PROVE InputRecordInv'
    BY <1>3, EvaluateInv
  <1>4. ASSUME NEW written \in BOOLEAN, Answer(written) PROVE InputRecordInv'
    BY <1>4, AnswerInv
  <1>5. CASE UNCHANGED recordVars
    BY <1>5 DEF recordVars, vars, InputRecordInv, InputInv, RecordInv, Decided, OperationAware
  <1>6. QED
    BY <1>1, <1>2, <1>3, <1>4, <1>5 DEF NextRecord

\* At every stage the state is what the gateway's operators make of the request.
THEOREM InputInvariant == SpecRecord => []InputRecordInv
  BY InitInputRecord, NextInputRecord, PTL DEF SpecRecord

-----------------------------------------------------------------------------
(* The properties.                                                         *)

\* What holds of the request, the trust and the input the kernel is given.
LEMMA DecidedFacts ==
  ASSUME InputRecordInv, stage \in Decided
  PROVE  /\ WellFormed(q) /\ Validated(q) /\ Canonicalised(q, result)
         /\ OperationAware =>
               /\ Established(q, trust)
               /\ q.fields # {} => trust.status = "trusted"
               /\ result.provenance = Provenance(q, trust, result.context)
               /\ result.request_id = IF q.request_id # None_ THEN q.request_id
                                      ELSE "correlation"
  <1>1. /\ WellFormed(q) /\ Validated(q) /\ Loadable(q.config) /\ result.error = "none"
        /\ stage \notin {"arrived", "resolved", "rejected"}
    BY QueriesAssumption DEF InputRecordInv, InputInv, Decided
  <1>2. CASE OperationAware
    <2>1. /\ trust = resolve_operation_producer_trust(q.headers, q.subject, q.config)
          /\ trust.error = "none"
          /\ result = compose_operation_aware_input(q, trust)
      BY <1>1, <1>2 DEF InputRecordInv, InputInv
    <2>2. Established(q, trust)
      BY <1>1, <2>1, Resolution
    <2>3. QED
      BY <1>1, <2>1, <2>2, OperationAwareCanonical
  <1>3. CASE ~OperationAware
    <2>1. result = ComposeEvaluate(q)
      BY <1>1, <1>3 DEF InputRecordInv, InputInv
    <2>2. QED
      BY <1>1, <1>3, <2>1, EvaluateCanonical
  <1>4. QED
    BY <1>2, <1>3

\* Producer-only context reaches the kernel only from a producer the deployment
\* vouches for, by the configured mechanism alone.
THEOREM ProducerVouched == SpecRecord => []ProducerContextVouched
  <1>1. InputRecordInv => ProducerContextVouched
    <2> SUFFICES ASSUME InputRecordInv, stage = "composed", OperationAware
                 PROVE  /\ q.fields # {} => Vouched(q)
                        /\ trust.status = "trusted" <=> Vouched(q)
                        /\ trust.operation_producer_subject_id # None_ => ~q.config.mtls
      BY DEF ProducerContextVouched, OperationAware
    <2>1. Established(q, trust) /\ (q.fields # {} => trust.status = "trusted")
      BY DecidedFacts DEF Decided
    <2>2. QED
      BY <2>1 DEF Established
  <1>2. QED
    BY InputInvariant, <1>1, PTL

\* No well-formed request under a loadable configuration reaches
\* CompositionInternalError or the decision request's refusal of caller context.
THEOREM InternalErrorUnreachable == SpecRecord => []NoInternalError
  <1>1. InputRecordInv => NoInternalError
    <2> SUFFICES ASSUME InputRecordInv PROVE NoInternalError
      OBVIOUS
    <2>1. Nothing.error # "internal"
      BY DEF Nothing
    <2>2. result.error # "internal"
      <3>1. CASE OperationAware
        <4>1. CASE result = Nothing
          BY <2>1, <4>1
        <4>2. CASE result # Nothing
          <5>1. /\ WellFormed(q) /\ Loadable(q.config) /\ trust.error = "none"
                /\ trust = resolve_operation_producer_trust(q.headers, q.subject, q.config)
                /\ result = compose_operation_aware_input(q, trust)
            BY <3>1, <4>2, QueriesAssumption DEF InputRecordInv, InputInv
          <5>2. InternallyConsistent(q.subject, trust)
            BY <5>1, Resolution DEF Established
          <5>3. QED
            BY <5>1, <5>2, NeverInternal
        <4>3. QED
          BY <4>1, <4>2
      <3>2. CASE ~OperationAware
        <4>1. result = Nothing \/ result = ComposeEvaluate(q)
          BY <3>2 DEF InputRecordInv, InputInv
        <4>2. QED
          BY <2>1, <4>1, NeverInternalEvaluate
      <3>3. QED
        BY <3>1, <3>2
    <2>3. ASSUME stage = "composed", OperationAware PROVE DecisionRequestOk(result.context)
      <3>1. WellFormed(q) /\ Validated(q) /\ Canonicalised(q, result)
        BY <2>3, DecidedFacts DEF Decided
      <3>2. DOMAIN q.context = {}
        <4>1. q.context = <<>>
          BY <2>3, <3>1 DEF Validated, OperationAware
        <4>2. QED
          BY <4>1
      <3>3. DOMAIN result.context \subseteq DOMAIN q.context \cup ReservedKeys
        BY <3>1, Evidence DEF Canonicalised
      <3>4. QED
        BY <3>2, <3>3 DEF DecisionRequestOk
    <2>4. QED
      BY <2>2, <2>3 DEF NoInternalError, OperationAware
  <1>2. QED
    BY InputInvariant, <1>1, PTL

\* The kernel is only asked about typed actions and resources, and the types the
\* gateway supplied are one and the same.
THEOREM CanonicalAlways == SpecRecord => []CanonicalForm
  <1>1. InputRecordInv => CanonicalForm
    <2> SUFFICES ASSUME InputRecordInv, stage = "composed" PROVE CanonicalForm
      BY DEF CanonicalForm
    <2> DEFINE a == compose_action(q.action, q.resource_type)
               i == compose_resource_id(q.resource_type, q.resource_id)
               composed == ResourceWasComposed(q.resource_type, q.resource_id)
    <2>1. WellFormed(q) /\ Canonicalised(q, result)
      BY DecidedFacts DEF Decided
    <2>2. a.ok /\ i.ok /\ result.action = a.value /\ result.resource_id = i.value
      BY <2>1 DEF Canonicalised
    <2>3. /\ Len(a.value) >= 2
          /\ q.resource_type # None =>
                /\ Len(q.resource_type) = 1
                /\ Len(a.value) = 2 /\ a.value[2] = q.resource_type[1]
      BY <2>1, <2>2, ActionForm
    <2>4. /\ ~composed => i.value = q.resource_id
          /\ ~composed /\ q.resource_id # None => Len(i.value) >= 2 /\ q.resource_type = None
          /\ composed =>
                /\ Len(i.value) = Len(q.resource_type) + 1
                /\ i.value[1] = q.resource_type[1]
      BY <2>1, <2>2, ResourceForm
    <2>5. composed => q.resource_type # None
      BY DEF ResourceWasComposed
    <2>6. composed => Len(i.value) = 2 /\ Len(i.value) >= 2 /\ i.value[1] = a.value[2]
      <3> HIDE DEF a, i, composed
      <3>1. composed => Len(i.value) = 1 + 1
        BY <2>3, <2>4, <2>5, Zenon
      <3>2. \A n : n = 1 + 1 => n = 2 /\ n >= 2
        OBVIOUS
      <3>3. QED
        BY <2>3, <2>4, <2>5, <3>1, <3>2, Zenon
    <2> HIDE DEF a, i, composed
    <2>7. QED
      BY <2>2, <2>3, <2>4, <2>5, <2>6, Zenon DEF CanonicalForm
  <1>2. QED
    BY InputInvariant, <1>1, PTL

\* The reserved keys of a composed context are the gateway's own: they say what
\* was composed, and their parts put together are what the kernel is asked about.
THEOREM EvidenceAlwaysExplains == SpecRecord => []EvidenceExplains
  <1>1. InputRecordInv => EvidenceExplains
    <2> SUFFICES ASSUME InputRecordInv, stage = "composed" PROVE EvidenceExplains
      BY DEF EvidenceExplains
    <2> DEFINE a == compose_action(q.action, q.resource_type)
               i == compose_resource_id(q.resource_type, q.resource_id)
               c == result.context
               composed == ResourceWasComposed(q.resource_type, q.resource_id)
    <2>1. WellFormed(q) /\ Canonicalised(q, result)
      BY DecidedFacts DEF Decided
    <2>2. /\ a.ok /\ i.ok /\ result.action = a.value /\ result.resource_id = i.value
          /\ reserved_key_collisions(q.context) = {} /\ c = CombinedContext(q, a.value, i.value)
      BY <2>1 DEF Canonicalised
    <2>3. /\ result.action # q.action <=> q.resource_type # None
          /\ q.resource_type # None => result.action = q.action \o q.resource_type
      BY <2>1, <2>2, ActionForm
    <2>4. /\ result.resource_id # q.resource_id <=> composed
          /\ composed => result.resource_id = q.resource_type \o q.resource_id
      BY <2>1, <2>2, ResourceForm
    <2>5. composed => q.resource_type # None
      BY DEF ResourceWasComposed
    <2>6. /\ DOMAIN c \cap ReservedKeys =
                (IF q.resource_type # None THEN ActionEvidenceKeys ELSE {})
                \cup (IF composed THEN ResourceEvidenceKeys ELSE {})
          /\ "composed_action" \in DOMAIN c <=> q.resource_type # None
          /\ "composed_resource_id" \in DOMAIN c <=> composed
          /\ q.resource_type # None =>
                /\ c["original_action"] = q.action
                /\ c["resource_type"] = q.resource_type
                /\ c["composed_action"] = a.value
          /\ composed =>
                /\ c["original_resource_id"] = q.resource_id
                /\ c["composed_resource_id"] = i.value
          /\ \A k \in DOMAIN q.context : c[k] = q.context[k]
      BY <2>1, <2>2, Evidence
    <2> HIDE DEF a, i, composed
    <2>7. DOMAIN c \cap ReservedKeys =
             (IF result.action # q.action THEN ActionEvidenceKeys ELSE {})
             \cup (IF result.resource_id # q.resource_id THEN ResourceEvidenceKeys ELSE {})
      BY <2>3, <2>4, <2>6
    <2>8. "composed_action" \in DOMAIN c =>
             /\ c["original_action"] \o c["resource_type"] = result.action
             /\ c["composed_action"] = result.action
      BY <2>2, <2>3, <2>6
    <2>9. "composed_resource_id" \in DOMAIN c =>
             /\ c["resource_type"] \o c["original_resource_id"] = result.resource_id
             /\ c["composed_resource_id"] = result.resource_id
      BY <2>2, <2>4, <2>5, <2>6
    <2>10. QED
      BY <2>6, <2>7, <2>8, <2>9 DEF EvidenceExplains
  <1>2. QED
    BY InputInvariant, <1>1, PTL

\* What the operation-aware endpoint made of a request, /v1/evaluate would have
\* made of it too.
THEOREM EndpointsAlwaysAgree == SpecRecord => []EndpointsAgree
  <1>1. InputRecordInv => EndpointsAgree
    <2> SUFFICES ASSUME InputRecordInv, OperationAware, stage \in {"composed", "rejected"},
                        trust.error = "none", result.error # "untrusted producer"
                 PROVE  LET e == ComposeEvaluate(q) IN
                        /\ e.error = result.error
                        /\ <<e.action, e.resource_id, e.context>> =
                              <<result.action, result.resource_id, result.context>>
      BY DEF EndpointsAgree, OperationAware
    <2>1. /\ WellFormed(q) /\ Loadable(q.config)
          /\ trust = resolve_operation_producer_trust(q.headers, q.subject, q.config)
          /\ result = compose_operation_aware_input(q, trust)
      BY QueriesAssumption DEF InputRecordInv, InputInv
    <2>2. InternallyConsistent(q.subject, trust)
      BY <2>1, Resolution DEF Established
    <2>3. QED
      BY <2>1, <2>2, SameComposition
  <1>2. QED
    BY InputInvariant, <1>1, PTL

\* What the provenance of a composed input says of each field.
LEMMA ProvenanceForm ==
  ASSUME NEW r, WellFormed(r), NEW t, NEW c, NEW p, p = Provenance(r, t, c)
  PROVE  /\ {f \in DOMAIN p : p[f] = "trusted_producer_asserted"} = r.fields
         /\ p["action"] = IF r.resource_type # None THEN "gateway_derived"
                          ELSE "untrusted_caller_asserted"
         /\ p["resource_id"] = IF ResourceWasComposed(r.resource_type, r.resource_id)
                               THEN "gateway_derived"
                               ELSE IF r.resource_id # None THEN "untrusted_caller_asserted"
                               ELSE "unavailable"
         /\ p["operation_producer_subject_id"] = "verified" =>
               t.operation_producer_subject_id # None_
  <1> DEFINE old == ProducerOnlyProvenance(r)
             new == [
                operation_producer_subject_id |->
                   IF t.operation_producer_subject_id # None_ THEN "verified" ELSE "unavailable",
                action |-> IF r.resource_type # None THEN "gateway_derived"
                           ELSE "untrusted_caller_asserted",
                resource_id |-> IF ResourceWasComposed(r.resource_type, r.resource_id)
                                THEN "gateway_derived"
                                ELSE IF r.resource_id # None THEN "untrusted_caller_asserted"
                                ELSE "unavailable",
                resource_type |-> IF r.resource_type # None THEN "untrusted_caller_asserted"
                                  ELSE "unavailable",
                context |-> IF c # <<>> THEN "gateway_derived" ELSE "unavailable",
                request_id |-> IF r.request_id # None_ THEN "untrusted_caller_asserted"
                               ELSE "gateway_derived"]
             K == {"operation_producer_subject_id", "action", "resource_id", "resource_type",
                   "context", "request_id"}
  <1>1. p = Update(old, new)
    BY DEF Provenance
  <1>2. /\ DOMAIN new = K
        /\ \A f \in K : new[f] # "trusted_producer_asserted"
        /\ new["action"] = IF r.resource_type # None THEN "gateway_derived"
                           ELSE "untrusted_caller_asserted"
        /\ new["resource_id"] = IF ResourceWasComposed(r.resource_type, r.resource_id)
                                THEN "gateway_derived"
                                ELSE IF r.resource_id # None THEN "untrusted_caller_asserted"
                                ELSE "unavailable"
        /\ new["operation_producer_subject_id"] = "verified" =>
              t.operation_producer_subject_id # None_
    OBVIOUS
  <1>3. /\ DOMAIN old = OPERATION_PRODUCER_ONLY_FIELDS
        /\ \A f \in OPERATION_PRODUCER_ONLY_FIELDS :
              old[f] = IF f \in r.fields THEN "trusted_producer_asserted" ELSE "unavailable"
    BY DEF ProducerOnlyProvenance
  <1>4. K \cap OPERATION_PRODUCER_ONLY_FIELDS = {}
    BY DEF OPERATION_PRODUCER_ONLY_FIELDS
  <1>5. r.fields \subseteq OPERATION_PRODUCER_ONLY_FIELDS
    BY DEF WellFormed
  <1> HIDE DEF old, new
  <1>6. /\ DOMAIN p = OPERATION_PRODUCER_ONLY_FIELDS \cup K
        /\ \A f \in DOMAIN p : p[f] = IF f \in K THEN new[f] ELSE old[f]
    BY <1>1, <1>2, <1>3 DEF Update
  <1>7. {f \in DOMAIN p : p[f] = "trusted_producer_asserted"} = r.fields
    <2> HIDE DEF K
    <2>1. QED
      BY <1>2, <1>3, <1>4, <1>5, <1>6
  <1>8. QED
    BY <1>2, <1>6, <1>7

\* Provenance agrees with the request and with the evidence in the context.
THEOREM ProvenanceAlwaysHonest == SpecRecord => []ProvenanceHonest
  <1>1. InputRecordInv => ProvenanceHonest
    <2> SUFFICES ASSUME InputRecordInv, stage = "composed", OperationAware
                 PROVE  ProvenanceHonest
      BY DEF ProvenanceHonest, OperationAware
    <2> DEFINE a == compose_action(q.action, q.resource_type)
               i == compose_resource_id(q.resource_type, q.resource_id)
               c == result.context
               p == result.provenance
               composed == ResourceWasComposed(q.resource_type, q.resource_id)
    <2>1. WellFormed(q) /\ Canonicalised(q, result) /\ Established(q, trust)
      BY DecidedFacts DEF Decided
    <2>2. p = Provenance(q, trust, c)
      BY DecidedFacts DEF Decided
    <2>3. /\ a.ok /\ i.ok /\ result.action = a.value /\ result.resource_id = i.value
          /\ reserved_key_collisions(q.context) = {} /\ c = CombinedContext(q, a.value, i.value)
      BY <2>1 DEF Canonicalised
    <2>4. result.action = q.action <=> q.resource_type = None
      BY <2>1, <2>3, ActionForm
    <2>5. /\ ~composed => result.resource_id = q.resource_id
          /\ composed => result.resource_id # None
      BY <2>1, <2>3, ResourceForm
    <2>6. /\ "composed_action" \in DOMAIN c <=> q.resource_type # None
          /\ "composed_resource_id" \in DOMAIN c <=> composed
      BY <2>1, <2>3, Evidence
    <2>7. /\ {f \in DOMAIN p : p[f] = "trusted_producer_asserted"} = q.fields
          /\ p["action"] = IF q.resource_type # None THEN "gateway_derived"
                           ELSE "untrusted_caller_asserted"
          /\ p["resource_id"] = IF composed THEN "gateway_derived"
                                ELSE IF q.resource_id # None THEN "untrusted_caller_asserted"
                                ELSE "unavailable"
          /\ p["operation_producer_subject_id"] = "verified" =>
                trust.operation_producer_subject_id # None_
      BY <2>1, <2>2, ProvenanceForm
    <2>8. p["operation_producer_subject_id"] = "verified" => Vouched(q) /\ ~q.config.mtls
      BY <2>1, <2>7 DEF Established
    <2> HIDE DEF a, i, composed
    <2>9. QED
      BY <2>4, <2>5, <2>6, <2>7, <2>8 DEF ProvenanceHonest
  <1>2. QED
    BY InputInvariant, <1>1, PTL

-----------------------------------------------------------------------------
(* The record.                                                             *)

\* A kernel result completed with an outcome or failed with a reason, and is
\* answered 200 exactly when it says ALLOW.
LEMMA KernelResultForm ==
  ASSUME NEW k \in KernelResults
  PROVE  /\ k.evidence \in BOOLEAN
         /\ \/ /\ k.evaluation_status = "completed"
               /\ k.outcome # "none" /\ k.failure_reason = "none"
            \/ /\ k.evaluation_status = "failed"
               /\ k.outcome = "none" /\ k.failure_reason # "none"
         /\ classify_operation_aware_http_status(k) = 200 <=> k.outcome = "ALLOW"
  <1>1. CASE k \in [evaluation_status : {"completed"}, outcome : DOMAIN CompletedStatus,
                    failure_reason : {"none"}, evidence : BOOLEAN]
    <2>1. /\ k.evaluation_status = "completed" /\ k.failure_reason = "none"
          /\ k.outcome \in DOMAIN CompletedStatus /\ k.evidence \in BOOLEAN
      BY <1>1
    <2>2. k.outcome \in {"ALLOW", "DENY", "NOT_APPLICABLE"}
      BY <2>1 DEF CompletedStatus
    <2>3. classify_operation_aware_http_status(k) = CompletedStatus[k.outcome]
      BY <2>1 DEF classify_operation_aware_http_status
    <2>4. CompletedStatus[k.outcome] = 200 <=> k.outcome = "ALLOW"
      BY <2>2 DEF CompletedStatus
    <2>5. QED
      BY <2>1, <2>2, <2>3, <2>4
  <1>2. CASE k \in [evaluation_status : {"failed"}, outcome : {"none"},
                    failure_reason : DOMAIN FAILURE_REASON_HTTP_STATUS \cup {UnknownReason},
                    evidence : BOOLEAN]
    <2>1. /\ k.evaluation_status = "failed" /\ k.outcome = "none" /\ k.evidence \in BOOLEAN
          /\ k.failure_reason \in DOMAIN FAILURE_REASON_HTTP_STATUS \cup {UnknownReason}
      BY <1>2
    <2>2. k.failure_reason # "none"
      BY <2>1 DEF FAILURE_REASON_HTTP_STATUS, UnknownReason
    <2>3. /\ UNRECOGNIZED_STATE_HTTP_STATUS # 200
          /\ \A f \in DOMAIN FAILURE_REASON_HTTP_STATUS : FAILURE_REASON_HTTP_STATUS[f] # 200
      BY DEF FAILURE_REASON_HTTP_STATUS, UNRECOGNIZED_STATE_HTTP_STATUS
    <2>4. classify_operation_aware_http_status(k) # 200
      BY <2>1, <2>3 DEF classify_operation_aware_http_status
    <2>5. QED
      BY <2>1, <2>2, <2>4
  <1>3. QED
    BY <1>1, <1>2 DEF KernelResults

\* The fields of the two records, detail included.
LEMMA RecordForm ==
  ASSUME NEW k, NEW x, NEW t, NEW status, NEW e
  PROVE  /\ e = CompletedRecord(k, x, t, status) =>
               /\ e.action = "oa_authorization_completed" /\ e.outcome = AuditOutcomeOf(k)
               /\ e.request_id = x.request_id /\ e.http_status = status
               /\ e.subject_id = t.authorization_subject_id /\ e.provenance = x.provenance
               /\ e.event = assemble_gateway_audit_event(k, x.request_id)
         /\ e = MissingEvidenceRecord(x, t, status) =>
               /\ e.action = "oa_evidence_missing"
               /\ e.request_id = x.request_id /\ e.http_status = status
               /\ e.subject_id = t.authorization_subject_id
         /\ e \in {CompletedRecord(k, x, t, status), MissingEvidenceRecord(x, t, status)} =>
               /\ e.producer_status = t.status
               /\ e.producer_subject_id = t.operation_producer_subject_id
               /\ e.producer_workload_identity = t.producer_workload_identity
  <1>1. ASSUME e = CompletedRecord(k, x, t, status)
        PROVE  /\ e.action = "oa_authorization_completed" /\ e.outcome = AuditOutcomeOf(k)
               /\ e.request_id = x.request_id /\ e.http_status = status
               /\ e.subject_id = t.authorization_subject_id /\ e.provenance = x.provenance
               /\ e.event = assemble_gateway_audit_event(k, x.request_id)
               /\ e.producer_status = t.status
               /\ e.producer_subject_id = t.operation_producer_subject_id
               /\ e.producer_workload_identity = t.producer_workload_identity
    BY <1>1 DEF CompletedRecord, ProducerDetail, Update
  <1>2. ASSUME e = MissingEvidenceRecord(x, t, status)
        PROVE  /\ e.action = "oa_evidence_missing"
               /\ e.request_id = x.request_id /\ e.http_status = status
               /\ e.subject_id = t.authorization_subject_id
               /\ e.producer_status = t.status
               /\ e.producer_subject_id = t.operation_producer_subject_id
               /\ e.producer_workload_identity = t.producer_workload_identity
    BY <1>2 DEF MissingEvidenceRecord, ProducerDetail, Update
  <1>3. QED
    BY <1>1, <1>2

\* The record and the response, emitted by different code, tell of one
\* evaluation, and a caller was let through exactly where the record says so.
THEOREM RecordAlwaysExplains == SpecRecord => []RecordExplainsResponse
  <1>1. InputRecordInv => RecordExplainsResponse
    <2> SUFFICES ASSUME InputRecordInv, stage = "answered", record # NoRecord
                 PROVE  RecordExplainsResponse
      BY DEF RecordExplainsResponse
    <2> DEFINE status == classify_operation_aware_http_status(kernel)
    <2>1. /\ kernel \in KernelResults
          /\ response = from_result(kernel, result.request_id, status)
          /\ record = IF kernel.evidence THEN CompletedRecord(kernel, result, trust, status)
                      ELSE MissingEvidenceRecord(result, trust, status)
      BY DEF InputRecordInv, RecordInv
    <2>2. kernel.evidence \in BOOLEAN /\ (status = 200 <=> kernel.outcome = "ALLOW")
      BY <2>1, KernelResultForm
    <2> HIDE DEF status
    <2>3. /\ response.status = status /\ response.request_id = result.request_id
          /\ response.evidence_id = IF kernel.evidence THEN "evidence" ELSE "none"
          /\ response.disposition = Disposition(kernel)
          /\ response.outcome = kernel.outcome
      BY <2>1 DEF from_result
    <2>4. CASE kernel.evidence
      <3>1. record = CompletedRecord(kernel, result, trust, status)
        BY <2>1, <2>4
      <3>2. /\ record.action = "oa_authorization_completed"
            /\ record.outcome = AuditOutcomeOf(kernel)
            /\ record.request_id = result.request_id /\ record.http_status = status
            /\ record.event = assemble_gateway_audit_event(kernel, result.request_id)
        BY <3>1, RecordForm
      <3>3. /\ record.event.audit_evidence_id = "evidence"
            /\ record.event.enforcement_action = Disposition(kernel)
            /\ record.event.outcome = kernel.outcome
        BY <3>2 DEF assemble_gateway_audit_event
      <3>4. record.outcome = "ALLOWED" <=> status = 200
        BY <2>2, <3>2 DEF AuditOutcomeOf, Disposition
      <3>5. QED
        BY <2>3, <2>4, <3>2, <3>3, <3>4 DEF RecordExplainsResponse
    <2>5. CASE ~kernel.evidence
      <3>1. record = MissingEvidenceRecord(result, trust, status)
        BY <2>1, <2>5
      <3>2. /\ record.action = "oa_evidence_missing"
            /\ record.request_id = result.request_id /\ record.http_status = status
        BY <3>1, RecordForm
      <3>3. QED
        BY <2>3, <2>5, <3>2 DEF RecordExplainsResponse
    <2>6. QED
      BY <2>4, <2>5
  <1>2. QED
    BY InputInvariant, <1>1, PTL

\* A decision that rests on producer-only context names in its record the
\* producer the deployment vouches for, and no untrusted caller is so named.
THEOREM ProducerAlwaysAccountable == SpecRecord => []ProducerAccountable
  <1>1. InputRecordInv => ProducerAccountable
    <2> SUFFICES ASSUME InputRecordInv, stage = "answered", record # NoRecord
                 PROVE  ProducerAccountable
      BY DEF ProducerAccountable
    <2> DEFINE status == classify_operation_aware_http_status(kernel)
    <2>1. OperationAware
      BY DEF InputRecordInv, RecordInv
    <2>2. /\ WellFormed(q) /\ Established(q, trust)
          /\ q.fields # {} => trust.status = "trusted"
          /\ result.provenance = Provenance(q, trust, result.context)
      BY <2>1, DecidedFacts DEF Decided
    <2>3. record \in {CompletedRecord(kernel, result, trust, status),
                      MissingEvidenceRecord(result, trust, status)}
      BY DEF InputRecordInv, RecordInv
    <2> HIDE DEF status
    <2>4. /\ record.producer_status = trust.status
          /\ record.producer_subject_id = trust.operation_producer_subject_id
          /\ record.producer_workload_identity = trust.producer_workload_identity
      BY <2>3, RecordForm
    <2>5. record.subject_id = trust.authorization_subject_id
      BY <2>3, RecordForm
    <2>6. record.action = "oa_authorization_completed" => record.provenance = result.provenance
      BY <2>3, RecordForm
    <2>7. \A f \in q.fields : result.provenance[f] = "trusted_producer_asserted"
      <3>1. {f \in DOMAIN result.provenance :
                result.provenance[f] = "trusted_producer_asserted"} = q.fields
        BY <2>2, ProvenanceForm
      <3>2. QED
        BY <3>1
    <2>8. /\ trust.authorization_subject_id = q.subject
          /\ trust.operation_producer_subject_id # None_ =>
                trust.operation_producer_subject_id = q.subject /\ ~q.config.mtls
          /\ trust.status = "trusted" =>
                IF q.config.mtls THEN trust.producer_workload_identity \in q.config.admitted
                ELSE trust.operation_producer_subject_id \in {Trim[e] : e \in q.config.allowlist}
      BY <2>2 DEF Established
    <2>9. QED
      BY <2>2, <2>4, <2>5, <2>6, <2>7, <2>8 DEF ProducerAccountable
  <1>2. QED
    BY InputInvariant, <1>1, PTL

\* Assembling the record of a decision raises only for a blank request_id of the
\* caller's own: every result the kernel returns passes the event's checks.
THEOREM RecordingRaises == SpecRecord => []RecordingRaisesOnlyForBlankId
  <1>1. InputRecordInv => RecordingRaisesOnlyForBlankId
    <2> SUFFICES ASSUME InputRecordInv, stage = "raised", kernel # NotRun
                 PROVE  q.request_id # None_ /\ BlankId(q.request_id)
      BY DEF RecordingRaisesOnlyForBlankId
    <2> DEFINE e == assemble_gateway_audit_event(kernel, result.request_id)
    <2>1. /\ OperationAware /\ trust.error = "none" /\ result.error = "none"
          /\ kernel \in KernelResults /\ ~post_init(e)
      BY DEF InputRecordInv, RecordInv
    <2>2. result = compose_operation_aware_input(q, trust)
      BY <2>1 DEF InputRecordInv, InputInv
    <2>3. result.request_id = IF q.request_id # None_ THEN q.request_id ELSE "correlation"
      BY <2>1, <2>2, OperationAwareCanonical
    <2>4. \/ /\ kernel.evaluation_status = "completed"
             /\ kernel.outcome # "none" /\ kernel.failure_reason = "none"
          \/ /\ kernel.evaluation_status = "failed"
             /\ kernel.outcome = "none" /\ kernel.failure_reason # "none"
      BY <2>1, KernelResultForm
    <2>5. /\ e.request_id = result.request_id /\ e.outcome = kernel.outcome
          /\ e.evaluation_status = kernel.evaluation_status
          /\ e.failure_reason = kernel.failure_reason
          /\ e.enforcement_action \in {"ALLOW", "DENY"}
      BY DEF assemble_gateway_audit_event, Disposition
    <2> HIDE DEF e
    <2>6. BlankId(e.request_id)
      BY <2>1, <2>4, <2>5 DEF post_init
    <2>7. QED
      BY <2>3, <2>5, <2>6 DEF BlankId
  <1>2. QED
    BY InputInvariant, <1>1, PTL
=============================================================================
