------------------------------ MODULE Gateway ------------------------------
(***************************************************************************)
(* POST /v1/evaluate and POST /v1/evaluate/operation-aware (api/routes.py) *)
(* sharing one audit writer on one event loop.                             *)
(*                                                                         *)
(* A handler runs on the loop without interruption except at its one       *)
(* await, request.body(), which comes after the strict-mode check and      *)
(* before everything else.  Each request slot is a handler activation:     *)
(*    free -> gate -> await_body -> queued -> its stages -> answered       *)
(* loop is the slot that holds the event loop, or Idle.  A stage either    *)
(* passes or refuses; a refusal emits its audit event and answers.         *)
(*                                                                         *)
(* What a stage finds in a request is a free choice among the exits the    *)
(* code has there; what it finds on app.state is fixed by app.  The audit  *)
(* sink goes up and down on its own.                                       *)
(***************************************************************************)
EXTENDS AuditWriter, AppState, Classification, FiniteSets

CONSTANTS
    Requests,       \* request slots: how many handlers may be in flight
    Idle,           \* the event loop is free
    ServedApps,     \* the app.state records to serve from, within ServableApps
    MaxFailures     \* bound: no request is accepted once this many writes failed

ASSUME GatewayAssumption ==
    /\ IsFiniteSet(Requests) /\ Idle \notin Requests
    /\ ServedApps \subseteq ServableApps
    /\ MaxFailures \in Nat

VARIABLES
    app,        \* app.state, fixed while serving
    sink,       \* the inner writer's sink, "up" or "down"
    loop,       \* the slot running on the event loop, or Idle
    endpoint,   \* of each slot: "evaluate" or "operation_aware"
    at,         \* the stage each slot is at
    verdict,    \* what the kernel said, "none" when it was not consulted
    status,     \* the HTTP status answered, 0 before
    trail,      \* history: the audit events the request attempted to write
    lateRuns    \* history: strict-mode evaluations since the writer degraded

requestVars == <<loop, endpoint, at, verdict, status, trail>>
vars == <<writerVars, app, sink, requestVars, lateRuns>>

Endpoints == {"evaluate", "operation_aware"}

Stages(e) ==
    IF e = "evaluate"
    THEN <<"validate", "reserved", "action", "resource", "bearer", "authenticate",
           "evaluator", "announce", "kernel">>
    ELSE <<"validate", "bearer", "authenticate", "producer", "compose", "evaluator",
           "kernel">>

After(e, stage) ==
    LET s == Stages(e) IN s[1 + CHOOSE i \in DOMAIN s : s[i] = stage]

Init ==
    /\ app \in ServedApps
    /\ failed_write_count = 0
    /\ consecutive_failure_count = 0
    /\ degraded = FALSE
    /\ readiness \in IF app.writer THEN StartupTrackers ELSE {EmptyReadiness}
    /\ sink = "up"
    /\ loop = Idle
    /\ endpoint = [r \in Requests |-> "evaluate"]
    /\ at = [r \in Requests |-> "free"]
    /\ verdict = [r \in Requests |-> "none"]
    /\ status = [r \in Requests |-> 0]
    /\ trail = [r \in Requests |-> <<>>]
    /\ lateRuns = 0

-----------------------------------------------------------------------------
(* Audit emission: a no-op without a writer; otherwise one write, whose    *)
(* failure the writer absorbs.                                             *)

Event(action, outcome) == [action |-> action, outcome |-> outcome]

emit(r, event) ==
    IF app.writer
    THEN /\ write(sink = "up")
         /\ trail' = [trail EXCEPT ![r] = Append(@, event)]
    ELSE UNCHANGED <<writerVars, trail>>

\* History of strict-mode evaluations while degraded; over at recovery.
CountLate(ran) ==
    lateRuns' = IF app.fail_closed /\ degraded'
                THEN IF ran /\ degraded THEN lateRuns + 1 ELSE lateRuns
                ELSE 0

\* The handler returns: the loop is free again.
Answer(r, code) ==
    /\ at' = [at EXCEPT ![r] = "answered"]
    /\ status' = [status EXCEPT ![r] = code]
    /\ loop' = Idle

-----------------------------------------------------------------------------
(* The exits of each stage: the audit event and the HTTP status.           *)

Exit(action, code) == [event |-> Event(action, "none"), code |-> code]

ValidateExits == {Exit("validation_failed", 400)}
ReservedExits == {Exit("validation_failed", 400)}
ActionExits == {Exit("validation_failed", 400)}
ResourceExits == {Exit("validation_failed", 400)}
BearerExits == {Exit("authentication_failed", 401)}
AuthenticateExits == {Exit("authentication_failed", 401)}
EvaluatorExits == {Exit("evaluator_unavailable", 503)}
DecisionRequestExits == {Exit("evaluation_failed_closed", 400)}
EvaluationExceptionExits == {Exit("evaluation_failed_closed", 500)}

OAValidateExits == {Exit("oa_validation_failed", 400)}
OABearerExits == {Exit("oa_authentication_failed", 401)}
OAAuthenticateExits == {Exit("oa_authentication_failed", 401)}
OAProducerExits ==
    IF app.config /\ app.mtls THEN {Exit("oa_producer_mtls_trust_failed", 400)} ELSE {}
OAComposeExits ==
    {Exit("oa_composition_rejected", 400), Exit("oa_evaluation_failed_closed", 500)}
OAEvaluatorExits == {Exit("oa_evaluator_unavailable", 503)}
OADecisionRequestExits == {Exit("oa_composition_rejected", 400)}
OAEvaluationExceptionExits == {Exit("oa_evaluation_failed_closed", 500)}

EvaluateExits(stage) ==
    CASE stage = "validate" -> ValidateExits
      [] stage = "reserved" -> ReservedExits
      [] stage = "action" -> ActionExits
      [] stage = "resource" -> ResourceExits
      [] stage = "bearer" -> BearerExits
      [] stage = "authenticate" -> AuthenticateExits
      [] stage = "evaluator" -> IF app.evaluator THEN {} ELSE EvaluatorExits
      [] stage = "kernel" -> DecisionRequestExits \cup EvaluationExceptionExits
      [] OTHER -> {}

OperationAwareExits(stage) ==
    CASE stage = "validate" -> OAValidateExits
      [] stage = "bearer" -> OABearerExits
      [] stage = "authenticate" -> OAAuthenticateExits
      [] stage = "producer" -> OAProducerExits
      [] stage = "compose" -> OAComposeExits
      [] stage = "evaluator" -> IF app.oa_evaluator THEN {} ELSE OAEvaluatorExits
      [] stage = "kernel" -> OADecisionRequestExits \cup OAEvaluationExceptionExits
      [] OTHER -> {}

Exits(r) ==
    IF endpoint[r] = "evaluate" THEN EvaluateExits(at[r]) ELSE OperationAwareExits(at[r])

\* Without the auth mode's verifier authentication cannot succeed, and without
\* the endpoint's evaluator the handler stops there.
MayPass(r) ==
    CASE at[r] = "authenticate" -> app.auth
      [] at[r] = "evaluator" -> IF endpoint[r] = "evaluate" THEN app.evaluator
                                ELSE app.oa_evaluator
      [] OTHER -> at[r] \in {"validate", "reserved", "action", "resource", "bearer",
                             "producer", "compose"}

-----------------------------------------------------------------------------
(* The steps of a handler.                                                 *)

\* A request reaches a registered route and its handler starts.
Arrive(r, e) ==
    /\ at[r] = "free"
    /\ loop = Idle
    /\ e = "operation_aware" => app.oa_route
    /\ failed_write_count < MaxFailures
    /\ loop' = r
    /\ at' = [at EXCEPT ![r] = "gate"]
    /\ endpoint' = [endpoint EXCEPT ![r] = e]
    /\ UNCHANGED <<writerVars, app, sink, verdict, status, trail, lateRuns>>

AwaitBody(r) ==
    /\ at' = [at EXCEPT ![r] = "await_body"]
    /\ loop' = Idle
    /\ UNCHANGED status

ProbeEvent(r) ==
    Event(IF endpoint[r] = "evaluate" THEN "audit_recovery_probe"
          ELSE "oa_audit_recovery_probe", "none")

\* Refuses while degraded without probing: only the flag is consulted.
GateWithoutProbe(r) ==
    /\ loop = r /\ at[r] = "gate"
    /\ IF app.fail_closed /\ app.writer /\ degraded THEN Answer(r, 503) ELSE AwaitBody(r)
    /\ UNCHANGED <<writerVars, app, sink, endpoint, verdict, trail, lateRuns>>

\* Probes, but goes on whether or not the probe recovered the writer.
GateIgnoresProbe(r) ==
    /\ loop = r /\ at[r] = "gate"
    /\ IF app.fail_closed /\ app.writer /\ degraded
       THEN emit(r, ProbeEvent(r))
       ELSE UNCHANGED <<writerVars, trail>>
    /\ AwaitBody(r)
    /\ CountLate(FALSE)
    /\ UNCHANGED <<app, sink, endpoint, verdict>>

\* _resolve_audit_fail_closed_response: in strict mode a degraded writer is
\* probed once; only if it is still degraded is the request refused.
Gate(r) ==
    /\ loop = r /\ at[r] = "gate"
    /\ IF app.fail_closed /\ app.writer /\ degraded
       THEN /\ emit(r, ProbeEvent(r))
            /\ IF degraded' THEN Answer(r, 503) ELSE AwaitBody(r)
       ELSE /\ UNCHANGED <<writerVars, trail>>
            /\ AwaitBody(r)
    /\ CountLate(FALSE)
    /\ UNCHANGED <<app, sink, endpoint, verdict>>

\* The client sends the rest of the body or hangs up, which makes request.body()
\* raise; the server notices on the loop and queues the handler.  Nothing in the
\* gateway or its server limits how long this takes.
BodyEnds(r) ==
    /\ loop = Idle /\ at[r] = "await_body"
    /\ at' = [at EXCEPT ![r] = "queued"]
    /\ UNCHANGED <<writerVars, app, sink, loop, endpoint, verdict, status, trail, lateRuns>>

\* The loop resumes a handler whose body has ended.
Resume(r) ==
    /\ loop = Idle /\ at[r] = "queued"
    /\ loop' = r
    /\ at' = [at EXCEPT ![r] = Stages(endpoint[r])[1]]
    /\ UNCHANGED <<writerVars, app, sink, endpoint, verdict, status, trail, lateRuns>>

Pass(r) ==
    /\ loop = r /\ MayPass(r)
    /\ at' = [at EXCEPT ![r] = After(endpoint[r], at[r])]
    /\ UNCHANGED <<writerVars, app, sink, loop, endpoint, verdict, status, trail, lateRuns>>

\* Refuses without leaving an audit event.
RefuseSilently(r) ==
    /\ loop = r
    /\ \E x \in Exits(r) : Answer(r, x.code)
    /\ UNCHANGED <<writerVars, app, sink, endpoint, verdict, trail, lateRuns>>

\* A stage refuses: one audit event, then the response.
Refuse(r) ==
    /\ loop = r
    /\ \E x \in Exits(r) : emit(r, x.event) /\ Answer(r, x.code)
    /\ CountLate(FALSE)
    /\ UNCHANGED <<app, sink, endpoint, verdict>>

\* The producer stage handles the seven certificate errors it lists.  A leaf
\* certificate whose extensions cannot be read raises another one: no event is
\* written and the framework answers 500.
ProducerRaises(r) ==
    /\ loop = r /\ at[r] = "producer" /\ app.config /\ app.mtls
    /\ at' = [at EXCEPT ![r] = "raised"]
    /\ status' = [status EXCEPT ![r] = 500]
    /\ loop' = Idle
    /\ UNCHANGED <<writerVars, app, sink, endpoint, verdict, trail, lateRuns>>

\* Yields the loop between announcing the evaluation and running it.
AnnounceYields(r) ==
    /\ loop = r /\ at[r] = "announce"
    /\ emit(r, Event("evaluation_requested", "none"))
    /\ at' = [at EXCEPT ![r] = "kernel"]
    /\ loop' = Idle
    /\ CountLate(FALSE)
    /\ UNCHANGED <<app, sink, endpoint, verdict, status>>

\* Waits for the audit sink before it goes on.
AnnounceBlocksOnSink(r) ==
    /\ loop = r /\ at[r] = "announce" /\ sink = "up"
    /\ emit(r, Event("evaluation_requested", "none"))
    /\ at' = [at EXCEPT ![r] = "kernel"]
    /\ CountLate(FALSE)
    /\ UNCHANGED <<app, sink, loop, endpoint, verdict, status>>

\* /v1/evaluate only: EVALUATION_REQUESTED, before the kernel is called.
Announce(r) ==
    /\ loop = r /\ at[r] = "announce"
    /\ emit(r, Event("evaluation_requested", "none"))
    /\ at' = [at EXCEPT ![r] = "kernel"]
    /\ CountLate(FALSE)
    /\ UNCHANGED <<app, sink, loop, endpoint, verdict, status>>

EvaluateStatus(outcome) == IF outcome = "ALLOW" THEN 200 ELSE 403

\* The v0.1 kernel decides and, being given the same writer, records its
\* decision itself; the handler maps ALLOW to 200 and the rest to 403.
EvaluateDecides(r, outcome) ==
    /\ loop = r /\ at[r] = "kernel" /\ endpoint[r] = "evaluate"
    /\ emit(r, Event("kernel_decision", outcome))
    /\ verdict' = [verdict EXCEPT ![r] = outcome]
    /\ Answer(r, EvaluateStatus(outcome))
    /\ CountLate(TRUE)
    /\ UNCHANGED <<app, sink, endpoint>>

VerdictOf(k) == IF k.evaluation_status = "failed" THEN "FAILED" ELSE Disposition(k)

\* What the operation-aware handler records of a kernel result.
RecordOf(k) ==
    IF k.evidence THEN Event("oa_authorization_completed", Disposition(k))
    ELSE Event("oa_evidence_missing", "none")

\* The operation-aware kernel returns a result: classify it, leave exactly one
\* record of it, answer.
OperationAwareDecides(r, k) ==
    /\ loop = r /\ at[r] = "kernel" /\ endpoint[r] = "operation_aware"
    /\ emit(r, RecordOf(k))
    /\ verdict' = [verdict EXCEPT ![r] = VerdictOf(k)]
    /\ Answer(r, classify_operation_aware_http_status(k))
    /\ CountLate(TRUE)
    /\ UNCHANGED <<app, sink, endpoint>>

KernelRuns(r) ==
    \/ \E outcome \in {"ALLOW", "DENY"} : EvaluateDecides(r, outcome)
    \/ \E k \in KernelResults : OperationAwareDecides(r, k)

\* The response is on its way: the handler returned it, or it raised.
Done == {"answered", "raised"}

\* The response has left and the slot takes the next request.
Release(r) ==
    /\ at[r] \in Done
    /\ at' = [at EXCEPT ![r] = "free"]
    /\ endpoint' = [endpoint EXCEPT ![r] = "evaluate"]
    /\ verdict' = [verdict EXCEPT ![r] = "none"]
    /\ status' = [status EXCEPT ![r] = 0]
    /\ trail' = [trail EXCEPT ![r] = <<>>]
    /\ UNCHANGED <<writerVars, app, sink, loop, lateRuns>>

\* The sink the inner writer writes to fails or comes back.
SinkChanges ==
    /\ sink' = IF sink = "up" THEN "down" ELSE "up"
    /\ UNCHANGED <<writerVars, app, requestVars, lateRuns>>

Running(r) ==
    Gate(r) \/ Pass(r) \/ Refuse(r) \/ ProducerRaises(r) \/ Announce(r) \/ KernelRuns(r)

Next ==
    \/ \E r \in Requests :
          \/ \E e \in Endpoints : Arrive(r, e)
          \/ Gate(r)
          \/ BodyEnds(r)
          \/ Resume(r)
          \/ Pass(r)
          \/ Refuse(r)
          \/ ProducerRaises(r)
          \/ Announce(r)
          \/ KernelRuns(r)
          \/ Release(r)
    \/ SinkChanges

Spec == Init /\ [][Next]_vars

\* The handler that holds the loop runs on; the loop's queue is first-in
\* first-out, so a handler that is queued is resumed; a response leaves.  Nothing
\* is assumed of clients, who may stall in the middle of a body, or of the sink.
Fairness ==
    \A r \in Requests : WF_vars(Running(r)) /\ SF_vars(Resume(r)) /\ WF_vars(Release(r))

FairSpec == Spec /\ Fairness

\* An orchestrator that routes by /ready: requests arrive only while every
\* registered component is ready, and then they do keep arriving, from clients
\* that do not stall.
RoutedArrive(r, e) == is_ready(readiness) /\ Arrive(r, e)

RoutedNext ==
    \/ \E r \in Requests :
          \/ \E e \in Endpoints : RoutedArrive(r, e)
          \/ Running(r)
          \/ BodyEnds(r)
          \/ Resume(r)
          \/ Release(r)
    \/ SinkChanges

RoutedSpec ==
    /\ Init /\ [][RoutedNext]_vars
    /\ Fairness
    /\ \A r \in Requests : SF_vars(BodyEnds(r))
    /\ \A r \in Requests, e \in Endpoints : SF_vars(RoutedArrive(r, e))

-----------------------------------------------------------------------------
AtStages ==
    {"free", "gate", "await_body", "queued", "validate", "reserved", "action", "resource",
     "bearer", "authenticate", "producer", "compose", "evaluator", "announce", "kernel"} \cup Done

TypeOK ==
    /\ failed_write_count \in Nat
    /\ consecutive_failure_count \in Nat
    /\ degraded \in BOOLEAN
    /\ app \in ServedApps
    /\ sink \in {"up", "down"}
    /\ loop \in Requests \cup {Idle}
    /\ endpoint \in [Requests -> Endpoints]
    /\ at \in [Requests -> AtStages]
    /\ verdict \in [Requests -> {"none", "ALLOW", "DENY", "FAILED"}]
    /\ status \in [Requests -> {0, 200, 400, 401, 403, 500, 503}]
    /\ lateRuns \in Nat

\* Handlers yield only at request.body(): whoever is between two awaits holds
\* the loop, so at most one request is past its body and unanswered.
Yielding == {"free", "await_body", "queued"} \cup Done
LoopHeldByRunning == \A r \in Requests : at[r] \notin Yielding <=> loop = r

\* The audit events that leave the response open.
Preliminary == {"audit_recovery_probe", "oa_audit_recovery_probe", "evaluation_requested"}

\* The responses a request's last audit event is consistent with.
StatusesAfter(event) ==
    CASE event.action \in {"audit_recovery_probe", "oa_audit_recovery_probe",
                           "evaluator_unavailable", "oa_evaluator_unavailable"} -> {503}
      [] event.action \in {"validation_failed", "oa_validation_failed",
                           "oa_producer_mtls_trust_failed", "oa_composition_rejected"} -> {400}
      [] event.action \in {"authentication_failed", "oa_authentication_failed"} -> {401}
      [] event.action = "evaluation_failed_closed" -> {400, 500}
      [] event.action = "oa_evaluation_failed_closed" -> {500}
      [] event.action = "kernel_decision" -> IF event.outcome = "ALLOW" THEN {200} ELSE {403}
      [] event.action = "oa_authorization_completed" ->
            IF event.outcome = "ALLOW" THEN {200} ELSE {400, 403, 500, 503}
      [] event.action = "oa_evidence_missing" -> {200, 400, 403, 500, 503}
      [] OTHER -> {}

KernelRecords == {"kernel_decision", "oa_authorization_completed", "oa_evidence_missing"}

\* The trail t tells of verdict v and response code: one record says how the
\* request ended, it is the last one and agrees with the response, and it is one
\* of a kernel result iff the kernel was consulted.
Tells(t, v, code) ==
    LET last == t[Len(t)]
    IN  /\ t # <<>>
        /\ code \in StatusesAfter(last)
        /\ \A i \in 1..(Len(t) - 1) : t[i].action \in Preliminary
        /\ v # "none" <=> last.action \in KernelRecords
        /\ last.outcome = "ALLOW" => v = "ALLOW"

\* Every request a handler answers on a gateway with a writer has attempted its
\* audit records before the response, and they tell of it: whichever of the many
\* early returns it took, and whatever became of the writes.
TrailTellsResponse ==
    \A r \in Requests : at[r] = "answered" /\ app.writer =>
       Tells(trail[r], verdict[r], status[r])

\* Strict mode leaks only what was already admitted: while the writer is
\* degraded, the evaluations since it degraded and the requests that are still
\* past their strict-mode check are together no more than the request slots.
PastGate(r) == at[r] \notin {"free", "gate"} \cup Done
LateRunsBounded ==
    app.fail_closed /\ degraded =>
       lateRuns + Cardinality({r \in Requests : PastGate(r)}) <= Cardinality(Requests)

\* The gateway implements the enforcement promise, whatever the audit pipeline
\* does: refused, or decided by one evaluation, and 200 only on its ALLOW.
Enforced == INSTANCE Enforcement
    WITH phase <- [r \in Requests |->
                     IF at[r] = "free" THEN "idle"
                     ELSE IF at[r] \in Done THEN "answered" ELSE "working"]

ImplementsEnforcement == Enforced!Spec

\* README.md: "No evaluation proceeds until the audit pipeline recovers" in
\* strict mode.  The check is made before the body is awaited, and a request's
\* own EVALUATION_REQUESTED write comes after it.
NoEvaluationWhileDegraded == lateRuns = 0

\* README.md: AuditEvent records "are emitted for every outcome on both
\* endpoints, including pre-evaluation failures".  A certificate error the
\* producer stage does not list leaves none.
EveryOutcomeAudited ==
    \A r \in Requests : at[r] \in Done /\ app.writer => trail[r] # <<>>

-----------------------------------------------------------------------------
\* A request whose handler starts is answered, whatever the audit sink, the other
\* requests and their clients do: only its own client can hold it up, by neither
\* finishing the body nor hanging up.  No timeout ends that wait.
EveryRequestAnswered ==
    \A r \in Requests :
       \/ at[r] = "gate" ~> at[r] \in Done
       \/ <>[](at[r] = "await_body")

\* If the sink comes back for good and handlers keep answering, the writer does
\* not stay degraded: each answer, a strict-mode refusal included, takes at least
\* one write.  A handler that raises takes none (EveryOutcomeAudited), so requests
\* that all end that way would not recover it.
RecoversWithTraffic ==
    <>[](sink = "up") /\ []<>(\E r \in Requests : at[r] = "answered") /\ app.writer
       => []<>(~degraded)

\* docs/audit-failure-escalation.md: "Recovery is automatic and requires no
\* operator intervention".  Behind readiness-based routing nothing writes while
\* audit_writer is not ready, so nothing recovers it.
RecoversBehindRouting == <>[](sink = "up") => []<>(~degraded)
=============================================================================
