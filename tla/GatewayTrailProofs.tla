------------------------- MODULE GatewayTrailProofs -------------------------
(***************************************************************************)
(* The proof that the audit trail of every answered request tells of its   *)
(* response, for any number of request slots.  The invariant adds to       *)
(* TrailTellsResponse what holds before the response: only preliminary     *)
(* events are on the trail, and the kernel has not spoken.                 *)
(***************************************************************************)
EXTENDS GatewayProofs

EventActions ==
    Preliminary \cup KernelRecords
    \cup {"validation_failed", "authentication_failed", "evaluator_unavailable",
          "evaluation_failed_closed", "oa_validation_failed", "oa_authentication_failed",
          "oa_producer_mtls_trust_failed", "oa_composition_rejected",
          "oa_evaluation_failed_closed", "oa_evaluator_unavailable"}

Events == [action : EventActions, outcome : {"none", "ALLOW", "DENY"}]

AllPreliminary(t) == \A i \in 1..Len(t) : t[i].action \in Preliminary

\* A request that is not answered yet.
OpenInv ==
    \A r \in Requests : at[r] \notin Done =>
       verdict[r] = "none" /\ AllPreliminary(trail[r])

TrailInv ==
    /\ trail \in [Requests -> Seq(Events)]
    /\ OpenInv
    /\ TrailTellsResponse

-----------------------------------------------------------------------------
\* A closing event on top of preliminary ones tells of the response.
LEMMA AppendTells ==
  ASSUME NEW t \in Seq(Events), AllPreliminary(t), NEW event \in Events,
         NEW v, NEW code \in StatusesAfter(event),
         v # "none" <=> event.action \in KernelRecords,
         event.outcome = "ALLOW" => v = "ALLOW"
  PROVE  Tells(Append(t, event), v, code)
  <1> DEFINE u == Append(t, event)
  <1>1. Len(u) = Len(t) + 1 /\ u[Len(u)] = event /\ u # <<>>
    OBVIOUS
  <1>2. \A i \in 1..(Len(u) - 1) : u[i] = t[i]
    OBVIOUS
  <1>3. \A i \in 1..(Len(u) - 1) : u[i].action \in Preliminary
    BY <1>1, <1>2 DEF AllPreliminary
  <1>4. QED
    BY <1>1, <1>3 DEF Tells

LEMMA AppendPreliminary ==
  ASSUME NEW t \in Seq(Events), AllPreliminary(t), NEW event \in Events,
         event.action \in Preliminary
  PROVE  AllPreliminary(Append(t, event))
  BY DEF AllPreliminary

\* The statuses table, event by event.
LEMMA StatusTable ==
  /\ StatusesAfter(Event("validation_failed", "none")) = {400}
  /\ StatusesAfter(Event("authentication_failed", "none")) = {401}
  /\ StatusesAfter(Event("evaluator_unavailable", "none")) = {503}
  /\ StatusesAfter(Event("oa_validation_failed", "none")) = {400}
  /\ StatusesAfter(Event("oa_authentication_failed", "none")) = {401}
  /\ StatusesAfter(Event("oa_producer_mtls_trust_failed", "none")) = {400}
  /\ StatusesAfter(Event("oa_composition_rejected", "none")) = {400}
  /\ StatusesAfter(Event("oa_evaluation_failed_closed", "none")) = {500}
  /\ StatusesAfter(Event("oa_evaluator_unavailable", "none")) = {503}
  /\ StatusesAfter(Event("audit_recovery_probe", "none")) = {503}
  /\ StatusesAfter(Event("oa_audit_recovery_probe", "none")) = {503}
  /\ StatusesAfter(Event("evaluation_failed_closed", "none")) = {400, 500}
  /\ StatusesAfter(Event("kernel_decision", "ALLOW")) = {200}
  /\ StatusesAfter(Event("kernel_decision", "DENY")) = {403}
  /\ StatusesAfter(Event("oa_authorization_completed", "ALLOW")) = {200}
  /\ StatusesAfter(Event("oa_authorization_completed", "DENY")) = {400, 403, 500, 503}
  /\ StatusesAfter(Event("oa_evidence_missing", "none")) = {200, 400, 403, 500, 503}
  BY DEF StatusesAfter, Event

LEMMA EventTyped ==
  ASSUME NEW a \in EventActions, NEW o \in {"none", "ALLOW", "DENY"}
  PROVE  Event(a, o) \in Events /\ Event(a, o).action = a /\ Event(a, o).outcome = o
  BY DEF Event, Events

\* The event of every exit fits its status and is no kernel record.
LEMMA ExitTells ==
  ASSUME NEW r \in Requests, NEW x \in Exits(r)
  PROVE  /\ x.event \in Events
         /\ x.code \in StatusesAfter(x.event)
         /\ x.event.action \notin KernelRecords
         /\ x.event.outcome = "none"
  <1>1. \/ x = Exit("validation_failed", 400)
        \/ x = Exit("authentication_failed", 401)
        \/ x = Exit("evaluator_unavailable", 503)
        \/ x = Exit("evaluation_failed_closed", 400)
        \/ x = Exit("evaluation_failed_closed", 500)
        \/ x = Exit("oa_validation_failed", 400)
        \/ x = Exit("oa_authentication_failed", 401)
        \/ x = Exit("oa_producer_mtls_trust_failed", 400)
        \/ x = Exit("oa_composition_rejected", 400)
        \/ x = Exit("oa_evaluation_failed_closed", 500)
        \/ x = Exit("oa_evaluator_unavailable", 503)
    BY DEF Exits, EvaluateExits, OperationAwareExits, ValidateExits, ReservedExits,
           ActionExits, ResourceExits, BearerExits, AuthenticateExits, EvaluatorExits,
           DecisionRequestExits, EvaluationExceptionExits, OAValidateExits,
           OABearerExits, OAAuthenticateExits, OAProducerExits, OAComposeExits,
           OAEvaluatorExits, OADecisionRequestExits, OAEvaluationExceptionExits
  <1>2. QED
    <2>1. PICK a \in {"validation_failed", "authentication_failed", "evaluator_unavailable",
                      "evaluation_failed_closed", "oa_validation_failed",
                      "oa_authentication_failed", "oa_producer_mtls_trust_failed",
                      "oa_composition_rejected", "oa_evaluation_failed_closed",
                      "oa_evaluator_unavailable"} : x.event = Event(a, "none")
      BY <1>1 DEF Exit
    <2>2. x.event \in Events /\ x.event.action = a /\ x.event.outcome = "none"
      <3>1. a \in EventActions
        BY DEF EventActions
      <3>2. QED
        BY <2>1, <3>1, EventTyped
    <2>3. a \notin KernelRecords
      BY DEF KernelRecords
    <2>4. x.code \in StatusesAfter(x.event)
      BY <1>1, StatusTable DEF Exit
    <2>5. QED
      BY <2>2, <2>3, <2>4

\* What is recorded of an operation-aware result fits its status and verdict.
LEMMA RecordTells ==
  ASSUME NEW k \in KernelResults
  PROVE  /\ RecordOf(k) \in Events
         /\ classify_operation_aware_http_status(k) \in StatusesAfter(RecordOf(k))
         /\ RecordOf(k).action \in KernelRecords
         /\ RecordOf(k).outcome = "ALLOW" => VerdictOf(k) = "ALLOW"
  <1>1. CASE k.evidence
    <2>1. RecordOf(k) = Event("oa_authorization_completed", Disposition(k))
      BY <1>1 DEF RecordOf
    <2>2. Disposition(k) \in {"ALLOW", "DENY"}
      BY DEF Disposition
    <2>3. CASE k.outcome = "ALLOW"
      <3>1. k.evaluation_status = "completed"
        BY <2>3 DEF KernelResults
      <3>2. classify_operation_aware_http_status(k) = 200 /\ VerdictOf(k) = "ALLOW"
        BY <2>3, <3>1 DEF classify_operation_aware_http_status, CompletedStatus,
                          VerdictOf, Disposition
      <3>3. QED
        <4>1. RecordOf(k) = Event("oa_authorization_completed", "ALLOW")
          BY <2>1, <2>3 DEF Disposition
        <4>2. /\ RecordOf(k) \in Events
              /\ RecordOf(k).action = "oa_authorization_completed"
          BY <4>1, EventTyped DEF EventActions, KernelRecords
        <4>3. QED
          BY <3>2, <4>1, <4>2, StatusTable DEF KernelRecords
    <2>4. CASE k.outcome # "ALLOW"
      <3>1. classify_operation_aware_http_status(k) \in {400, 403, 500, 503}
        <4>1. classify_operation_aware_http_status(k) \in {200, 400, 403, 500, 503}
          BY ClassifyCodes
        <4>2. classify_operation_aware_http_status(k) # 200
          BY <2>4 DEF KernelResults, classify_operation_aware_http_status, CompletedStatus,
                      FAILURE_REASON_HTTP_STATUS, UNRECOGNIZED_STATE_HTTP_STATUS
        <4>3. QED
          BY <4>1, <4>2
      <3>2. QED
        <4>1. RecordOf(k) = Event("oa_authorization_completed", "DENY")
          BY <2>1, <2>4 DEF Disposition
        <4>2. /\ RecordOf(k) \in Events
              /\ RecordOf(k).action = "oa_authorization_completed"
              /\ RecordOf(k).outcome = "DENY"
          BY <4>1, EventTyped DEF EventActions, KernelRecords
        <4>3. QED
          BY <3>1, <4>1, <4>2, StatusTable DEF KernelRecords
    <2>5. QED
      BY <2>3, <2>4
  <1>2. CASE ~k.evidence
    <2>1. RecordOf(k) = Event("oa_evidence_missing", "none")
      BY <1>2 DEF RecordOf
    <2>2. QED
      <3>1. /\ RecordOf(k) \in Events
            /\ RecordOf(k).action = "oa_evidence_missing"
            /\ RecordOf(k).outcome = "none"
        BY <2>1, EventTyped DEF EventActions, KernelRecords
      <3>2. QED
        BY <2>1, <3>1, ClassifyCodes, StatusTable DEF KernelRecords
  <1>3. QED
    BY <1>1, <1>2

-----------------------------------------------------------------------------
\* An emission extends the trail of its own request, and only with a writer.
LEMMA EmitTrail ==
  ASSUME TrailInv, NEW r \in Requests, NEW event \in Events, emit(r, event)
  PROVE  /\ trail' \in [Requests -> Seq(Events)]
         /\ \A q \in Requests \ {r} : trail'[q] = trail[q]
         /\ app.writer => trail'[r] = Append(trail[r], event)
         /\ ~app.writer => trail'[r] = trail[r]
  <1>1. trail \in [Requests -> Seq(Events)]
    BY DEF TrailInv
  <1>2. CASE app.writer
    <2>1. trail' = [trail EXCEPT ![r] = Append(@, event)]
      BY <1>2 DEF emit
    <2>2. Append(trail[r], event) \in Seq(Events)
      BY <1>1
    <2>3. QED
      BY <1>1, <1>2, <2>1, <2>2
  <1>3. CASE ~app.writer
    BY <1>1, <1>3 DEF emit
  <1>4. QED
    BY <1>2, <1>3

\* A step that closes request r with event.
LEMMA CloseTrail ==
  ASSUME TrailInv, SlotsInv, NEW r \in Requests, at[r] \notin Done,
         NEW event \in Events, emit(r, event), NEW v, NEW code \in StatusesAfter(event),
         v # "none" <=> event.action \in KernelRecords,
         event.outcome = "ALLOW" => v = "ALLOW",
         Answer(r, code), app' = app,
         verdict' \in [Requests -> {"none", "ALLOW", "DENY", "FAILED"}], verdict'[r] = v,
         \A q \in Requests \ {r} : verdict'[q] = verdict[q]
  PROVE  TrailInv'
  <1>1. at' = [at EXCEPT ![r] = "answered"] /\ status' = [status EXCEPT ![r] = code]
    BY DEF Answer
  <1>2. /\ at'[r] = "answered" /\ status'[r] = code
        /\ \A q \in Requests \ {r} : at'[q] = at[q] /\ status'[q] = status[q]
    BY <1>1 DEF SlotsInv
  <1>3. /\ trail' \in [Requests -> Seq(Events)]
        /\ \A q \in Requests \ {r} : trail'[q] = trail[q]
        /\ app.writer => trail'[r] = Append(trail[r], event)
    BY EmitTrail
  <1>4. trail[r] \in Seq(Events) /\ AllPreliminary(trail[r])
    BY DEF TrailInv, OpenInv
  <1>5. OpenInv'
    BY <1>2, <1>3 DEF TrailInv, OpenInv, AllPreliminary, Done
  <1>6. app.writer => Tells(trail'[r], v, code)
    <2>1. Tells(Append(trail[r], event), v, code)
      BY <1>4, AppendTells
    <2>2. QED
      BY <1>3, <2>1
  <1>7. TrailTellsResponse'
    <2> SUFFICES ASSUME NEW q \in Requests, at'[q] = "answered", app.writer
                 PROVE  Tells(trail'[q], verdict'[q], status'[q])
      BY DEF TrailTellsResponse
    <2>1. CASE q = r
      BY <1>2, <1>6, <2>1
    <2>2. CASE q # r
      <3>1. at[q] = "answered" /\ trail'[q] = trail[q] /\ status'[q] = status[q]
            /\ verdict'[q] = verdict[q]
        BY <1>2, <1>3, <2>2
      <3>2. Tells(trail[q], verdict[q], status[q])
        BY <3>1 DEF TrailInv, TrailTellsResponse
      <3>3. QED
        BY <3>1, <3>2
    <2>3. QED
      BY <2>1, <2>2
  <1>8. QED
    BY <1>3, <1>5, <1>7 DEF TrailInv

\* A step that leaves request r open, with or without a preliminary event.
LEMMA KeepTrail ==
  ASSUME TrailInv, SlotsInv, NEW r \in Requests, at[r] \notin Done,
         NEW stage, stage \notin Done, at' = [at EXCEPT ![r] = stage],
         \/ trail' = trail
         \/ \E event \in Events : event.action \in Preliminary /\ emit(r, event),
         app' = app, verdict' = verdict, status' = status
  PROVE  TrailInv'
  <1>1. at'[r] = stage /\ \A q \in Requests \ {r} : at'[q] = at[q]
    BY DEF SlotsInv
  <1>2. trail[r] \in Seq(Events) /\ AllPreliminary(trail[r]) /\ verdict[r] = "none"
    BY DEF TrailInv, OpenInv
  <1>3. /\ trail' \in [Requests -> Seq(Events)]
        /\ \A q \in Requests \ {r} : trail'[q] = trail[q]
        /\ AllPreliminary(trail'[r])
    <2>1. CASE trail' = trail
      BY <1>2, <2>1 DEF TrailInv
    <2>2. ASSUME NEW event \in Events, event.action \in Preliminary, emit(r, event)
          PROVE  <1>3!1 /\ <1>3!2 /\ <1>3!3
      BY <1>2, <2>2, EmitTrail, AppendPreliminary
    <2>3. QED
      BY <2>1, <2>2
  <1>4. OpenInv'
    BY <1>1, <1>2, <1>3 DEF TrailInv, OpenInv, AllPreliminary
  <1>5. TrailTellsResponse'
    <2> SUFFICES ASSUME NEW q \in Requests, at'[q] = "answered", app.writer
                 PROVE  Tells(trail'[q], verdict'[q], status'[q])
      BY DEF TrailTellsResponse
    <2>1. q # r
      BY <1>1 DEF Done
    <2>2. at[q] = "answered" /\ trail'[q] = trail[q]
      BY <1>1, <1>3, <2>1
    <2>3. Tells(trail[q], verdict[q], status[q])
      BY <2>2 DEF TrailInv, TrailTellsResponse
    <2>4. QED
      BY <2>2, <2>3
  <1>6. QED
    BY <1>3, <1>4, <1>5 DEF TrailInv

LEMMA GateTrail ==
  ASSUME TrailInv, SlotsInv, NEW r \in Requests, Gate(r)
  PROVE  TrailInv'
  <1>1. at[r] = "gate" /\ app' = app /\ verdict' = verdict
    BY DEF Gate
  <1>2. at[r] \notin Done /\ "await_body" \notin Done
    BY <1>1 DEF Done
  <1>3. PICK a \in {"audit_recovery_probe", "oa_audit_recovery_probe"} :
           ProbeEvent(r) = Event(a, "none")
    BY DEF ProbeEvent
  <1>4. /\ ProbeEvent(r) \in Events /\ ProbeEvent(r).action = a
        /\ ProbeEvent(r).outcome = "none"
    BY <1>3, EventTyped DEF EventActions, Preliminary
  <1>5. a \in Preliminary /\ a \notin KernelRecords
    BY DEF Preliminary, KernelRecords
  <1>6. CASE Answer(r, 503)
    <2>1. emit(r, ProbeEvent(r))
      BY <1>1, <1>6 DEF Gate, Answer, AwaitBody, SlotsInv
    <2>2. 503 \in StatusesAfter(ProbeEvent(r))
      BY <1>3, StatusTable
    <2>3. verdict[r] = "none" /\ verdict \in [Requests -> {"none", "ALLOW", "DENY", "FAILED"}]
      BY <1>2 DEF TrailInv, OpenInv, SlotsInv
    <2>4. QED
      BY <1>1, <1>2, <1>4, <1>5, <1>6, <2>1, <2>2, <2>3, CloseTrail
  <1>7. CASE AwaitBody(r)
    <2>1. at' = [at EXCEPT ![r] = "await_body"] /\ status' = status
      BY <1>7 DEF AwaitBody
    <2>2. emit(r, ProbeEvent(r)) \/ trail' = trail
      BY DEF Gate
    <2>3. QED
      BY <1>1, <1>2, <1>4, <1>5, <2>1, <2>2, KeepTrail
  <1>8. QED
    BY <1>6, <1>7 DEF Gate

LEMMA RefuseTrail ==
  ASSUME TrailInv, SlotsInv, NEW r \in Requests, Refuse(r)
  PROVE  TrailInv'
  <1>1. PICK x \in Exits(r) : emit(r, x.event) /\ Answer(r, x.code)
    BY DEF Refuse
  <1>2. /\ x.event \in Events /\ x.code \in StatusesAfter(x.event)
        /\ x.event.action \notin KernelRecords /\ x.event.outcome = "none"
    BY ExitTells
  <1>3. at[r] \notin Done /\ app' = app /\ verdict' = verdict
    BY DEF Refuse, SlotsInv, LoopHeldByRunning, Yielding
  <1>4. verdict[r] = "none" /\ verdict \in [Requests -> {"none", "ALLOW", "DENY", "FAILED"}]
    BY <1>3 DEF TrailInv, OpenInv, SlotsInv
  <1>5. QED
    BY <1>1, <1>2, <1>3, <1>4, CloseTrail

LEMMA KernelTrail ==
  ASSUME TrailInv, SlotsInv, NEW r \in Requests, KernelRuns(r)
  PROVE  TrailInv'
  <1>1. at[r] \notin Done /\ app' = app
    BY DEF KernelRuns, EvaluateDecides, OperationAwareDecides, Done
  <1>2. ASSUME NEW outcome \in {"ALLOW", "DENY"}, EvaluateDecides(r, outcome)
        PROVE  TrailInv'
    <2> DEFINE event == Event("kernel_decision", outcome)
    <2>1. /\ emit(r, event) /\ Answer(r, EvaluateStatus(outcome))
          /\ verdict' = [verdict EXCEPT ![r] = outcome]
      BY <1>2 DEF EvaluateDecides
    <2>2. /\ event \in Events /\ event.action \in KernelRecords /\ event.outcome = outcome
      BY EventTyped DEF EventActions, KernelRecords
    <2>3. EvaluateStatus(outcome) \in StatusesAfter(event)
      BY StatusTable DEF EvaluateStatus
    <2>4. /\ verdict' \in [Requests -> {"none", "ALLOW", "DENY", "FAILED"}]
          /\ verdict'[r] = outcome /\ outcome # "none"
          /\ \A q \in Requests \ {r} : verdict'[q] = verdict[q]
      BY <2>1 DEF SlotsInv
    <2>5. QED
      <3> HIDE DEF event
      <3> QED BY <1>1, <2>1, <2>2, <2>3, <2>4, CloseTrail
  <1>3. ASSUME NEW k \in KernelResults, OperationAwareDecides(r, k)
        PROVE  TrailInv'
    <2>1. /\ emit(r, RecordOf(k)) /\ Answer(r, classify_operation_aware_http_status(k))
          /\ verdict' = [verdict EXCEPT ![r] = VerdictOf(k)]
      BY <1>3 DEF OperationAwareDecides
    <2>2. /\ verdict' \in [Requests -> {"none", "ALLOW", "DENY", "FAILED"}]
          /\ verdict'[r] = VerdictOf(k) /\ VerdictOf(k) # "none"
          /\ \A q \in Requests \ {r} : verdict'[q] = verdict[q]
      BY <2>1, ClassifyCodes DEF SlotsInv
    <2>3. QED
      BY <1>1, <2>1, <2>2, RecordTells, CloseTrail
  <1>4. QED
    BY <1>2, <1>3 DEF KernelRuns

\* The steps that neither emit nor answer, and the announcement.
LEMMA OpenTrail ==
  ASSUME TrailInv, SlotsInv, NEW r \in Requests,
         \/ \E e \in Endpoints : Arrive(r, e)
         \/ BodyEnds(r) \/ Resume(r) \/ Pass(r) \/ Announce(r)
  PROVE  TrailInv'
  <1>1. CASE \E e \in Endpoints : Arrive(r, e)
    <2>1. at[r] \notin Done /\ "gate" \notin Done
      BY <1>1 DEF Arrive, Done
    <2>2. QED
      BY <1>1, <2>1, KeepTrail DEF Arrive
  <1>2. CASE Resume(r)
    <2>1. at[r] \notin Done /\ "validate" \notin Done
      BY <1>2 DEF Resume, Done
    <2>2. at' = [at EXCEPT ![r] = "validate"]
      <3>1. Stages(endpoint[r])[1] = "validate"
        BY FirstStage DEF SlotsInv
      <3>2. QED
        BY <1>2, <3>1 DEF Resume
    <2>3. QED
      BY <1>2, <2>1, <2>2, KeepTrail DEF Resume
  <1>3. CASE Pass(r)
    <2>1. loop = r /\ at[r] \in Passable
      BY <1>3 DEF Pass, MayPass, Passable
    <2>2. at[r] \in StagesOf(endpoint[r])
      BY <2>1 DEF SlotsInv, StageOfEndpoint, LoopHeldByRunning, Passable
    <2>3. After(endpoint[r], at[r]) \in StagesOf(endpoint[r])
      BY <2>1, <2>2, AfterStage DEF SlotsInv
    <2>4. at[r] \notin Done /\ After(endpoint[r], at[r]) \notin Done
      BY <2>2, <2>3 DEF StagesOf, Done
    <2>5. QED
      BY <1>3, <2>4, KeepTrail DEF Pass
  <1>4. CASE Announce(r)
    <2> DEFINE event == Event("evaluation_requested", "none")
    <2>1. at[r] \notin Done /\ "kernel" \notin Done
      BY <1>4 DEF Announce, Done
    <2>2. event \in Events /\ event.action \in Preliminary
      BY EventTyped DEF EventActions, Preliminary
    <2>3. /\ emit(r, event) /\ at' = [at EXCEPT ![r] = "kernel"]
          /\ app' = app /\ verdict' = verdict /\ status' = status
      BY <1>4 DEF Announce
    <2>4. QED
      <3> HIDE DEF event
      <3> QED BY <2>1, <2>2, <2>3, KeepTrail
  <1>5. CASE BodyEnds(r)
    <2>1. at[r] \notin Done /\ "queued" \notin Done
      BY <1>5 DEF BodyEnds, Done
    <2>2. QED
      BY <1>5, <2>1, KeepTrail DEF BodyEnds
  <1>6. QED
    BY <1>1, <1>2, <1>3, <1>4, <1>5

\* The steps that end a request without an event, or forget it.
LEMMA EndTrail ==
  ASSUME TrailInv, SlotsInv, NEW r \in Requests, ProducerRaises(r) \/ Release(r)
  PROVE  TrailInv'
  <1>1. /\ \A q \in Requests \ {r} : /\ at'[q] = at[q] /\ trail'[q] = trail[q]
                                     /\ verdict'[q] = verdict[q] /\ status'[q] = status[q]
        /\ at'[r] = "raised" \/ (at'[r] = "free" /\ verdict'[r] = "none" /\ trail'[r] = <<>>)
        /\ trail' \in [Requests -> Seq(Events)]
        /\ app' = app
    <2>1. CASE ProducerRaises(r)
      BY <2>1 DEF ProducerRaises, TrailInv, SlotsInv
    <2>2. CASE Release(r)
      <3>1. <<>> \in Seq(Events) /\ trail \in [Requests -> Seq(Events)]
        BY DEF TrailInv
      <3>2. trail' = [trail EXCEPT ![r] = <<>>]
        BY <2>2 DEF Release
      <3>3. QED
        BY <2>2, <3>1, <3>2 DEF Release, SlotsInv
    <2>3. QED
      BY <2>1, <2>2
  <1>2. OpenInv'
    <2>1. AllPreliminary(<<>>)
      BY DEF AllPreliminary
    <2>2. QED
      BY <1>1, <2>1 DEF TrailInv, OpenInv, AllPreliminary, Done
  <1>3. TrailTellsResponse'
    <2> SUFFICES ASSUME NEW q \in Requests, at'[q] = "answered", app.writer
                 PROVE  Tells(trail'[q], verdict'[q], status'[q])
      BY <1>1 DEF TrailTellsResponse
    <2>1. q # r
      BY <1>1
    <2>2. at[q] = "answered" /\ Tells(trail[q], verdict[q], status[q])
      BY <1>1, <2>1 DEF TrailInv, TrailTellsResponse
    <2>3. QED
      BY <1>1, <2>1, <2>2
  <1>4. QED
    BY <1>1, <1>2, <1>3 DEF TrailInv

\* Every request a handler answers, on a gateway with a writer, has attempted
\* the audit records that tell of its response.
THEOREM TrailTells == Spec => []TrailTellsResponse
  <1>1. Init => TrailInv
    BY DEF Init, TrailInv, OpenInv, AllPreliminary, TrailTellsResponse, Done
  <1>2. IInv /\ TrailInv /\ [Next]_vars => TrailInv'
    <2> SUFFICES ASSUME SlotsInv, TrailInv, [Next]_vars PROVE TrailInv'
      BY DEF IInv
    <2>1. CASE SinkChanges \/ UNCHANGED vars
      BY <2>1 DEF SinkChanges, vars, requestVars, TrailInv, OpenInv, TrailTellsResponse
    <2>2. QED
      BY <2>1, GateTrail, RefuseTrail, KernelTrail, OpenTrail, EndTrail DEF Next
  <1>3. TrailInv => TrailTellsResponse
    BY DEF TrailInv
  <1>4. QED
    BY <1>1, <1>2, <1>3, GatewayInvariant, PTL DEF Spec
=============================================================================
