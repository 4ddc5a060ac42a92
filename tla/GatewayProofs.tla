--------------------------- MODULE GatewayProofs ---------------------------
(***************************************************************************)
(* Proofs about the evaluation endpoints, for any number of request slots, *)
(* any threshold and any set of servable application states.               *)
(***************************************************************************)
EXTENDS Gateway, FiniteSetTheorems, TLAPS

\* The stages a handler of endpoint e can be at between its await and its
\* response, and the ones among them it may pass.
StagesOf(e) ==
    IF e = "evaluate"
    THEN {"validate", "reserved", "action", "resource", "bearer", "authenticate",
          "evaluator", "announce", "kernel"}
    ELSE {"validate", "bearer", "authenticate", "producer", "compose", "evaluator",
          "kernel"}

Passable == {"validate", "reserved", "action", "resource", "bearer", "authenticate",
             "producer", "compose", "evaluator"}

\* A slot is at a stage of its own endpoint.
StageOfEndpoint ==
    \A r \in Requests : at[r] \in Yielding \cup {"gate"} \cup StagesOf(endpoint[r])

-----------------------------------------------------------------------------
\* A stage that is passed leads to another stage of the same endpoint.
LEMMA AfterStage ==
  ASSUME NEW e \in Endpoints, NEW s \in StagesOf(e) \cap Passable
  PROVE  After(e, s) \in StagesOf(e)
  <1>1. CASE e = "evaluate"
    <2> DEFINE S == Stages(e)
               i == CHOOSE j \in DOMAIN S : S[j] = s
    <2>1. DOMAIN S = 1..9
      BY <1>1 DEF Stages
    <2>2. \E j \in 1..7 : S[j] = s
      BY <1>1 DEF Stages, StagesOf, Passable
    <2>3. i \in 1..9 /\ S[i] = s
      BY <2>1, <2>2
    <2>4. i \in 1..8
      BY <1>1, <2>3 DEF Stages, Passable
    <2>5. \A j \in 2..9 : S[j] \in StagesOf(e)
      BY <1>1 DEF Stages, StagesOf
    <2>6. S[1 + i] \in StagesOf(e)
      <3> HIDE DEF S, i
      <3> QED BY <2>4, <2>5
    <2>7. QED
      BY <2>6 DEF After
  <1>2. CASE e = "operation_aware"
    <2> DEFINE S == Stages(e)
               i == CHOOSE j \in DOMAIN S : S[j] = s
    <2>1. DOMAIN S = 1..7
      BY <1>2 DEF Stages
    <2>2. \E j \in 1..6 : S[j] = s
      BY <1>2 DEF Stages, StagesOf, Passable
    <2>3. i \in 1..7 /\ S[i] = s
      BY <2>1, <2>2
    <2>4. i \in 1..6
      BY <1>2, <2>3 DEF Stages, Passable
    <2>5. \A j \in 2..7 : S[j] \in StagesOf(e)
      BY <1>2 DEF Stages, StagesOf
    <2>6. S[1 + i] \in StagesOf(e)
      <3> HIDE DEF S, i
      <3> QED BY <2>4, <2>5
    <2>7. QED
      BY <2>6 DEF After
  <1>3. QED
    BY <1>1, <1>2 DEF Endpoints

\* The body is followed by validation on both endpoints.
LEMMA FirstStage ==
  ASSUME NEW e \in Endpoints
  PROVE  Stages(e)[1] = "validate"
  BY DEF Stages, Endpoints

-----------------------------------------------------------------------------
(* What an audit emission may do to the writer.                            *)

\* The part of the invariant that only audit emission can disturb.
WriterInv ==
    /\ failed_write_count \in Nat
    /\ consecutive_failure_count \in Nat
    /\ degraded \in BOOLEAN
    /\ degraded => app.writer

LEMMA EmitWriterInv ==
  ASSUME WriterInv, NEW r, NEW event, emit(r, event), app' = app
  PROVE  WriterInv'
  <1>1. CASE app.writer /\ sink = "up"
    <2>1. SuccessfulWrite
      BY <1>1 DEF emit, write
    <2>2. QED
      BY <1>1, <2>1 DEF SuccessfulWrite, WriterInv
  <1>2. CASE app.writer /\ sink # "up"
    <2>1. FailedWrite
      BY <1>2 DEF emit, write
    <2>2. degraded' \in BOOLEAN
      BY <2>1 DEF FailedWrite
    <2>3. failed_write_count' \in Nat /\ consecutive_failure_count' \in Nat
      BY <2>1 DEF FailedWrite, WriterInv
    <2>4. QED
      BY <1>2, <2>2, <2>3 DEF WriterInv
  <1>3. CASE ~app.writer
    BY <1>3 DEF WriterInv, emit, writerVars
  <1>4. QED
    BY <1>1, <1>2, <1>3

-----------------------------------------------------------------------------
(* Exclusion on the event loop.                                            *)

\* What the request slots and the loop look like, apart from the writer.
SlotsInv ==
    /\ app \in ServedApps
    /\ sink \in {"up", "down"}
    /\ loop \in Requests \cup {Idle}
    /\ endpoint \in [Requests -> Endpoints]
    /\ at \in [Requests -> AtStages]
    /\ verdict \in [Requests -> {"none", "ALLOW", "DENY", "FAILED"}]
    /\ status \in [Requests -> {0, 200, 400, 401, 403, 500, 503}]
    /\ StageOfEndpoint
    /\ LoopHeldByRunning

\* Every exit answers one of the refusal codes.
RefusalCodes == {400, 401, 500, 503}

LEMMA ExitCodes ==
  ASSUME NEW r \in Requests, NEW x \in Exits(r)
  PROVE  x.code \in RefusalCodes
  BY DEF RefusalCodes, Exits, EvaluateExits, OperationAwareExits, Exit, ValidateExits,
         ReservedExits, ActionExits, ResourceExits, BearerExits, AuthenticateExits, EvaluatorExits,
         DecisionRequestExits, EvaluationExceptionExits, OAValidateExits, OABearerExits,
         OAAuthenticateExits, OAProducerExits, OAComposeExits, OAEvaluatorExits,
         OADecisionRequestExits, OAEvaluationExceptionExits

\* A kernel result is answered with one of the known codes.
LEMMA ClassifyCodes ==
  ASSUME NEW k \in KernelResults
  PROVE  /\ classify_operation_aware_http_status(k) \in {200, 400, 403, 500, 503}
         /\ VerdictOf(k) \in {"ALLOW", "DENY", "FAILED"}
  <1>1. CASE k.evaluation_status = "completed"
    BY <1>1 DEF KernelResults, classify_operation_aware_http_status, CompletedStatus,
                VerdictOf, Disposition
  <1>2. CASE k.evaluation_status = "failed"
    <2>1. VerdictOf(k) = "FAILED"
      BY <1>2 DEF VerdictOf
    <2>2. CASE k.failure_reason \in DOMAIN FAILURE_REASON_HTTP_STATUS
      BY <1>2, <2>1, <2>2 DEF classify_operation_aware_http_status,
                              FAILURE_REASON_HTTP_STATUS
    <2>3. CASE k.failure_reason \notin DOMAIN FAILURE_REASON_HTTP_STATUS
      BY <1>2, <2>1, <2>3 DEF classify_operation_aware_http_status,
                              UNRECOGNIZED_STATE_HTTP_STATUS
    <2>4. QED
      BY <2>2, <2>3
  <1>3. QED
    BY <1>1, <1>2 DEF KernelResults

\* Answering frees the loop and leaves the other slots alone.
LEMMA AnswerSlots ==
  ASSUME SlotsInv, NEW r \in Requests, NEW code \in {200, 400, 401, 403, 500, 503},
         loop = r, Answer(r, code),
         app' = app, sink' = sink, endpoint' = endpoint,
         verdict' \in [Requests -> {"none", "ALLOW", "DENY", "FAILED"}]
  PROVE  SlotsInv'
  <1>1. /\ at' = [at EXCEPT ![r] = "answered"]
        /\ status' = [status EXCEPT ![r] = code]
        /\ loop' = Idle
    BY DEF Answer
  <1>2. at' \in [Requests -> AtStages]
    BY <1>1 DEF SlotsInv, AtStages, Done
  <1>3. StageOfEndpoint'
    BY <1>1 DEF SlotsInv, StageOfEndpoint, Yielding, Done
  <1>4. LoopHeldByRunning'
    BY <1>1, GatewayAssumption DEF SlotsInv, LoopHeldByRunning, Yielding, Done
  <1>5. QED
    BY <1>1, <1>2, <1>3, <1>4 DEF SlotsInv

\* The steps of a handler, one by one.
LEMMA ArriveSlots ==
  ASSUME SlotsInv, NEW r \in Requests, NEW e \in Endpoints, Arrive(r, e)
  PROVE  SlotsInv'
  <1>1. /\ at[r] = "free" /\ loop = Idle /\ loop' = r
        /\ at' = [at EXCEPT ![r] = "gate"]
        /\ endpoint' = [endpoint EXCEPT ![r] = e]
        /\ app' = app /\ sink' = sink /\ verdict' = verdict /\ status' = status
    BY DEF Arrive
  <1>2. at' \in [Requests -> AtStages]
    BY <1>1 DEF SlotsInv, AtStages
  <1>3. StageOfEndpoint'
    BY <1>1 DEF SlotsInv, StageOfEndpoint
  <1>4. LoopHeldByRunning'
    BY <1>1, GatewayAssumption DEF SlotsInv, LoopHeldByRunning, Yielding, Done
  <1>5. QED
    BY <1>1, <1>2, <1>3, <1>4 DEF SlotsInv

LEMMA GateSlots ==
  ASSUME SlotsInv, NEW r \in Requests, Gate(r)
  PROVE  SlotsInv'
  <1>1. /\ loop = r /\ at[r] = "gate"
        /\ app' = app /\ sink' = sink /\ endpoint' = endpoint /\ verdict' = verdict
        /\ Answer(r, 503) \/ AwaitBody(r)
    BY DEF Gate
  <1>2. CASE Answer(r, 503)
    BY <1>1, <1>2, AnswerSlots DEF SlotsInv
  <1>3. CASE AwaitBody(r)
    <2>1. at' = [at EXCEPT ![r] = "await_body"] /\ loop' = Idle /\ status' = status
      BY <1>3 DEF AwaitBody
    <2>2. at' \in [Requests -> AtStages]
      BY <2>1 DEF SlotsInv, AtStages
    <2>3. StageOfEndpoint'
      BY <1>1, <2>1 DEF SlotsInv, StageOfEndpoint, Yielding
    <2>4. LoopHeldByRunning'
      BY <1>1, <2>1, GatewayAssumption DEF SlotsInv, LoopHeldByRunning, Yielding, Done
    <2>5. QED
      BY <1>1, <2>1, <2>2, <2>3, <2>4 DEF SlotsInv
  <1>4. QED
    BY <1>1, <1>2, <1>3

LEMMA BodyEndsSlots ==
  ASSUME SlotsInv, NEW r \in Requests, BodyEnds(r)
  PROVE  SlotsInv'
  <1>1. /\ at[r] = "await_body" /\ loop = Idle /\ loop' = loop
        /\ at' = [at EXCEPT ![r] = "queued"]
        /\ app' = app /\ sink' = sink /\ endpoint' = endpoint
        /\ verdict' = verdict /\ status' = status
    BY DEF BodyEnds
  <1>2. at' \in [Requests -> AtStages]
    BY <1>1 DEF SlotsInv, AtStages
  <1>3. StageOfEndpoint'
    BY <1>1 DEF SlotsInv, StageOfEndpoint, Yielding
  <1>4. LoopHeldByRunning'
    BY <1>1, GatewayAssumption DEF SlotsInv, LoopHeldByRunning, Yielding, Done
  <1>5. QED
    BY <1>1, <1>2, <1>3, <1>4 DEF SlotsInv

LEMMA ResumeSlots ==
  ASSUME SlotsInv, NEW r \in Requests, Resume(r)
  PROVE  SlotsInv'
  <1>1. /\ at[r] = "queued" /\ loop = Idle /\ loop' = r
        /\ at' = [at EXCEPT ![r] = "validate"]
        /\ app' = app /\ sink' = sink /\ endpoint' = endpoint
        /\ verdict' = verdict /\ status' = status
    <2>1. Stages(endpoint[r])[1] = "validate"
      BY FirstStage DEF SlotsInv
    <2>2. QED
      BY <2>1 DEF Resume
  <1>2. at' \in [Requests -> AtStages]
    BY <1>1 DEF SlotsInv, AtStages
  <1>3. StageOfEndpoint'
    BY <1>1 DEF SlotsInv, StageOfEndpoint, StagesOf
  <1>4. LoopHeldByRunning'
    BY <1>1, GatewayAssumption DEF SlotsInv, LoopHeldByRunning, Yielding, Done
  <1>5. QED
    BY <1>1, <1>2, <1>3, <1>4 DEF SlotsInv

\* Going from one stage of its endpoint to another keeps the loop held.
LEMMA StageSlots ==
  ASSUME SlotsInv, NEW r \in Requests, NEW s \in StagesOf(endpoint[r]), loop = r,
         at' = [at EXCEPT ![r] = s],
         app' = app, sink' = sink, loop' = loop, endpoint' = endpoint,
         verdict' = verdict, status' = status
  PROVE  SlotsInv'
  <1>1. s \in AtStages /\ s \notin Yielding
    BY DEF StagesOf, AtStages, Yielding, Done
  <1>2. at' \in [Requests -> AtStages]
    BY <1>1 DEF SlotsInv
  <1>3. StageOfEndpoint'
    BY DEF SlotsInv, StageOfEndpoint
  <1>4. LoopHeldByRunning'
    BY <1>1 DEF SlotsInv, LoopHeldByRunning
  <1>5. QED
    BY <1>2, <1>3, <1>4 DEF SlotsInv

LEMMA PassSlots ==
  ASSUME SlotsInv, NEW r \in Requests, Pass(r)
  PROVE  SlotsInv'
  <1>1. loop = r /\ at[r] \in Passable
    BY DEF Pass, MayPass, Passable
  <1>2. at[r] \in StagesOf(endpoint[r])
    BY <1>1 DEF SlotsInv, StageOfEndpoint, LoopHeldByRunning, Passable
  <1>3. After(endpoint[r], at[r]) \in StagesOf(endpoint[r])
    BY <1>1, <1>2, AfterStage DEF SlotsInv
  <1>4. QED
    BY <1>1, <1>3, StageSlots DEF Pass

LEMMA RefuseSlots ==
  ASSUME SlotsInv, NEW r \in Requests, Refuse(r)
  PROVE  SlotsInv'
  <1>1. PICK x \in Exits(r) : Answer(r, x.code)
    BY DEF Refuse
  <1>2. x.code \in {400, 401, 500, 503}
    BY ExitCodes DEF RefusalCodes
  <1>3. QED
    BY <1>1, <1>2, AnswerSlots DEF Refuse, SlotsInv

LEMMA ProducerRaisesSlots ==
  ASSUME SlotsInv, NEW r \in Requests, ProducerRaises(r)
  PROVE  SlotsInv'
  <1>1. /\ loop = r /\ loop' = Idle
        /\ at' = [at EXCEPT ![r] = "raised"]
        /\ status' = [status EXCEPT ![r] = 500]
        /\ app' = app /\ sink' = sink /\ endpoint' = endpoint /\ verdict' = verdict
    BY DEF ProducerRaises
  <1>2. at' \in [Requests -> AtStages]
    BY <1>1 DEF SlotsInv, AtStages, Done
  <1>3. StageOfEndpoint'
    BY <1>1 DEF SlotsInv, StageOfEndpoint, Yielding, Done
  <1>4. LoopHeldByRunning'
    BY <1>1, GatewayAssumption DEF SlotsInv, LoopHeldByRunning, Yielding, Done
  <1>5. QED
    BY <1>1, <1>2, <1>3, <1>4 DEF SlotsInv

LEMMA AnnounceSlots ==
  ASSUME SlotsInv, NEW r \in Requests, Announce(r)
  PROVE  SlotsInv'
  <1>1. "kernel" \in StagesOf(endpoint[r])
    BY DEF StagesOf
  <1>2. QED
    BY <1>1, StageSlots DEF Announce

LEMMA KernelSlots ==
  ASSUME SlotsInv, NEW r \in Requests, KernelRuns(r)
  PROVE  SlotsInv'
  <1>1. ASSUME NEW outcome \in {"ALLOW", "DENY"}, EvaluateDecides(r, outcome)
        PROVE  SlotsInv'
    <2>1. EvaluateStatus(outcome) \in {200, 403}
      BY DEF EvaluateStatus
    <2>2. verdict' \in [Requests -> {"none", "ALLOW", "DENY", "FAILED"}]
      BY <1>1 DEF EvaluateDecides, SlotsInv
    <2>3. QED
      BY <1>1, <2>1, <2>2, AnswerSlots DEF EvaluateDecides
  <1>2. ASSUME NEW k \in KernelResults, OperationAwareDecides(r, k)
        PROVE  SlotsInv'
    <2>1. verdict' \in [Requests -> {"none", "ALLOW", "DENY", "FAILED"}]
      BY <1>2, ClassifyCodes DEF OperationAwareDecides, SlotsInv
    <2>2. QED
      BY <1>2, <2>1, ClassifyCodes, AnswerSlots DEF OperationAwareDecides
  <1>3. QED
    BY <1>1, <1>2 DEF KernelRuns

LEMMA ReleaseSlots ==
  ASSUME SlotsInv, NEW r \in Requests, Release(r)
  PROVE  SlotsInv'
  <1>1. /\ at[r] \in Done /\ loop' = loop
        /\ at' = [at EXCEPT ![r] = "free"]
        /\ endpoint' = [endpoint EXCEPT ![r] = "evaluate"]
        /\ verdict' = [verdict EXCEPT ![r] = "none"]
        /\ status' = [status EXCEPT ![r] = 0]
        /\ app' = app /\ sink' = sink
    BY DEF Release
  <1>2. at' \in [Requests -> AtStages]
    BY <1>1 DEF SlotsInv, AtStages
  <1>3. endpoint' \in [Requests -> Endpoints]
    BY <1>1 DEF SlotsInv, Endpoints
  <1>4. StageOfEndpoint'
    BY <1>1 DEF SlotsInv, StageOfEndpoint, Yielding
  <1>5. LoopHeldByRunning'
    BY <1>1 DEF SlotsInv, LoopHeldByRunning, Yielding
  <1>6. QED
    BY <1>1, <1>2, <1>3, <1>4, <1>5 DEF SlotsInv

-----------------------------------------------------------------------------
(* The strict-mode bound.                                                  *)

PastSet == {r \in Requests : PastGate(r)}

\* The history variable counts only while strict mode is degraded.
LateInv ==
    /\ lateRuns \in Nat
    /\ lateRuns # 0 => app.fail_closed /\ degraded
    /\ LateRunsBounded

LEMMA PastSetFinite ==
  /\ IsFiniteSet(PastSet)
  /\ Cardinality(PastSet) \in Nat
  /\ Cardinality(Requests) \in Nat
  /\ Cardinality(PastSet) <= Cardinality(Requests)
  BY GatewayAssumption, FS_Subset, FS_CardinalityType DEF PastSet

\* The same facts one step later.
LEMMA PastSetFiniteNext ==
  /\ IsFiniteSet(PastSet')
  /\ Cardinality(PastSet') \in Nat
  /\ Cardinality(PastSet') <= Cardinality(Requests)
  BY GatewayAssumption, FS_Subset, FS_CardinalityType DEF PastSet

\* A step that admits nobody past the check and evaluates nothing.
LEMMA LateKept ==
  ASSUME LateInv, app' = app, PastSet' \subseteq PastSet, CountLate(FALSE)
  PROVE  LateInv'
  <1>1. Cardinality(PastSet') <= Cardinality(PastSet)
    BY PastSetFinite, FS_Subset
  <1>2. CASE app.fail_closed /\ degraded'
    <2>1. lateRuns' = lateRuns
      BY <1>2 DEF CountLate
    <2>2. lateRuns' + Cardinality(PastSet') <= Cardinality(Requests)
      BY <1>1, <1>2, <2>1, PastSetFinite, PastSetFiniteNext
      DEF LateInv, LateRunsBounded, PastSet
    <2>3. QED
      BY <1>2, <2>1, <2>2 DEF LateInv, LateRunsBounded, PastSet
  <1>3. CASE ~(app.fail_closed /\ degraded')
    <2>1. lateRuns' = 0
      BY <1>3 DEF CountLate
    <2>2. QED
      BY <1>3, <2>1 DEF LateInv, LateRunsBounded
  <1>4. QED
    BY <1>2, <1>3

\* A step that leaves the writer and the history alone.
LEMMA LateUntouched ==
  ASSUME LateInv, app' = app, PastSet' \subseteq PastSet,
         degraded' = degraded, lateRuns' = lateRuns
  PROVE  LateInv'
  <1>1. Cardinality(PastSet') <= Cardinality(PastSet)
    BY PastSetFinite, FS_Subset
  <1>2. QED
    BY <1>1, PastSetFinite, PastSetFiniteNext DEF LateInv, LateRunsBounded, PastSet

\* An evaluation: the request that runs leaves the set of those past the check.
LEMMA LateEvaluation ==
  ASSUME LateInv, NEW r \in PastSet, app' = app, PastSet' = PastSet \ {r}, CountLate(TRUE)
  PROVE  LateInv'
  <1>1. Cardinality(PastSet') = Cardinality(PastSet) - 1
    BY PastSetFinite, FS_RemoveElement
  <1>2. CASE app.fail_closed /\ degraded'
    <2>1. lateRuns' = IF degraded THEN lateRuns + 1 ELSE lateRuns
      BY <1>2 DEF CountLate
    <2>2. lateRuns' \in Nat
      BY <2>1 DEF LateInv
    <2>3. lateRuns' + Cardinality(PastSet') <= Cardinality(Requests)
      BY <1>1, <1>2, <2>1, PastSetFinite, PastSetFiniteNext
      DEF LateInv, LateRunsBounded, PastSet
    <2>4. QED
      BY <1>2, <2>2, <2>3 DEF LateInv, LateRunsBounded, PastSet
  <1>3. CASE ~(app.fail_closed /\ degraded')
    <2>1. lateRuns' = 0
      BY <1>3 DEF CountLate
    <2>2. QED
      BY <1>3, <2>1 DEF LateInv, LateRunsBounded
  <1>4. QED
    BY <1>2, <1>3

LEMMA GateLate ==
  ASSUME SlotsInv, WriterInv, LateInv, NEW r \in Requests, Gate(r)
  PROVE  LateInv'
  <1>1. loop = r /\ at[r] = "gate" /\ app' = app /\ CountLate(FALSE)
    BY DEF Gate
  <1>2. CASE Answer(r, 503)
    <2>1. at' = [at EXCEPT ![r] = "answered"]
      BY <1>2 DEF Answer
    <2>2. PastSet' \subseteq PastSet
      BY <1>1, <2>1 DEF SlotsInv, PastSet, PastGate, Done
    <2>3. QED
      BY <1>1, <2>2, LateKept
  <1>3. CASE ~(app.fail_closed /\ degraded')
    <2>1. lateRuns' = 0
      BY <1>1, <1>3 DEF CountLate
    <2>2. QED
      BY <1>1, <1>3, <2>1 DEF LateInv, LateRunsBounded
  <1>4. Answer(r, 503) \/ ~(app.fail_closed /\ degraded')
    <2>1. CASE app.fail_closed /\ app.writer /\ degraded
      BY <2>1 DEF Gate
    <2>2. CASE ~(app.fail_closed /\ app.writer /\ degraded)
      BY <2>2 DEF Gate, writerVars, WriterInv
    <2>3. QED
      BY <2>1, <2>2
  <1>5. QED
    BY <1>2, <1>3, <1>4

LEMMA RunningLate ==
  ASSUME SlotsInv, WriterInv, LateInv, NEW r \in Requests,
         Pass(r) \/ Refuse(r) \/ ProducerRaises(r) \/ Announce(r)
  PROVE  LateInv'
  <1>1. CASE Pass(r)
    <2>1. /\ loop = r /\ at[r] \in Passable /\ app' = app /\ degraded' = degraded
          /\ lateRuns' = lateRuns
          /\ \A q \in Requests \ {r} : at'[q] = at[q]
      BY <1>1 DEF Pass, MayPass, Passable, writerVars, SlotsInv
    <2>2. PastSet' \subseteq PastSet
      BY <2>1 DEF PastSet, PastGate, Passable, Done
    <2>3. QED
      BY <2>1, <2>2, LateUntouched
  <1>2. CASE Refuse(r)
    <2>1. app' = app /\ CountLate(FALSE) /\ at' = [at EXCEPT ![r] = "answered"]
      BY <1>2 DEF Refuse, Answer
    <2>2. PastSet' \subseteq PastSet
      BY <2>1 DEF SlotsInv, PastSet, PastGate, Done
    <2>3. QED
      BY <2>1, <2>2, LateKept
  <1>3. CASE ProducerRaises(r)
    <2>1. /\ app' = app /\ degraded' = degraded /\ lateRuns' = lateRuns
          /\ at' = [at EXCEPT ![r] = "raised"]
      BY <1>3 DEF ProducerRaises, writerVars
    <2>2. PastSet' \subseteq PastSet
      BY <2>1 DEF SlotsInv, PastSet, PastGate, Done
    <2>3. QED
      BY <2>1, <2>2, LateUntouched
  <1>4. CASE Announce(r)
    <2>1. /\ app' = app /\ CountLate(FALSE) /\ at[r] = "announce"
          /\ at' = [at EXCEPT ![r] = "kernel"]
      BY <1>4 DEF Announce
    <2>2. PastSet' \subseteq PastSet
      BY <2>1 DEF SlotsInv, PastSet, PastGate, Done
    <2>3. QED
      BY <2>1, <2>2, LateKept
  <1>5. QED
    BY <1>1, <1>2, <1>3, <1>4

LEMMA KernelLate ==
  ASSUME SlotsInv, LateInv, NEW r \in Requests, KernelRuns(r)
  PROVE  LateInv'
  <1>1. /\ app' = app /\ CountLate(TRUE) /\ at[r] = "kernel"
        /\ at' = [at EXCEPT ![r] = "answered"]
    BY DEF KernelRuns, EvaluateDecides, OperationAwareDecides, Answer
  <1>2. r \in PastSet /\ PastSet' = PastSet \ {r}
    BY <1>1 DEF SlotsInv, PastSet, PastGate, Done
  <1>3. QED
    BY <1>1, <1>2, LateEvaluation

\* The steps between two runs of a slot.
LEMMA OutsideLate ==
  ASSUME SlotsInv, LateInv, NEW r \in Requests,
         (\E e \in Endpoints : Arrive(r, e)) \/ BodyEnds(r) \/ Resume(r) \/ Release(r)
  PROVE  LateInv'
  <1>1. /\ app' = app /\ degraded' = degraded /\ lateRuns' = lateRuns
        /\ \A q \in Requests \ {r} : at'[q] = at[q]
        /\ at[r] \in {"await_body", "queued"} \/ at'[r] \in {"gate", "free"}
    BY DEF Arrive, BodyEnds, Resume, Release, writerVars, SlotsInv
  <1>2. PastSet' \subseteq PastSet
    BY <1>1 DEF PastSet, PastGate, Done
  <1>3. QED
    BY <1>1, <1>2, LateUntouched

-----------------------------------------------------------------------------
(* The three invariants together.                                          *)

IInv == SlotsInv /\ WriterInv /\ LateInv

LEMMA InitIInv == Init => IInv
  <1> SUFFICES ASSUME Init PROVE IInv
    OBVIOUS
  <1>1. SlotsInv
    BY GatewayAssumption
    DEF Init, SlotsInv, Endpoints, AtStages, Done, StageOfEndpoint, Yielding,
        LoopHeldByRunning
  <1>2. WriterInv
    BY DEF Init, WriterInv
  <1>3. LateInv
    BY DEF Init, LateInv, LateRunsBounded
  <1>4. QED
    BY <1>1, <1>2, <1>3 DEF IInv

\* Only emissions touch the writer.
LEMMA StepWriterInv ==
  ASSUME WriterInv, [Next]_vars
  PROVE  WriterInv'
  <1>1. ASSUME NEW r \in Requests, Gate(r) \/ Refuse(r) \/ Announce(r) \/ KernelRuns(r)
        PROVE  WriterInv'
    <2>1. app' = app
      BY <1>1 DEF Gate, Refuse, Announce, KernelRuns, EvaluateDecides, OperationAwareDecides
    <2>2. CASE \E event : emit(r, event)
      BY <2>1, <2>2, EmitWriterInv
    <2>3. CASE UNCHANGED writerVars
      BY <2>1, <2>3 DEF writerVars, WriterInv
    <2>4. QED
      BY <1>1, <2>2, <2>3
      DEF Gate, Refuse, Announce, KernelRuns, EvaluateDecides, OperationAwareDecides
  <1>2. ASSUME UNCHANGED <<writerVars, app>> PROVE WriterInv'
    BY <1>2 DEF writerVars, WriterInv
  <1>3. ASSUME NEW r \in Requests,
               \/ \E e \in Endpoints : Arrive(r, e)
               \/ BodyEnds(r) \/ Resume(r) \/ Pass(r) \/ ProducerRaises(r) \/ Release(r)
        PROVE  UNCHANGED <<writerVars, app>>
    BY <1>3 DEF Arrive, BodyEnds, Resume, Pass, ProducerRaises, Release
  <1>4. CASE SinkChanges
    BY <1>2, <1>4 DEF SinkChanges
  <1>5. CASE UNCHANGED vars
    BY <1>2, <1>5 DEF vars
  <1>6. QED
    BY <1>1, <1>2, <1>3, <1>4, <1>5 DEF Next

LEMMA NextIInv == IInv /\ [Next]_vars => IInv'
  <1> SUFFICES ASSUME IInv, [Next]_vars PROVE IInv'
    OBVIOUS
  <1>1. SlotsInv /\ WriterInv /\ LateInv
    BY DEF IInv
  <1>2. WriterInv'
    BY <1>1, StepWriterInv
  <1>3. ASSUME NEW r \in Requests,
               (\E e \in Endpoints : Arrive(r, e)) \/ BodyEnds(r) \/ Resume(r) \/ Release(r)
        PROVE  SlotsInv' /\ LateInv'
    BY <1>1, <1>3, ArriveSlots, BodyEndsSlots, ResumeSlots, ReleaseSlots, OutsideLate
  <1>4. ASSUME NEW r \in Requests, Gate(r)
        PROVE  SlotsInv' /\ LateInv'
    BY <1>1, <1>4, GateSlots, GateLate
  <1>5. ASSUME NEW r \in Requests,
               Pass(r) \/ Refuse(r) \/ ProducerRaises(r) \/ Announce(r)
        PROVE  SlotsInv' /\ LateInv'
    BY <1>1, <1>5, PassSlots, RefuseSlots, ProducerRaisesSlots, AnnounceSlots, RunningLate
  <1>6. ASSUME NEW r \in Requests, KernelRuns(r)
        PROVE  SlotsInv' /\ LateInv'
    BY <1>1, <1>6, KernelSlots, KernelLate
  <1>7. CASE SinkChanges
    <2>1. /\ sink' \in {"up", "down"} /\ app' = app /\ loop' = loop /\ endpoint' = endpoint
          /\ at' = at /\ verdict' = verdict /\ status' = status
          /\ degraded' = degraded /\ lateRuns' = lateRuns
      BY <1>7 DEF SinkChanges, requestVars, writerVars
    <2>2. SlotsInv'
      BY <1>1, <2>1 DEF SlotsInv, StageOfEndpoint, LoopHeldByRunning
    <2>3. LateInv'
      <3>1. PastSet' = PastSet
        BY <2>1 DEF PastSet, PastGate
      <3>2. QED
        BY <1>1, <2>1, <3>1, LateUntouched
    <2>4. QED
      BY <1>2, <2>2, <2>3 DEF IInv
  <1>8. CASE UNCHANGED vars
    <2>1. SlotsInv'
      BY <1>1, <1>8 DEF vars, requestVars, SlotsInv, StageOfEndpoint, LoopHeldByRunning
    <2>2. LateInv'
      <3>1. PastSet' = PastSet
        BY <1>8 DEF vars, requestVars, PastSet, PastGate
      <3>2. QED
        BY <1>1, <1>8, <3>1, LateUntouched DEF vars, requestVars, writerVars
    <2>3. QED
      BY <1>2, <2>1, <2>2 DEF IInv
  <1>9. QED
    BY <1>2, <1>3, <1>4, <1>5, <1>6, <1>7, <1>8 DEF Next, IInv

\* The inductive invariant holds of every behaviour of the two handlers.
THEOREM GatewayInvariant == Spec => []IInv
  BY InitIInv, NextIInv, PTL DEF Spec

\* Type correctness of the gateway for any number of request slots.
THEOREM GatewayTypeCorrect == Spec => []TypeOK
  <1>1. IInv => TypeOK
    BY DEF IInv, SlotsInv, WriterInv, LateInv, TypeOK
  <1>2. QED
    BY <1>1, GatewayInvariant, PTL

\* Handlers yield only at request.body(): between it and the response a handler
\* has the event loop to itself, however many requests are in flight.
THEOREM LoopExclusion == Spec => []LoopHeldByRunning
  <1>1. IInv => LoopHeldByRunning
    BY DEF IInv, SlotsInv
  <1>2. QED
    BY <1>1, GatewayInvariant, PTL

\* In strict mode no more evaluations follow a degradation than requests were in
\* flight past the strict-mode check when it happened.
THEOREM StrictLeakBounded == Spec => []LateRunsBounded
  <1>1. IInv => LateRunsBounded
    BY DEF IInv, LateInv
  <1>2. QED
    BY <1>1, GatewayInvariant, PTL

-----------------------------------------------------------------------------
(* The gateway implements the enforcement promise.                         *)

\* The refinement mapping of phase.
PhaseOf(stage) ==
    IF stage = "free" THEN "idle" ELSE IF stage \in Done THEN "answered" ELSE "working"
Phase == [r \in Requests |-> PhaseOf(at[r])]

LEMMA InitEnforced == Init => Enforced!Init
  BY DEF Init, Enforced!Init

\* Moving one slot moves its phase and no other.
LEMMA PhaseMoves ==
  ASSUME SlotsInv, NEW r \in Requests, NEW stage, at' = [at EXCEPT ![r] = stage]
  PROVE  Phase' = [Phase EXCEPT ![r] = PhaseOf(stage)]
  BY DEF SlotsInv, Phase

\* Moving a slot within its handler is a stuttering step.
LEMMA PhaseStays ==
  ASSUME SlotsInv, NEW r \in Requests, NEW stage, at' = [at EXCEPT ![r] = stage],
         PhaseOf(stage) = PhaseOf(at[r])
  PROVE  Phase' = Phase
  BY PhaseMoves DEF Phase

\* A refusal of the handler is a refusal of the promise.
LEMMA RefusalEnforced ==
  ASSUME SlotsInv, NEW r \in Requests, at[r] \notin Yielding,
         \E stage \in Done : at' = [at EXCEPT ![r] = stage],
         \E code \in RefusalCodes : status' = [status EXCEPT ![r] = code],
         verdict' = verdict
  PROVE  Enforced!Refuse(r)
  <1>1. Phase' = [Phase EXCEPT ![r] = "answered"]
    BY PhaseMoves DEF PhaseOf, Done
  <1>2. Phase[r] = "working"
    BY DEF Phase, PhaseOf, Yielding
  <1>3. \E c \in Enforced!RefusalStatus : status' = [status EXCEPT ![r] = c]
    <2>1. RefusalCodes = Enforced!RefusalStatus
      BY DEF RefusalCodes, Enforced!RefusalStatus
    <2>2. QED
      BY <2>1
  <1>4. QED
    BY <1>1, <1>2, <1>3 DEF Enforced!Refuse, Phase, PhaseOf

\* Exactly the kernel's ALLOW becomes a 200 and its DENY a 403.
LEMMA ClassifyEnforced ==
  ASSUME NEW k \in KernelResults
  PROVE  /\ VerdictOf(k) \in Enforced!Verdicts
         /\ classify_operation_aware_http_status(k) \in Enforced!StatusFor(VerdictOf(k))
  <1>1. CASE k.evaluation_status = "completed"
    BY <1>1 DEF KernelResults, classify_operation_aware_http_status, CompletedStatus,
                VerdictOf, Disposition, Enforced!Verdicts, Enforced!StatusFor
  <1>2. CASE k.evaluation_status = "failed"
    <2>1. VerdictOf(k) = "FAILED"
      BY <1>2 DEF VerdictOf
    <2>2. CASE k.failure_reason \in DOMAIN FAILURE_REASON_HTTP_STATUS
      BY <1>2, <2>1, <2>2
      DEF classify_operation_aware_http_status, FAILURE_REASON_HTTP_STATUS,
          Enforced!Verdicts, Enforced!StatusFor, Enforced!RefusalStatus
    <2>3. CASE k.failure_reason \notin DOMAIN FAILURE_REASON_HTTP_STATUS
      BY <1>2, <2>1, <2>3
      DEF classify_operation_aware_http_status, UNRECOGNIZED_STATE_HTTP_STATUS,
          Enforced!Verdicts, Enforced!StatusFor, Enforced!RefusalStatus
    <2>4. QED
      BY <2>2, <2>3
  <1>3. QED
    BY <1>1, <1>2 DEF KernelResults

\* A decision of the handler is the decision of one evaluation.
LEMMA DecisionEnforced ==
  ASSUME SlotsInv, NEW r \in Requests, NEW v \in Enforced!Verdicts,
         NEW code \in Enforced!StatusFor(v), at[r] = "kernel", Answer(r, code),
         verdict' = [verdict EXCEPT ![r] = v]
  PROVE  Enforced!Decide(r, v)
  <1>1. at' = [at EXCEPT ![r] = "answered"] /\ status' = [status EXCEPT ![r] = code]
    BY DEF Answer
  <1>2. Phase' = [Phase EXCEPT ![r] = "answered"]
    BY <1>1, PhaseMoves DEF PhaseOf, Done
  <1>3. Phase[r] = "working"
    BY DEF Phase, PhaseOf, Done
  <1>4. QED
    BY <1>1, <1>2, <1>3 DEF Enforced!Decide, Phase, PhaseOf

LEMMA StepEnforced ==
  ASSUME SlotsInv, [Next]_vars
  PROVE  [Enforced!Next]_<<Phase, verdict, status>>
  <1>1. ASSUME NEW r \in Requests, NEW e \in Endpoints, Arrive(r, e)
        PROVE  Enforced!Accept(r)
    <2>1. /\ at[r] = "free" /\ at' = [at EXCEPT ![r] = "gate"]
          /\ verdict' = verdict /\ status' = status
      BY <1>1 DEF Arrive
    <2>2. Phase' = [Phase EXCEPT ![r] = "working"]
      <3>1. PhaseOf("gate") = "working"
        BY DEF PhaseOf, Done
      <3>2. QED
        BY <2>1, <3>1, PhaseMoves
    <2>3. Phase[r] = "idle"
      BY <2>1 DEF Phase, PhaseOf
    <2>4. QED
      BY <2>1, <2>2, <2>3 DEF Enforced!Accept, Phase, PhaseOf
  <1>2. ASSUME NEW r \in Requests, Gate(r)
        PROVE  Enforced!Refuse(r) \/ UNCHANGED <<Phase, verdict, status>>
    <2>1. /\ at[r] = "gate" /\ verdict' = verdict
          /\ Answer(r, 503) \/ AwaitBody(r)
      BY <1>2 DEF Gate
    <2>2. CASE Answer(r, 503)
      <3>1. at[r] \notin Yielding /\ "answered" \in Done
        BY <2>1 DEF Yielding, Done
      <3>2. 503 \in RefusalCodes
        BY DEF RefusalCodes
      <3>3. QED
        BY <2>1, <2>2, <3>1, <3>2, RefusalEnforced DEF Answer
    <2>3. CASE AwaitBody(r)
      <3>1. Phase' = Phase
        BY <2>1, <2>3, PhaseStays DEF AwaitBody, PhaseOf, Done
      <3>2. QED
        BY <2>1, <2>3, <3>1 DEF AwaitBody
    <2>4. QED
      BY <2>1, <2>2, <2>3
  <1>3. ASSUME NEW r \in Requests, BodyEnds(r) \/ Resume(r) \/ Pass(r) \/ Announce(r)
        PROVE  UNCHANGED <<Phase, verdict, status>>
    <2>1. verdict' = verdict /\ status' = status
      BY <1>3 DEF BodyEnds, Resume, Pass, Announce
    <2>2. CASE Resume(r)
      <3>1. Stages(endpoint[r])[1] = "validate"
        BY FirstStage DEF SlotsInv
      <3>2. at[r] = "queued" /\ at' = [at EXCEPT ![r] = "validate"]
        BY <2>2, <3>1 DEF Resume
      <3>3. PhaseOf("validate") = PhaseOf("queued")
        BY DEF PhaseOf, Done
      <3>4. QED
        BY <2>1, <3>2, <3>3, PhaseStays
    <2>3. CASE Pass(r)
      <3>1. loop = r /\ at[r] \in Passable
        BY <2>3 DEF Pass, MayPass, Passable
      <3>2. at[r] \in StagesOf(endpoint[r])
        BY <3>1 DEF SlotsInv, StageOfEndpoint, LoopHeldByRunning, Passable
      <3>3. After(endpoint[r], at[r]) \in StagesOf(endpoint[r])
        BY <3>1, <3>2, AfterStage DEF SlotsInv
      <3>4. PhaseOf(After(endpoint[r], at[r])) = PhaseOf(at[r])
        BY <3>2, <3>3 DEF StagesOf, PhaseOf, Done
      <3>5. QED
        BY <2>1, <2>3, <3>4, PhaseStays DEF Pass
    <2>4. CASE Announce(r)
      BY <2>1, <2>4, PhaseStays DEF Announce, PhaseOf, Done
    <2>5. CASE BodyEnds(r)
      <3>1. PhaseOf("queued") = PhaseOf("await_body")
        BY DEF PhaseOf, Done
      <3>2. QED
        BY <2>1, <2>5, <3>1, PhaseStays DEF BodyEnds
    <2>6. QED
      BY <1>3, <2>2, <2>3, <2>4, <2>5
  <1>4. ASSUME NEW r \in Requests, Refuse(r)
        PROVE  Enforced!Refuse(r)
    <2>1. PICK code \in RefusalCodes : Answer(r, code)
      BY <1>4, ExitCodes DEF Refuse
    <2>2. at[r] \notin Yielding /\ verdict' = verdict
      BY <1>4 DEF Refuse, SlotsInv, LoopHeldByRunning
    <2>3. at' = [at EXCEPT ![r] = "answered"] /\ status' = [status EXCEPT ![r] = code]
      BY <2>1 DEF Answer
    <2>4. \E stage \in Done : at' = [at EXCEPT ![r] = stage]
      BY <2>3 DEF Done
    <2>5. \E c \in RefusalCodes : status' = [status EXCEPT ![r] = c]
      BY <2>3
    <2>6. QED
      BY <2>2, <2>4, <2>5, RefusalEnforced
  <1>5. ASSUME NEW r \in Requests, ProducerRaises(r)
        PROVE  Enforced!Refuse(r)
    <2>1. /\ at[r] = "producer" /\ at' = [at EXCEPT ![r] = "raised"]
          /\ status' = [status EXCEPT ![r] = 500] /\ verdict' = verdict
      BY <1>5 DEF ProducerRaises
    <2>2. at[r] \notin Yielding /\ "raised" \in Done
      BY <2>1 DEF Yielding, Done
    <2>3. 500 \in RefusalCodes
      BY DEF RefusalCodes
    <2>4. QED
      BY <2>1, <2>2, <2>3, RefusalEnforced
  <1>6. ASSUME NEW r \in Requests, KernelRuns(r)
        PROVE  \E v \in Enforced!Verdicts : Enforced!Decide(r, v)
    <2>1. ASSUME NEW outcome \in {"ALLOW", "DENY"}, EvaluateDecides(r, outcome)
          PROVE  outcome \in Enforced!Verdicts /\ Enforced!Decide(r, outcome)
      <3>1. /\ outcome \in Enforced!Verdicts
            /\ EvaluateStatus(outcome) \in Enforced!StatusFor(outcome)
        BY DEF EvaluateStatus, Enforced!Verdicts, Enforced!StatusFor
      <3>2. QED
        BY <2>1, <3>1, DecisionEnforced DEF EvaluateDecides
    <2>2. ASSUME NEW k \in KernelResults, OperationAwareDecides(r, k)
          PROVE  Enforced!Decide(r, VerdictOf(k))
      BY <2>2, ClassifyEnforced, DecisionEnforced DEF OperationAwareDecides
    <2>3. QED
      BY <1>6, <2>1, <2>2, ClassifyEnforced DEF KernelRuns
  <1>7. ASSUME NEW r \in Requests, Release(r)
        PROVE  Enforced!Forget(r)
    <2>1. /\ at[r] \in Done /\ at' = [at EXCEPT ![r] = "free"]
          /\ verdict' = [verdict EXCEPT ![r] = "none"]
          /\ status' = [status EXCEPT ![r] = 0]
      BY <1>7 DEF Release
    <2>2. Phase' = [Phase EXCEPT ![r] = "idle"]
      BY <2>1, PhaseMoves DEF PhaseOf
    <2>3. Phase[r] = "answered"
      BY <2>1 DEF Phase, PhaseOf, Done
    <2>4. QED
      BY <2>1, <2>2, <2>3 DEF Enforced!Forget, Phase, PhaseOf
  <1>8. CASE SinkChanges \/ UNCHANGED vars
    BY <1>8 DEF SinkChanges, vars, requestVars, Phase
  <1>9. QED
    BY <1>1, <1>2, <1>3, <1>4, <1>5, <1>6, <1>7, <1>8 DEF Next, Enforced!Next

\* Whatever the audit pipeline, the sink and the other requests do, a request is
\* refused or decided by exactly one evaluation, and answered 200 only on its
\* ALLOW.
THEOREM GatewayEnforces == Spec => ImplementsEnforcement
  <1>1. IInv /\ [Next]_vars => [Enforced!Next]_<<Phase, verdict, status>>
    BY StepEnforced DEF IInv
  <1>2. IInv /\ [Next]_vars => [Enforced!Next]_Enforced!enforcementVars
    BY <1>1 DEF Enforced!enforcementVars, Phase, PhaseOf
  <1>3. QED
    BY <1>2, InitEnforced, GatewayInvariant, PTL
    DEF Spec, ImplementsEnforcement, Enforced!Spec
=============================================================================
