------------------------ MODULE AuditPipelineProofs ------------------------
(***************************************************************************)
(* Proofs about the audit writer, for every threshold and every sequence   *)
(* of write outcomes.  The inductive invariant is the conjunction of       *)
(* TypeOK, CountsTrailingRun, ReadinessMirrorsWriter, ReadinessWellKept    *)
(* and DegradedIffThreshold == degraded <=> run of failures >= threshold    *)
(* which ties the flag to the counter; the history formulation of          *)
(* degradation and the refinement of AuditHealth follow from it.           *)
(***************************************************************************)
EXTENDS AuditPipeline, FiniteSetTheorems, TLAPS

\* The flag is a function of the counter, although the code sets it only on the
\* write that meets the threshold and clears it only on the write that recovers.
DegradedIffThreshold == degraded <=> consecutive_failure_count >= failure_threshold

IInv ==
    /\ TypeOK
    /\ CountsTrailingRun
    /\ ReadinessMirrorsWriter
    /\ ReadinessWellKept
    /\ DegradedIffThreshold

-----------------------------------------------------------------------------
\* The effective threshold is a positive integer whatever the constructor is given.
LEMMA ThresholdPositive == failure_threshold \in Nat /\ failure_threshold >= 1
  BY ThresholdAssumption DEF failure_threshold

\* mark_ready keeps the tracker's shape, sets its own component.
LEMMA MarkReadyShape ==
  ASSUME NEW N, NEW rs, IsReadiness(rs, N), NEW c \in N
  PROVE  /\ IsReadiness(mark_ready(rs, c), N)
         /\ Registered(mark_ready(rs, c)) = Registered(rs) \cup {c}
         /\ mark_ready(rs, c).ready[c]
  <1>1. mark_ready(rs, c).order \in Seq(N)
    BY DEF mark_ready, KeyOrder, IsReadiness
  <1>2. QED
    BY <1>1 DEF mark_ready, IsReadiness, Registered, Put, Restrict

\* mark_not_ready keeps the tracker's shape, clears its own component.
LEMMA MarkNotReadyShape ==
  ASSUME NEW N, NEW rs, IsReadiness(rs, N), NEW c \in N, NEW why
  PROVE  /\ IsReadiness(mark_not_ready(rs, why, c), N)
         /\ Registered(mark_not_ready(rs, why, c)) = Registered(rs) \cup {c}
         /\ ~mark_not_ready(rs, why, c).ready[c]
  <1>1. mark_not_ready(rs, why, c).order \in Seq(N)
    BY DEF mark_not_ready, KeyOrder, IsReadiness
  <1>2. QED
    BY <1>1 DEF mark_not_ready, IsReadiness, Registered, Put

\* On a component that is already registered, marking keeps the tracker well kept.
LEMMA MarkReadyWellKept ==
  ASSUME NEW N, NEW rs, IsReadiness(rs, N), WellKept(rs), NEW c \in Registered(rs)
  PROVE  WellKept(mark_ready(rs, c))
  <1> DEFINE m == mark_ready(rs, c)
  <1>1. m.order = rs.order
    BY DEF mark_ready, KeyOrder
  <1>2. Registered(m) = Registered(rs)
    BY DEF mark_ready, Put, Registered
  <1>3. \A d \in Registered(rs) : m.ready[d] = IF d = c THEN TRUE ELSE rs.ready[d]
    BY DEF mark_ready, Put, Registered
  <1>4. DOMAIN m.reasons = DOMAIN rs.reasons \ {c}
    BY DEF mark_ready, Restrict
  <1> HIDE DEF m
  <1>5. DOMAIN m.reasons = NotReady(m)
    BY <1>2, <1>3, <1>4 DEF WellKept, NotReady
  <1>6. QED
    BY <1>1, <1>2, <1>5 DEF WellKept, m

LEMMA MarkNotReadyWellKept ==
  ASSUME NEW N, NEW rs, IsReadiness(rs, N), WellKept(rs), NEW c \in Registered(rs),
         NEW why
  PROVE  WellKept(mark_not_ready(rs, why, c))
  <1> DEFINE m == mark_not_ready(rs, why, c)
  <1>1. m.order = rs.order
    BY DEF mark_not_ready, KeyOrder
  <1>2. Registered(m) = Registered(rs)
    BY DEF mark_not_ready, Put, Registered
  <1>3. \A d \in Registered(rs) : m.ready[d] = IF d = c THEN FALSE ELSE rs.ready[d]
    BY DEF mark_not_ready, Put, Registered
  <1>4. DOMAIN m.reasons = DOMAIN rs.reasons \cup {c}
    BY DEF mark_not_ready, Put
  <1> HIDE DEF m
  <1>5. DOMAIN m.reasons = NotReady(m)
    BY <1>2, <1>3, <1>4 DEF WellKept, NotReady
  <1>6. QED
    BY <1>1, <1>2, <1>5 DEF WellKept, m

-----------------------------------------------------------------------------
LEMMA InitIInv == Init => IInv
  <1> SUFFICES ASSUME Init PROVE IInv
    OBVIOUS
  <1>1. attempts = <<>> /\ Len(attempts) = 0 /\ attempts \in Seq(BOOLEAN)
    BY DEF Init
  <1>2. TypeOK
    BY <1>1, StartupAssumption DEF Init, InitWriter, TypeOK
  <1>3. CountsTrailingRun
    BY <1>1 DEF Init, InitWriter, CountsTrailingRun
  <1>4. ReadinessMirrorsWriter /\ ReadinessWellKept
    BY StartupAssumption
    DEF Init, InitWriter, ReadinessMirrorsWriter, ReadinessWellKept, AUDIT_WRITER_COMPONENT
  <1>5. DegradedIffThreshold
    BY ThresholdPositive DEF Init, InitWriter, DegradedIffThreshold
  <1>6. QED
    BY <1>2, <1>3, <1>4, <1>5 DEF IInv

\* What a failed write does to the tracker: it clears audit_writer on the write
\* that degrades and leaves everything else alone.
LEMMA FailedWriteTracker ==
  ASSUME IInv, FailedWrite
  PROVE  /\ IsReadiness(readiness', Names)
         /\ WellKept(readiness')
         /\ AUDIT_WRITER_COMPONENT \in Registered(readiness')
         /\ (readiness'.ready[AUDIT_WRITER_COMPONENT] <=> ~degraded')
  <1>1. /\ IsReadiness(readiness, Names)
        /\ WellKept(readiness)
        /\ AUDIT_WRITER_COMPONENT \in Registered(readiness)
        /\ (readiness.ready[AUDIT_WRITER_COMPONENT] <=> ~degraded)
        /\ degraded \in BOOLEAN
    BY DEF IInv, TypeOK, ReadinessMirrorsWriter, ReadinessWellKept
  <1>2. AUDIT_WRITER_COMPONENT \in Names
    BY <1>1 DEF IsReadiness, Registered
  <1>3. CASE ThresholdMet /\ ~degraded
    <2>1. readiness' = mark_not_ready(readiness, ThresholdReason, AUDIT_WRITER_COMPONENT)
      BY <1>3 DEF FailedWrite
    <2>2. degraded' = TRUE
      BY <1>3 DEF FailedWrite
    <2>3. WellKept(readiness')
      BY <1>1, <2>1, MarkNotReadyWellKept
    <2>4. /\ IsReadiness(readiness', Names)
          /\ AUDIT_WRITER_COMPONENT \in Registered(readiness')
          /\ ~readiness'.ready[AUDIT_WRITER_COMPONENT]
      <3> DEFINE m == mark_not_ready(readiness, ThresholdReason, AUDIT_WRITER_COMPONENT)
      <3>1. /\ IsReadiness(m, Names)
            /\ AUDIT_WRITER_COMPONENT \in Registered(m)
            /\ ~m.ready[AUDIT_WRITER_COMPONENT]
        BY <1>1, <1>2, MarkNotReadyShape
      <3> HIDE DEF m
      <3>2. readiness' = m
        BY <2>1 DEF m
      <3>3. QED
        BY <3>1, <3>2
    <2>5. QED
      BY <2>2, <2>3, <2>4
  <1>4. CASE ~(ThresholdMet /\ ~degraded)
    BY <1>1, <1>4 DEF FailedWrite
  <1>5. QED
    BY <1>3, <1>4

\* What a successful write does to the tracker: it restores audit_writer on the
\* write that recovers and leaves everything else alone.
LEMMA SuccessfulWriteTracker ==
  ASSUME IInv, SuccessfulWrite
  PROVE  /\ IsReadiness(readiness', Names)
         /\ WellKept(readiness')
         /\ AUDIT_WRITER_COMPONENT \in Registered(readiness')
         /\ (readiness'.ready[AUDIT_WRITER_COMPONENT] <=> ~degraded')
  <1>1. /\ IsReadiness(readiness, Names)
        /\ WellKept(readiness)
        /\ AUDIT_WRITER_COMPONENT \in Registered(readiness)
        /\ (readiness.ready[AUDIT_WRITER_COMPONENT] <=> ~degraded)
        /\ degraded \in BOOLEAN
    BY DEF IInv, TypeOK, ReadinessMirrorsWriter, ReadinessWellKept
  <1>2. AUDIT_WRITER_COMPONENT \in Names
    BY <1>1 DEF IsReadiness, Registered
  <1>3. CASE degraded
    <2>1. readiness' = mark_ready(readiness, AUDIT_WRITER_COMPONENT)
      BY <1>3 DEF SuccessfulWrite
    <2>2. degraded' = FALSE
      BY DEF SuccessfulWrite
    <2>3. WellKept(readiness')
      BY <1>1, <2>1, MarkReadyWellKept
    <2>4. /\ IsReadiness(readiness', Names)
          /\ AUDIT_WRITER_COMPONENT \in Registered(readiness')
          /\ readiness'.ready[AUDIT_WRITER_COMPONENT]
      <3> DEFINE m == mark_ready(readiness, AUDIT_WRITER_COMPONENT)
      <3>1. /\ IsReadiness(m, Names)
            /\ AUDIT_WRITER_COMPONENT \in Registered(m)
            /\ m.ready[AUDIT_WRITER_COMPONENT]
        BY <1>1, <1>2, MarkReadyShape
      <3> HIDE DEF m
      <3>2. readiness' = m
        BY <2>1 DEF m
      <3>3. QED
        BY <3>1, <3>2
    <2>5. QED
      BY <2>2, <2>3, <2>4
  <1>4. CASE ~degraded
    BY <1>1, <1>4 DEF SuccessfulWrite
  <1>5. QED
    BY <1>3, <1>4

LEMMA WriteIInv ==
  ASSUME IInv, NEW ok \in BOOLEAN, Write(ok)
  PROVE  IInv'
  <1> USE DEF IInv, TypeOK
  <1>1. /\ attempts' = Append(attempts, ok)
        /\ Len(attempts') = Len(attempts) + 1
        /\ attempts' \in Seq(BOOLEAN)
        /\ attempts'[Len(attempts) + 1] = ok
        /\ \A i \in 1..Len(attempts) : attempts'[i] = attempts[i]
        /\ Len(attempts) \in Nat
    BY DEF Write
  <1>2. CASE ok
    <2>1. SuccessfulWrite
      BY <1>2 DEF Write, write
    <2>2. TypeOK' /\ ReadinessMirrorsWriter' /\ ReadinessWellKept'
      BY <1>1, <2>1, SuccessfulWriteTracker
      DEF SuccessfulWrite, ReadinessMirrorsWriter, ReadinessWellKept
    <2>3. CountsTrailingRun'
      BY <1>1, <1>2, <2>1 DEF SuccessfulWrite, CountsTrailingRun
    <2>4. DegradedIffThreshold'
      BY <2>1, ThresholdPositive DEF SuccessfulWrite, DegradedIffThreshold
    <2>5. QED
      BY <2>2, <2>3, <2>4
  <1>3. CASE ~ok
    <2>1. FailedWrite
      BY <1>3 DEF Write, write
    <2>2. TypeOK' /\ ReadinessMirrorsWriter' /\ ReadinessWellKept'
      BY <1>1, <2>1, FailedWriteTracker
      DEF FailedWrite, ReadinessMirrorsWriter, ReadinessWellKept
    <2>3. CountsTrailingRun'
      BY <1>1, <1>3, <2>1 DEF FailedWrite, CountsTrailingRun
    <2>4. DegradedIffThreshold'
      <3>1. degraded' <=> degraded \/ consecutive_failure_count + 1 >= failure_threshold
        BY <2>1, Zenon DEF FailedWrite, ThresholdMet
      <3>2. degraded <=> consecutive_failure_count >= failure_threshold
        BY DEF DegradedIffThreshold
      <3>3. consecutive_failure_count' = consecutive_failure_count + 1
        BY <2>1 DEF FailedWrite
      <3>4. QED
        BY <3>1, <3>2, <3>3, ThresholdPositive DEF DegradedIffThreshold, failure_threshold
    <2>5. QED
      BY <2>2, <2>3, <2>4
  <1>4. QED
    BY <1>2, <1>3

LEMMA NextIInv == IInv /\ [Next]_vars => IInv'
  <1> SUFFICES ASSUME IInv, [Next]_vars PROVE IInv'
    OBVIOUS
  <1>1. CASE Next
    BY <1>1, WriteIInv DEF Next
  <1>2. CASE UNCHANGED vars
    BY <1>2 DEF vars, writerVars, IInv, TypeOK, CountsTrailingRun, ReadinessMirrorsWriter,
                ReadinessWellKept, DegradedIffThreshold
  <1>3. QED
    BY <1>1, <1>2

\* The inductive invariant holds of every behaviour of the writer.
THEOREM PipelineInvariant == Spec => []IInv
  BY InitIInv, NextIInv, PTL DEF Spec

\* Type correctness of the writer's fields and of the readiness tracker.
THEOREM TypeCorrect == Spec => []TypeOK
  <1>1. IInv => TypeOK
    BY DEF IInv
  <1>2. QED
    BY <1>1, PipelineInvariant, PTL

\* consecutive_failure_count is the length of the trailing run of failures.
THEOREM TrailingRun == Spec => []CountsTrailingRun
  <1>1. IInv => CountsTrailingRun
    BY DEF IInv
  <1>2. QED
    BY <1>1, PipelineInvariant, PTL

\* /ready's audit_writer component and the flag the strict check reads agree.
THEOREM ReadinessMirror == Spec => []ReadinessMirrorsWriter
  <1>1. IInv => ReadinessMirrorsWriter
    BY DEF IInv
  <1>2. QED
    BY <1>1, PipelineInvariant, PTL

\* The tracker keeps one entry per component and a reason for exactly the
\* components that are not ready.
THEOREM TrackerWellKept == Spec => []ReadinessWellKept
  <1>1. IInv => ReadinessWellKept
    BY DEF IInv
  <1>2. QED
    BY <1>1, PipelineInvariant, PTL

LEMMA IInvDegraded == IInv => DegradedIffTailFailed
  <1> SUFFICES ASSUME IInv PROVE DegradedIffTailFailed
    OBVIOUS
  <1> USE DEF IInv, TypeOK, CountsTrailingRun, DegradedIffThreshold, DegradedIffTailFailed
  <1> DEFINE n == Len(attempts)
             k == consecutive_failure_count
             t == failure_threshold
  <1>0. n \in Nat /\ k \in Nat /\ t \in Nat /\ t >= 1
    BY ThresholdPositive
  <1>1. CASE k >= t
    BY <1>0, <1>1
  <1>2. CASE k < t
    <2>1. CASE n < t
      BY <1>0, <1>2, <2>1
    <2>2. CASE n >= t
      <3>1. attempts[n - k] /\ (n - k) \in (n - t + 1)..n
        BY <1>0, <1>2, <2>2
      <3>2. QED
        BY <1>0, <1>2, <3>1
    <2>3. QED
      BY <1>0, <2>1, <2>2
  <1>3. QED
    BY <1>0, <1>1, <1>2

\* The writer is degraded iff the last failure_threshold writes all failed.
THEOREM DegradedExactly == Spec => []DegradedIffTailFailed
  BY IInvDegraded, PipelineInvariant, PTL

-----------------------------------------------------------------------------
\* Appending an outcome adds the new index to the failures iff it is a failure.
LEMMA FailuresAppend ==
  ASSUME NEW s \in Seq(BOOLEAN), NEW ok \in BOOLEAN
  PROVE  /\ IsFiniteSet(Failures(s))
         /\ Len(s) + 1 \notin Failures(s)
         /\ Failures(Append(s, ok)) =
               IF ok THEN Failures(s) ELSE Failures(s) \cup {Len(s) + 1}
  <1>1. Len(s) \in Nat
    OBVIOUS
  <1>2. IsFiniteSet(1..Len(s))
    BY <1>1, FS_Interval
  <1>3. Failures(s) \subseteq 1..Len(s)
    BY DEF Failures
  <1>4. IsFiniteSet(Failures(s))
    BY <1>2, <1>3, FS_Subset
  <1>5. Len(s) + 1 \notin Failures(s)
    BY <1>1 DEF Failures
  <1>6. CASE ok
    BY <1>1, <1>4, <1>5, <1>6 DEF Failures
  <1>7. CASE ~ok
    BY <1>1, <1>4, <1>5, <1>7 DEF Failures
  <1>8. QED
    BY <1>6, <1>7

\* failed_write_count is the number of failures in the whole history.
THEOREM TotalCount == Spec => []CountsEveryFailure
  <1>1. Init => CountsEveryFailure
    <2> SUFFICES ASSUME Init PROVE CountsEveryFailure
      OBVIOUS
    <2>1. Failures(attempts) = {}
      BY DEF Init, Failures
    <2>2. QED
      BY <2>1, FS_EmptySet DEF Init, InitWriter, CountsEveryFailure
  <1>2. TypeOK /\ CountsEveryFailure /\ [Next]_vars => CountsEveryFailure'
    <2> SUFFICES ASSUME TypeOK, CountsEveryFailure, [Next]_vars PROVE CountsEveryFailure'
      OBVIOUS
    <2>1. ASSUME NEW ok \in BOOLEAN, Write(ok) PROVE CountsEveryFailure'
      <3>1. attempts' = Append(attempts, ok) /\ attempts \in Seq(BOOLEAN)
        BY <2>1 DEF Write, TypeOK
      <3>2. CASE ok
        <4>1. failed_write_count' = failed_write_count
          BY <2>1, <3>2 DEF Write, write, SuccessfulWrite
        <4>2. Failures(attempts') = Failures(attempts)
          BY <3>1, <3>2, FailuresAppend
        <4>3. QED
          BY <4>1, <4>2 DEF CountsEveryFailure
      <3>3. CASE ~ok
        <4>1. failed_write_count' = failed_write_count + 1
          BY <2>1, <3>3 DEF Write, write, FailedWrite
        <4>2. Failures(attempts') = Failures(attempts) \cup {Len(attempts) + 1}
          BY <3>1, <3>3, FailuresAppend
        <4>3. Cardinality(Failures(attempts')) = Cardinality(Failures(attempts)) + 1
          BY <3>1, <4>2, FailuresAppend, FS_AddElement
        <4>4. QED
          BY <4>1, <4>3 DEF CountsEveryFailure
      <3>4. QED
        BY <3>2, <3>3
    <2>2. CASE UNCHANGED vars
      BY <2>2 DEF vars, writerVars, CountsEveryFailure
    <2>3. QED
      BY <2>1, <2>2 DEF Next
  <1>3. QED
    BY <1>1, <1>2, TypeCorrect, PTL DEF Spec

\* Both counters of GatewayAuditWriter are functions of the history of outcomes.
THEOREM Counters == Spec => []CountersExact
  <1>1. CountsTrailingRun /\ CountsEveryFailure => CountersExact
    BY DEF CountersExact
  <1>2. QED
    BY <1>1, TrailingRun, TotalCount, PTL

-----------------------------------------------------------------------------
LEMMA InitRefines == Init => Health!Init
  BY StartupAssumption DEF Init, InitWriter, Health!Init, AUDIT_WRITER_COMPONENT

LEMMA StepRefines ==
  IInv /\ IInv' /\ [Next]_vars
    => [Health!Next]_<<attempts, readiness.ready[AUDIT_WRITER_COMPONENT]>>
  <1> SUFFICES ASSUME IInv, IInv', [Next]_vars
               PROVE  [Health!Next]_<<attempts, readiness.ready[AUDIT_WRITER_COMPONENT]>>
    OBVIOUS
  <1>1. ASSUME NEW ok \in BOOLEAN, Write(ok)
        PROVE  Health!Attempt(ok)
    <2>1. DegradedIffTailFailed'
      BY IInvDegraded, PTL
    <2>2. readiness'.ready[AUDIT_WRITER_COMPONENT] <=> ~degraded'
      BY DEF IInv, ReadinessMirrorsWriter
    <2>3. readiness'.ready[AUDIT_WRITER_COMPONENT] = ~Health!TailFailed(attempts')
      <3>1. readiness'.ready[AUDIT_WRITER_COMPONENT] \in BOOLEAN
        BY DEF IInv, TypeOK, ReadinessMirrorsWriter, IsReadiness, Registered
      <3>2. degraded' <=> Health!TailFailed(attempts')
        BY <2>1 DEF DegradedIffTailFailed, Health!TailFailed
      <3>3. QED
        BY <2>2, <3>1, <3>2
    <2>4. QED
      BY <1>1, <2>3 DEF Write, Health!Attempt
  <1>2. CASE Next
    BY <1>1, <1>2 DEF Next, Health!Next
  <1>3. CASE UNCHANGED vars
    BY <1>3 DEF vars, writerVars
  <1>4. QED
    BY <1>2, <1>3

\* The counters, the flag and the readiness signalling implement the
\* specification of audit health over the history of writes.
THEOREM Refinement == Spec => ImplementsAuditHealth
  BY InitRefines, StepRefines, PipelineInvariant, PTL
  DEF Spec, ImplementsAuditHealth, Health!Spec
=============================================================================
