------------------------ MODULE ReadyEndpointProofs ------------------------
(***************************************************************************)
(* Proofs about GET /ready beside the audit writer, for any number of      *)
(* concurrent calls, any threshold and any number of writes.               *)
(*                                                                         *)
(* The inductive invariant follows each call: while it is in flight its    *)
(* window holds the current tracker, every tracker of a window is well     *)
(* kept, the status it decided has a witness in the window, and if the     *)
(* window is a single tracker then every part read so far is that          *)
(* tracker's.  The last part has to speak of any single tracker, not of    *)
(* the current one: after a call is done the tracker may change and change *)
(* back.                                                                   *)
(***************************************************************************)
EXTENDS ReadyEndpoint, AuditPipelineProofs, WellFoundedInduction

ReadSteps == {"idle", "components", "is_ready", "all_reasons", "reason", "done"}

\* A tracker as the writer may leave it: the audit writer registered, one entry
\* per component and a message for each component that is not ready.
Sound(rs) ==
    /\ IsReadiness(rs, Names)
    /\ WellKept(rs)
    /\ AUDIT_WRITER_COMPONENT \in Registered(rs)
    /\ \A c \in DOMAIN rs.reasons : rs.reasons[c] # NoReason

\* Calls have a step, a body and a window.
ProbeTypeOK ==
    /\ pc \in [Probes -> ReadSteps]
    /\ window = [p \in Probes |-> window[p]]
    /\ \A p \in Probes : \A rs \in window[p] : Sound(rs)
    /\ body = [p \in Probes |-> body[p]]
    /\ \A p \in Probes :
          body[p] = [status |-> body[p].status, components |-> body[p].components,
                     reasons |-> body[p].reasons, reason |-> body[p].reason]

\* A call in flight overlaps with the tracker of this instant.
SeesNow == \A p \in Probes : InFlight(p) => readiness \in window[p]

\* The status is undecided before is_ready is read and 503 on the way to the reasons.
StatusFollowsStep ==
    \A p \in Probes :
       /\ pc[p] \in {"idle", "components", "is_ready"} => body[p].status = 0
       /\ pc[p] \in {"all_reasons", "reason"} => body[p].status = 503

\* What a call has read is what the tracker rs answers.
AnswersOf(p, rs) ==
    /\ pc[p] \notin {"idle", "components"} => body[p].components = components(rs)
    /\ pc[p] \in {"reason", "done"} /\ body[p].status = 503 =>
          body[p].reasons = all_reasons(rs)
    /\ pc[p] = "done" /\ body[p].status = 503 =>
          body[p].reason = IF reason(rs) = NoReason THEN NOT_INITIALIZED ELSE reason(rs)

\* A call that met one tracker only has read all it has read from that one.
OneTrackerAnswers ==
    \A p \in Probes : \A rs \in window[p] : window[p] = {rs} => AnswersOf(p, rs)

ReadyInv ==
    /\ IInv
    /\ Sound(readiness)
    /\ ProbeTypeOK
    /\ SeesNow
    /\ StatusFollowsStep
    /\ StatusTrueAtSomeInstant
    /\ OneTrackerAnswers

-----------------------------------------------------------------------------
\* No probe is under way.
LEMMA InitReadyInv == InitReady => ReadyInv
  <1> SUFFICES ASSUME InitReady PROVE ReadyInv
    OBVIOUS
  <1>1. IInv
    BY InitIInv DEF InitReady
  <1>2. Sound(readiness)
    BY StartupAssumption, ReasonsAssumption
    DEF InitReady, Init, InitWriter, Sound, AUDIT_WRITER_COMPONENT, NoReason
  <1>3. ProbeTypeOK
    BY DEF InitReady, ProbeTypeOK, ReadSteps, NoBody
  <1>4. SeesNow /\ StatusFollowsStep
    BY DEF InitReady, SeesNow, StatusFollowsStep, InFlight, NoBody
  <1>5. StatusTrueAtSomeInstant /\ OneTrackerAnswers
    BY DEF InitReady, StatusTrueAtSomeInstant, OneTrackerAnswers, NoBody
  <1>6. QED
    BY <1>1, <1>2, <1>3, <1>4, <1>5 DEF ReadyInv

\* A write leaves a sound tracker: it adds no reason but the threshold's.
LEMMA WriteSound ==
  ASSUME IInv, Sound(readiness), NEW ok \in BOOLEAN, Write(ok)
  PROVE  Sound(readiness')
  <1>1. IInv'
    BY WriteIInv
  <1>2. /\ IsReadiness(readiness', Names)
        /\ WellKept(readiness')
        /\ AUDIT_WRITER_COMPONENT \in Registered(readiness')
    BY <1>1 DEF IInv, TypeOK, ReadinessWellKept, ReadinessMirrorsWriter
  <1>3. \/ readiness' = readiness
        \/ readiness' = mark_ready(readiness, AUDIT_WRITER_COMPONENT)
        \/ readiness' = mark_not_ready(readiness, ThresholdReason, AUDIT_WRITER_COMPONENT)
    BY DEF Write, write, SuccessfulWrite, FailedWrite
  <1>4. ThresholdReason # NoReason
    BY DEF ThresholdReason, NoReason
  <1>5. \A c \in DOMAIN readiness'.reasons : readiness'.reasons[c] # NoReason
    <2> DEFINE r == readiness.reasons
    <2>1. \A c \in DOMAIN r : r[c] # NoReason
      BY DEF Sound
    <2>2. \/ readiness'.reasons = r
          \/ readiness'.reasons = Restrict(r, DOMAIN r \ {AUDIT_WRITER_COMPONENT})
          \/ readiness'.reasons = Put(r, AUDIT_WRITER_COMPONENT, ThresholdReason)
      <3>1. mark_ready(readiness, AUDIT_WRITER_COMPONENT).reasons
              = Restrict(r, DOMAIN r \ {AUDIT_WRITER_COMPONENT})
        BY DEF mark_ready
      <3>2. mark_not_ready(readiness, ThresholdReason, AUDIT_WRITER_COMPONENT).reasons
              = Put(r, AUDIT_WRITER_COMPONENT, ThresholdReason)
        BY DEF mark_not_ready
      <3>3. QED
        BY <1>3, <3>1, <3>2
    <2> HIDE DEF r
    <2>3. QED
      BY <1>4, <2>1, <2>2 DEF Put, Restrict
  <1>6. QED
    BY <1>2, <1>5 DEF Sound

\* A write beside the calls: windows grow by the tracker it leaves behind.
LEMMA WriteReadyInv ==
  ASSUME ReadyInv, NEW ok \in BOOLEAN, WriteBeside(ok)
  PROVE  ReadyInv'
  <1>1. IInv' /\ Sound(readiness')
    BY WriteIInv, WriteSound DEF ReadyInv, WriteBeside
  <1>2. UNCHANGED <<pc, body>>
    BY DEF WriteBeside
  <1>3. \A p \in Probes :
           window'[p] = IF InFlight(p) THEN window[p] \cup {readiness'} ELSE window[p]
    BY DEF WriteBeside, Overlap
  <1>4. ProbeTypeOK'
    BY <1>1, <1>2, <1>3 DEF ReadyInv, ProbeTypeOK, WriteBeside, Overlap
  <1>5. SeesNow'
    BY <1>2, <1>3 DEF SeesNow, InFlight
  <1>6. StatusFollowsStep'
    BY <1>2 DEF ReadyInv, StatusFollowsStep
  <1>7. StatusTrueAtSomeInstant'
    BY <1>2, <1>3 DEF ReadyInv, StatusTrueAtSomeInstant
  <1>8. OneTrackerAnswers'
    <2> SUFFICES ASSUME NEW p \in Probes, NEW rs \in window'[p], window'[p] = {rs}
                 PROVE  AnswersOf(p, rs)'
      BY DEF OneTrackerAnswers
    <2>1. window[p] = {rs}
      BY <1>3 DEF ReadyInv, SeesNow
    <2>2. AnswersOf(p, rs)
      BY <2>1 DEF ReadyInv, OneTrackerAnswers
    <2>3. QED
      BY <1>2, <2>2 DEF AnswersOf
  <1>9. QED
    BY <1>1, <1>4, <1>5, <1>6, <1>7, <1>8 DEF ReadyInv

\* The writer's state and the tracker are out of a call's reach.
LEMMA ReadsOnly ==
  ASSUME ReadyInv, UNCHANGED vars
  PROVE  IInv' /\ Sound(readiness)'
  BY NextIInv DEF ReadyInv, vars, writerVars, Sound

\* /ready is called.
LEMMA ProbeReadyInv ==
  ASSUME ReadyInv, NEW q \in Probes, Probe(q)
  PROVE  ReadyInv'
  <1>1. IInv' /\ Sound(readiness)' /\ readiness' = readiness
    BY ReadsOnly DEF Probe, vars, writerVars
  <1>2. /\ pc[q] = "idle"
        /\ body' = body
        /\ \A p \in Probes : pc'[p] = IF p = q THEN "components" ELSE pc[p]
        /\ \A p \in Probes : window'[p] = IF p = q THEN {readiness} ELSE window[p]
    BY DEF Probe, ReadyInv, ProbeTypeOK
  <1>3. ProbeTypeOK'
    BY <1>2 DEF Probe, ReadyInv, ProbeTypeOK, ReadSteps
  <1>4. SeesNow'
    BY <1>1, <1>2 DEF ReadyInv, SeesNow, InFlight
  <1>5. StatusFollowsStep'
    BY <1>2 DEF ReadyInv, StatusFollowsStep
  <1>6. StatusTrueAtSomeInstant'
    BY <1>2 DEF ReadyInv, StatusTrueAtSomeInstant, StatusFollowsStep
  <1>7. OneTrackerAnswers'
    BY <1>2 DEF ReadyInv, OneTrackerAnswers, AnswersOf
  <1>8. QED
    BY <1>1, <1>3, <1>4, <1>5, <1>6, <1>7 DEF ReadyInv

\* The components are copied.
LEMMA ReadComponentsReadyInv ==
  ASSUME ReadyInv, NEW q \in Probes, ReadComponents(q)
  PROVE  ReadyInv'
  <1>1. IInv' /\ Sound(readiness)' /\ readiness' = readiness /\ window' = window
    BY ReadsOnly DEF ReadComponents, vars, writerVars
  <1>2. /\ pc[q] = "components"
        /\ \A p \in Probes : pc'[p] = IF p = q THEN "is_ready" ELSE pc[p]
        /\ \A p \in Probes : p # q => body'[p] = body[p]
        /\ body'[q].components = components(readiness)
        /\ body'[q].status = body[q].status
    BY DEF ReadComponents, ReadyInv, ProbeTypeOK
  <1>3. ProbeTypeOK'
    BY <1>1, <1>2 DEF ReadComponents, ReadyInv, ProbeTypeOK, ReadSteps
  <1>4. SeesNow'
    BY <1>1, <1>2 DEF ReadyInv, SeesNow, InFlight
  <1>5. StatusFollowsStep'
    BY <1>2 DEF ReadyInv, StatusFollowsStep
  <1>6. StatusTrueAtSomeInstant'
    BY <1>1, <1>2 DEF ReadyInv, StatusTrueAtSomeInstant
  <1>7. OneTrackerAnswers'
    BY <1>1, <1>2 DEF ReadyInv, OneTrackerAnswers, AnswersOf, SeesNow, InFlight
  <1>8. QED
    BY <1>1, <1>3, <1>4, <1>5, <1>6, <1>7 DEF ReadyInv

\* The status is decided on the tracker of this instant, which is in the window.
LEMMA ReadIsReadyReadyInv ==
  ASSUME ReadyInv, NEW q \in Probes, ReadIsReady(q)
  PROVE  ReadyInv'
  <1>1. IInv' /\ Sound(readiness)' /\ readiness' = readiness /\ window' = window
    BY ReadsOnly DEF ReadIsReady, vars, writerVars
  <1>2. /\ pc[q] = "is_ready"
        /\ \A p \in Probes : p # q => body'[p] = body[p] /\ pc'[p] = pc[p]
        /\ body'[q].components = body[q].components
        /\ IF is_ready(readiness) THEN pc'[q] = "done" /\ body'[q].status = 200
                                  ELSE pc'[q] = "all_reasons" /\ body'[q].status = 503
    BY DEF ReadIsReady, ReadyInv, ProbeTypeOK
  <1>3. ProbeTypeOK'
    BY <1>1, <1>2 DEF ReadIsReady, ReadyInv, ProbeTypeOK, ReadSteps
  <1>4. SeesNow'
    BY <1>1, <1>2 DEF ReadyInv, SeesNow, InFlight
  <1>5. StatusFollowsStep'
    BY <1>2 DEF ReadyInv, StatusFollowsStep
  <1>6. StatusTrueAtSomeInstant'
    BY <1>1, <1>2 DEF ReadyInv, StatusTrueAtSomeInstant, SeesNow, InFlight
  <1>7. OneTrackerAnswers'
    BY <1>1, <1>2 DEF ReadyInv, OneTrackerAnswers, AnswersOf
  <1>8. QED
    BY <1>1, <1>3, <1>4, <1>5, <1>6, <1>7 DEF ReadyInv

\* The reasons are copied.
LEMMA ReadAllReasonsReadyInv ==
  ASSUME ReadyInv, NEW q \in Probes, ReadAllReasons(q)
  PROVE  ReadyInv'
  <1>1. IInv' /\ Sound(readiness)' /\ readiness' = readiness /\ window' = window
    BY ReadsOnly DEF ReadAllReasons, vars, writerVars
  <1>2. /\ pc[q] = "all_reasons"
        /\ \A p \in Probes : pc'[p] = IF p = q THEN "reason" ELSE pc[p]
        /\ \A p \in Probes : p # q => body'[p] = body[p]
        /\ body'[q].components = body[q].components
        /\ body'[q].status = body[q].status
        /\ body'[q].reasons = all_reasons(readiness)
    BY DEF ReadAllReasons, ReadyInv, ProbeTypeOK
  <1>3. ProbeTypeOK'
    BY <1>1, <1>2 DEF ReadAllReasons, ReadyInv, ProbeTypeOK, ReadSteps
  <1>4. SeesNow'
    BY <1>1, <1>2 DEF ReadyInv, SeesNow, InFlight
  <1>5. StatusFollowsStep'
    BY <1>2 DEF ReadyInv, StatusFollowsStep
  <1>6. StatusTrueAtSomeInstant'
    BY <1>1, <1>2 DEF ReadyInv, StatusTrueAtSomeInstant
  <1>7. OneTrackerAnswers'
    BY <1>1, <1>2 DEF ReadyInv, OneTrackerAnswers, AnswersOf, SeesNow, InFlight
  <1>8. QED
    BY <1>1, <1>3, <1>4, <1>5, <1>6, <1>7 DEF ReadyInv

\* The one reason is read.
LEMMA ReadReasonReadyInv ==
  ASSUME ReadyInv, NEW q \in Probes, ReadReason(q)
  PROVE  ReadyInv'
  <1>1. IInv' /\ Sound(readiness)' /\ readiness' = readiness /\ window' = window
    BY ReadsOnly DEF ReadReason, vars, writerVars
  <1>2. /\ pc[q] = "reason"
        /\ \A p \in Probes : pc'[p] = IF p = q THEN "done" ELSE pc[p]
        /\ \A p \in Probes : p # q => body'[p] = body[p]
        /\ body'[q].components = body[q].components
        /\ body'[q].status = body[q].status
        /\ body'[q].reasons = body[q].reasons
        /\ body'[q].reason = IF reason(readiness) = NoReason THEN NOT_INITIALIZED
                             ELSE reason(readiness)
    BY DEF ReadReason, ReadyInv, ProbeTypeOK
  <1>3. ProbeTypeOK'
    BY <1>1, <1>2 DEF ReadReason, ReadyInv, ProbeTypeOK, ReadSteps
  <1>4. SeesNow'
    BY <1>1, <1>2 DEF ReadyInv, SeesNow, InFlight
  <1>5. StatusFollowsStep'
    BY <1>2 DEF ReadyInv, StatusFollowsStep
  <1>6. StatusTrueAtSomeInstant'
    BY <1>1, <1>2 DEF ReadyInv, StatusTrueAtSomeInstant
  <1>7. OneTrackerAnswers'
    BY <1>1, <1>2 DEF ReadyInv, OneTrackerAnswers, AnswersOf, SeesNow, InFlight
  <1>8. QED
    BY <1>1, <1>3, <1>4, <1>5, <1>6, <1>7 DEF ReadyInv

\* Every step keeps the invariant.
LEMMA NextReadyInv == ReadyInv /\ [NextReady]_readyVars => ReadyInv'
  <1> SUFFICES ASSUME ReadyInv, [NextReady]_readyVars PROVE ReadyInv'
    OBVIOUS
  <1>1. ASSUME NEW ok \in BOOLEAN, WriteBeside(ok) PROVE ReadyInv'
    BY <1>1, WriteReadyInv
  <1>2. ASSUME NEW p \in Probes, ProbeStep(p) PROVE ReadyInv'
    BY <1>2, ProbeReadyInv, ReadComponentsReadyInv, ReadIsReadyReadyInv,
       ReadAllReasonsReadyInv, ReadReasonReadyInv DEF ProbeStep
  <1>3. CASE UNCHANGED readyVars
    <2>1. IInv' /\ Sound(readiness)' /\ readiness' = readiness
      BY <1>3, ReadsOnly DEF readyVars, vars, writerVars
    <2>2. QED
      BY <1>3, <2>1
      DEF readyVars, ReadyInv, ProbeTypeOK, SeesNow, InFlight, StatusFollowsStep,
          StatusTrueAtSomeInstant, OneTrackerAnswers, AnswersOf
  <1>4. QED
    BY <1>1, <1>2, <1>3 DEF NextReady

\* The inductive invariant of /ready beside the writer.
THEOREM ReadyInvariant == SpecReady => []ReadyInv
  BY InitReadyInv, NextReadyInv, PTL DEF SpecReady

\* Whatever writes fall between the reads of a call of /ready, the status it
\* answers was the truth at some instant of the call.
THEOREM StatusLinearizable == SpecReady => []StatusTrueAtSomeInstant
  <1>1. ReadyInv => StatusTrueAtSomeInstant
    BY DEF ReadyInv
  <1>2. QED
    BY <1>1, ReadyInvariant, PTL

-----------------------------------------------------------------------------
\* A nonempty set of naturals has a least element.
LEMMA LeastNat ==
  ASSUME NEW T, T \subseteq Nat, T # {}
  PROVE  \E n \in T : \A m \in T : n <= m
  <1>1. \E n \in T : \A m \in T : ~(<<m, n>> \in OpToRel(<, Nat))
    BY NatLessThanWellFounded, WFMin
  <1>2. PICK n \in T : \A m \in T : ~(<<m, n>> \in OpToRel(<, Nat))
    BY <1>1
  <1>3. ASSUME NEW m \in T, m < n PROVE FALSE
    <2>1. <<m, n>> \in Nat \X Nat /\ <<m, n>>[1] < <<m, n>>[2]
      BY <1>3
    <2>2. <<m, n>> \in OpToRel(<, Nat)
      BY <2>1, Zenon DEF OpToRel
    <2>3. QED
      BY <1>2, <2>2
  <1>4. \A m \in T : n <= m
    BY <1>3
  <1>5. QED
    BY <1>4

\* The position of the first component that is not ready, in insertion order.
FirstFailing(rs) ==
    CHOOSE i \in DOMAIN rs.order :
       /\ ~rs.ready[rs.order[i]]
       /\ \A j \in 1..(i - 1) : rs.ready[rs.order[j]]

\* reason() of a sound tracker that is not ready is the message kept for the
\* first failing component, and is never the empty string.
LEMMA ReasonOfFirst ==
  ASSUME NEW rs, Sound(rs), ~is_ready(rs)
  PROVE  reason(rs) = rs.reasons[rs.order[FirstFailing(rs)]] /\ reason(rs) # NoReason
  <1> DEFINE failing == {i \in 1..Len(rs.order) : ~rs.ready[rs.order[i]]}
  <1>1. rs.order \in Seq(Names) /\ Len(rs.order) \in Nat
        /\ DOMAIN rs.order = 1..Len(rs.order)
    BY DEF Sound, IsReadiness
  <1>2. NotReady(rs) # {}
    BY DEF Sound, is_ready
  <1>3. failing # {}
    BY <1>2 DEF NotReady, Sound, WellKept
  <1>4. PICK i \in failing : \A j \in failing : i <= j
    <2>1. failing \subseteq Nat
      BY <1>1
    <2> HIDE DEF failing
    <2>2. QED
      BY <1>3, <2>1, LeastNat
  <1>5. (CHOOSE k \in failing : \A j \in failing : k <= j) = i
    <2>1. \A k \in failing : (\A j \in failing : k <= j) => k = i
      BY <1>1, <1>4
    <2>2. QED
      BY <1>4, <2>1
  <1>6. FirstFailing(rs) = i
    <2>1. /\ i \in DOMAIN rs.order
          /\ ~rs.ready[rs.order[i]]
          /\ \A j \in 1..(i - 1) : rs.ready[rs.order[j]]
      BY <1>1, <1>4
    <2>2. ASSUME NEW k \in DOMAIN rs.order, ~rs.ready[rs.order[k]],
                 \A j \in 1..(k - 1) : rs.ready[rs.order[j]]
          PROVE  k = i
      BY <1>1, <1>4, <2>1, <2>2
    <2>3. QED
      BY <2>1, <2>2 DEF FirstFailing
  <1>7. rs.order[i] \in NotReady(rs)
    BY <1>4 DEF Sound, WellKept, NotReady
  <1>8. rs.order[i] \in DOMAIN rs.reasons
    BY <1>7 DEF Sound, WellKept
  <1>9. reason(rs) = ReasonOf(rs, rs.order[i])
    BY <1>3, <1>5 DEF reason
  <1>10. reason(rs) = rs.reasons[rs.order[i]] /\ rs.reasons[rs.order[i]] # NoReason
    BY <1>8, <1>9 DEF ReasonOf, Sound
  <1>11. QED
    BY <1>6, <1>10

\* A call of /ready that no write overlaps with answers from one tracker: its
\* components, its reasons and the first failing component's reason.
THEOREM QuietProbe == SpecReady => []QuietProbeCoherent
  <1>1. ReadyInv => QuietProbeCoherent
    <2> SUFFICES ASSUME ReadyInv, NEW p \in Probes, pc[p] = "done", window[p] = {readiness}
                 PROVE  /\ body[p].components = components(readiness)
                        /\ body[p].status = 503 =>
                              /\ DOMAIN body[p].reasons = NotReady(readiness)
                              /\ body[p].reason =
                                    readiness.reasons[readiness.order[FirstFailing(readiness)]]
      BY DEF QuietProbeCoherent, FirstFailing
    <2>1. AnswersOf(p, readiness) /\ Sound(readiness)
      BY DEF ReadyInv, OneTrackerAnswers
    <2>2. body[p].components = components(readiness)
      BY <2>1 DEF AnswersOf
    <2>3. ASSUME body[p].status = 503
          PROVE  /\ DOMAIN body[p].reasons = NotReady(readiness)
                 /\ body[p].reason =
                       readiness.reasons[readiness.order[FirstFailing(readiness)]]
      <3>1. ~is_ready(readiness)
        BY <2>3 DEF ReadyInv, StatusTrueAtSomeInstant
      <3>2. /\ body[p].reasons = all_reasons(readiness)
            /\ body[p].reason = IF reason(readiness) = NoReason THEN NOT_INITIALIZED
                                ELSE reason(readiness)
        BY <2>1, <2>3 DEF AnswersOf
      <3>3. DOMAIN body[p].reasons = NotReady(readiness)
        BY <3>2 DEF all_reasons
      <3>4. QED
        BY <2>1, <3>1, <3>2, <3>3, ReasonOfFirst
    <2>4. QED
      BY <2>2, <2>3
  <1>2. QED
    BY <1>1, ReadyInvariant, PTL

\* Calls of /ready leave the audit writer alone: with any number of them beside
\* it, it is the writer of AuditPipeline, so its counters stay exact and it goes
\* on implementing the history-only specification of audit health.
THEOREM ProbesLeaveWriter ==
  SpecReady => [](CountersExact /\ DegradedIffTailFailed) /\ ImplementsAuditHealth
  <1>1. InitReady => Init
    BY DEF InitReady
  <1>2. [NextReady]_readyVars => [Next]_vars
    <2> SUFFICES ASSUME [NextReady]_readyVars PROVE [Next]_vars
      OBVIOUS
    <2>1. ASSUME NEW ok \in BOOLEAN, WriteBeside(ok) PROVE Next
      BY <2>1 DEF WriteBeside, Next
    <2>2. ASSUME NEW p \in Probes, ProbeStep(p) PROVE UNCHANGED vars
      BY <2>2 DEF ProbeStep, Probe, ReadComponents, ReadIsReady, ReadAllReasons, ReadReason
    <2>3. QED
      BY <2>1, <2>2 DEF NextReady, readyVars
  <1>3. SpecReady => Spec
    BY <1>1, <1>2, PTL DEF SpecReady, Spec
  <1>4. QED
    BY <1>3, Counters, DegradedExactly, Refinement, PTL
=============================================================================
