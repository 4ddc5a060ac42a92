--------------------------- MODULE ReadyEndpoint ---------------------------
(***************************************************************************)
(* GET /ready (api/routes.py) beside the audit writer of AuditPipeline.    *)
(*                                                                         *)
(* ready() is a plain def, so every call runs on a thread of the server's  *)
(* pool while the event loop goes on writing audit events.  It reads the   *)
(* tracker in up to four properties, each of which takes the lock on its   *)
(* own: components, is_ready and, if not ready, all_reasons and reason.    *)
(* Each read is a step, and writes fall between them.                      *)
(***************************************************************************)
EXTENDS AuditPipeline

CONSTANT Probes \* concurrent calls of /ready

\* The reasons startup leaves behind are messages: an empty one would be taken
\* for no reason at all by state.reason or "application not initialized".
ASSUME ReasonsAssumption ==
    \A rs \in StartupTrackers : \A c \in DOMAIN rs.reasons : rs.reasons[c] # ""

VARIABLES
    pc,         \* the next read of each call
    body,       \* the answer each call is putting together
    window      \* history: the trackers each call has overlapped with

readyVars == <<vars, pc, body, window>>

NOT_INITIALIZED == "application not initialized"

NoBody == [status |-> 0, components |-> <<>>, reasons |-> <<>>, reason |-> NoReason]

InitReady ==
    /\ Init
    /\ pc = [p \in Probes |-> "idle"]
    /\ body = [p \in Probes |-> NoBody]
    /\ window = [p \in Probes |-> {}]

InFlight(p) == pc[p] \notin {"idle", "done"}

\* Every call in flight overlaps with the tracker a step leaves behind.
Overlap ==
    window' = [p \in Probes |-> IF InFlight(p) THEN window[p] \cup {readiness'} ELSE window[p]]

WriteBeside(ok) ==
    /\ Write(ok)
    /\ Overlap
    /\ UNCHANGED <<pc, body>>

-----------------------------------------------------------------------------
\* A call arrives on a pool thread.
Probe(p) ==
    /\ pc[p] = "idle"
    /\ pc' = [pc EXCEPT ![p] = "components"]
    /\ window' = [window EXCEPT ![p] = {readiness}]
    /\ UNCHANGED <<vars, body>>

ReadComponents(p) ==
    /\ pc[p] = "components"
    /\ body' = [body EXCEPT ![p].components = components(readiness)]
    /\ pc' = [pc EXCEPT ![p] = "is_ready"]
    /\ UNCHANGED <<vars, window>>

\* Answers from the earlier snapshot, and takes any ready component for all.
ReadIsReadyAny(p) ==
    /\ pc[p] = "is_ready"
    /\ IF \E c \in DOMAIN body[p].components : body[p].components[c]
       THEN /\ body' = [body EXCEPT ![p].status = 200]
            /\ pc' = [pc EXCEPT ![p] = "done"]
       ELSE /\ body' = [body EXCEPT ![p].status = 503]
            /\ pc' = [pc EXCEPT ![p] = "all_reasons"]
    /\ UNCHANGED <<vars, window>>

\* The status code is decided here, and the 200 body is complete.
ReadIsReady(p) ==
    /\ pc[p] = "is_ready"
    /\ IF is_ready(readiness)
       THEN /\ body' = [body EXCEPT ![p].status = 200]
            /\ pc' = [pc EXCEPT ![p] = "done"]
       ELSE /\ body' = [body EXCEPT ![p].status = 503]
            /\ pc' = [pc EXCEPT ![p] = "all_reasons"]
    /\ UNCHANGED <<vars, window>>

ReadAllReasons(p) ==
    /\ pc[p] = "all_reasons"
    /\ body' = [body EXCEPT ![p].reasons = all_reasons(readiness)]
    /\ pc' = [pc EXCEPT ![p] = "reason"]
    /\ UNCHANGED <<vars, window>>

\* Takes the most recently registered failure instead of the first.
ReadReasonLast(p) ==
    /\ pc[p] = "reason"
    /\ LET failing == {i \in DOMAIN readiness.order : ~readiness.ready[readiness.order[i]]}
           last == CHOOSE i \in failing : \A j \in failing : j <= i
       IN  body' = [body EXCEPT ![p].reason =
                      IF failing = {} THEN NOT_INITIALIZED
                      ELSE ReasonOf(readiness, readiness.order[last])]
    /\ pc' = [pc EXCEPT ![p] = "done"]
    /\ UNCHANGED <<vars, window>>

\* state.reason or "application not initialized"
ReadReason(p) ==
    /\ pc[p] = "reason"
    /\ body' = [body EXCEPT ![p].reason =
                  IF reason(readiness) = NoReason THEN NOT_INITIALIZED
                  ELSE reason(readiness)]
    /\ pc' = [pc EXCEPT ![p] = "done"]
    /\ UNCHANGED <<vars, window>>

ProbeStep(p) ==
    Probe(p) \/ ReadComponents(p) \/ ReadIsReady(p) \/ ReadAllReasons(p) \/ ReadReason(p)

NextReady ==
    \/ \E ok \in BOOLEAN : WriteBeside(ok)
    \/ \E p \in Probes : ProbeStep(p)

SpecReady == InitReady /\ [][NextReady]_readyVars

-----------------------------------------------------------------------------
\* The status code is linearizable: whatever falls between the reads, 200 is
\* answered only if the service was ready at some instant of the call, and 503
\* only if it was not ready at some instant of the call.
StatusTrueAtSomeInstant ==
    \A p \in Probes :
       /\ body[p].status = 200 => \E rs \in window[p] : is_ready(rs)
       /\ body[p].status = 503 => \E rs \in window[p] : ~is_ready(rs)

\* A call no write overlaps with answers coherently: the components, the
\* reasons and the first failing component's reason are those of one tracker.
QuietProbeCoherent ==
    \A p \in Probes :
       pc[p] = "done" /\ window[p] = {readiness} =>
          /\ body[p].components = components(readiness)
          /\ body[p].status = 503 =>
                /\ DOMAIN body[p].reasons = NotReady(readiness)
                /\ body[p].reason = readiness.reasons[
                      readiness.order[CHOOSE i \in DOMAIN readiness.order :
                         /\ ~readiness.ready[readiness.order[i]]
                         /\ \A j \in 1..(i - 1) : readiness.ready[readiness.order[j]]]]
=============================================================================
