----------------------------- MODULE MCGateway -----------------------------
(* Gateway for TLC.                                                        *)
EXTENDS Gateway, TLC

MCNames == {"configuration_loaded", "audit_writer"}

\* Startup finished: everything ready.
MCStartupTrackers ==
    {mark_ready(mark_ready(EmptyReadiness, "configuration_loaded"), "audit_writer")}

\* A gateway whose startup succeeded: both endpoints served, with and
\* without strict mode and producer mTLS.
FullApps ==
    {a \in ServableApps : a.config /\ a.writer /\ a.auth /\ a.evaluator /\ a.oa_evaluator}

\* The same in strict mode, without producer mTLS.
StrictApps == {a \in FullApps : a.fail_closed /\ ~a.mtls}

Slots == Permutations(Requests)
=============================================================================
