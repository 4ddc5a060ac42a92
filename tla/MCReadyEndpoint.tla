-------------------------- MODULE MCReadyEndpoint --------------------------
(* ReadyEndpoint for TLC, from a tracker startup left ready and from one   *)
(* with a component that stays not ready behind the audit writer's.        *)
EXTENDS ReadyEndpoint

MCNames == {"configuration_loaded", "audit_writer", "policy_loaded"}

\* Startup finished: everything ready.
Started == mark_ready(mark_ready(EmptyReadiness, "configuration_loaded"), "audit_writer")

\* Startup stopped at policy loading, behind the audit writer.
PolicyFailed == mark_not_ready(Started, "policy failed", "policy_loaded")

MCStartupTrackers == {Started, PolicyFailed}
=============================================================================
