------------------------------ MODULE AppState ------------------------------
(***************************************************************************)
(* What the request handlers find on app.state, as booleans: whether each  *)
(* object lifespan publishes is there, and the two configuration switches  *)
(* the handlers read.  Startup shows that every app.state it leaves behind *)
(* is one of ServableApps; Gateway serves requests from each of them.      *)
(***************************************************************************)
Apps ==
    [config       : BOOLEAN,    \* app.state.config is set
     fail_closed  : BOOLEAN,    \* config.audit_fail_closed
     mtls         : BOOLEAN,    \* the producer trust mechanism is trusted-proxy mTLS
     writer       : BOOLEAN,    \* app.state.audit_writer is set
     auth         : BOOLEAN,    \* the verifier or trust config of the auth mode is set
     evaluator    : BOOLEAN,    \* app.state.evaluator is set
     oa_route     : BOOLEAN,    \* the operation-aware router is registered
     oa_evaluator : BOOLEAN]    \* app.state.operation_aware_evaluator is set

\* Whatever startup did or failed to do, an evaluator never comes without the
\* audit writer, and the operation-aware one never without its route.
ServableApps ==
    {a \in Apps :
       /\ ~a.config => a = [x \in DOMAIN a |-> FALSE]
       /\ a.evaluator => a.writer
       /\ a.oa_evaluator => a.writer /\ a.oa_route}
=============================================================================
