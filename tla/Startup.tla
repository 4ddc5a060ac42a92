------------------------------ MODULE Startup ------------------------------
(***************************************************************************)
(* The lifespan of the application (main.py): the fixed sequence of        *)
(* startup stages, each of which may raise; the handler that catches what  *)
(* they raise and serves all the same; shutdown; and re-entry of the       *)
(* lifespan in the same process.                                           *)
(*                                                                         *)
(* stage is the next block of lifespan to run.  What a stage finds outside *)
(* the process (issuer, JWKS endpoint, policy files, kernel) is a free     *)
(* choice among the outcomes the code tells apart: success, the failures   *)
(* it catches and attributes to a readiness component, and an exception    *)
(* none of its except clauses names.                                       *)
(***************************************************************************)
EXTENDS Readiness, AppState

CONSTANT MaxStarts      \* bound: how often the lifespan is entered

ASSUME MaxStartsAssumption == MaxStarts \in Nat \ {0}

VARIABLES
    stage,      \* the block of lifespan that runs next
    config,     \* the process environment, as load_config will see it
    readiness,  \* the process-wide ReadinessState
    app,        \* app.state
    starts,     \* how often the lifespan was entered
    failure     \* history: the component this startup's exception belongs to

vars == <<stage, config, readiness, app, starts, failure>>

\* GatewayConfig, as far as startup tells configurations apart.
Configs ==
    [valid       : BOOLEAN,                     \* load_config does not raise
     auth_mode   : {"oidc", "basis_local_token"},
     oidc_issuer : {"unset", "empty", "set"},   \* None, "" and a URL
     jwks_uri    : BOOLEAN,                     \* oidc_jwks_uri overrides discovery
     local       : BOOLEAN,                     \* the BASIS_LOCAL_TOKEN_* trio is set
     policy_path : BOOLEAN,
     oa_enabled  : BOOLEAN,                     \* operation_aware_enabled
     bundle_path : BOOLEAN,                     \* operation_aware_policy_bundle_path
     fail_closed : BOOLEAN,
     mtls        : BOOLEAN]

OAFallible ==
    <<"operation_aware_bundle_loaded", "operation_aware_evaluator_initialized",
      "operation_aware_policy_semantically_valid">>

Components ==
    {"app", "configuration_loaded", "audit_writer", "oidc_configured", "jwks_available",
     "basis_local_token_configured", "policy_loaded", "evaluator_initialized",
     "operation_aware_mode_enabled"} \cup {OAFallible[i] : i \in 1..3}

NoApp == [x \in {"config", "fail_closed", "mtls", "writer", "auth", "evaluator",
                 "oa_route", "oa_evaluator"} |-> FALSE]

Init ==
    /\ stage = "load"
    /\ config \in Configs
    /\ readiness = EmptyReadiness
    /\ app = NoApp
    /\ starts = 1
    /\ failure = "none"

-----------------------------------------------------------------------------
(* How a stage ends.                                                       *)

Proceed(next) == stage' = next /\ UNCHANGED <<config, starts, failure>>

\* raise, after marking the component the failure is attributed to.
Fail(component) ==
    /\ stage' = "except"
    /\ failure' = component
    /\ readiness' = mark_not_ready(readiness, "failed", component)
    /\ UNCHANGED <<config, starts>>

\* An exception that passes every except clause of the stage.
Escape ==
    /\ stage' = "except"
    /\ failure' = "unattributed"
    /\ UNCHANGED <<config, starts, readiness>>

-----------------------------------------------------------------------------
(* The stages of lifespan, in the order of its numbered blocks.            *)

\* 1. load_config, and app.state cleared.
LoadConfig ==
    /\ stage = "load"
    /\ \/ /\ config.valid
          /\ app' = [NoApp EXCEPT !.config = TRUE, !.fail_closed = config.fail_closed,
                                  !.mtls = config.mtls, !.oa_route = app.oa_route]
          /\ readiness' = mark_ready(readiness, "configuration_loaded")
          /\ Proceed("route")
       \/ ~config.valid /\ Escape /\ UNCHANGED app

\* 1a. The operation-aware router, once per application.
RegisterRouter ==
    /\ stage = "route"
    /\ app' = [app EXCEPT !.oa_route = @ \/ config.oa_enabled]
    /\ Proceed("writer")
    /\ UNCHANGED readiness

\* Builds the writer for the v0.1 path only.
BuildWriterForPolicy ==
    /\ stage = "writer"
    /\ IF config.policy_path
       THEN /\ app' = [app EXCEPT !.writer = TRUE]
            /\ readiness' = mark_ready(readiness, "audit_writer")
       ELSE UNCHANGED <<app, readiness>>
    /\ Proceed("pending")

\* 1b. The writer both endpoints share, before anything can fail.
BuildWriter ==
    /\ stage = "writer"
    /\ IF config.policy_path \/ config.oa_enabled
       THEN /\ app' = [app EXCEPT !.writer = TRUE]
            /\ readiness' = mark_ready(readiness, "audit_writer")
       ELSE UNCHANGED <<app, readiness>>
    /\ Proceed("pending")

Pending(rs, component) == mark_not_ready(rs, "pending", component)

\* Registers the mode only: the three fallible components appear when reached.
RegisterModeOnly ==
    /\ stage = "pending"
    /\ readiness' = IF config.oa_enabled
                    THEN mark_ready(readiness, "operation_aware_mode_enabled")
                    ELSE readiness
    /\ Proceed("validate")
    /\ UNCHANGED app

\* 1c. The operation-aware components: the mode ready, the others pending.
RegisterOperationAware ==
    /\ stage = "pending"
    /\ readiness' =
          IF config.oa_enabled
          THEN mark_ready(Pending(Pending(Pending(readiness, OAFallible[1]), OAFallible[2]),
                                  OAFallible[3]), "operation_aware_mode_enabled")
          ELSE readiness
    /\ Proceed("validate")
    /\ UNCHANGED app

\* What validate_evaluation_config requires.
EvaluationConfigComplete ==
    IF config.auth_mode = "basis_local_token"
    THEN config.local /\ config.policy_path
    ELSE config.oidc_issuer # "unset" => config.policy_path

\* 2. Fail early on an incomplete configuration.
ValidateConfig ==
    /\ stage = "validate"
    /\ IF EvaluationConfigComplete
       THEN Proceed("auth") /\ UNCHANGED readiness
       ELSE Fail("configuration_loaded")
    /\ UNCHANGED app

\* _discover_jwks_uri: the issuer's document is fetched and checked, unless the
\* JWKS URI is configured.  A document that is JSON but no object raises
\* AttributeError, which is no OIDCDiscoveryError.
discover_jwks_uri ==
    IF config.jwks_uri THEN {"ok"} ELSE {"ok", "OIDCDiscoveryError", "other"}

\* OIDCVerifier.initialize: discovery, then a first fetch that wraps everything.
initialize == discover_jwks_uri \cup {"JWKSFetchError"}

\* 3. OIDC.  An empty issuer counts as none.
InitializeOIDC ==
    /\ stage = "auth" /\ config.auth_mode = "oidc"
    /\ \/ /\ config.oidc_issuer # "set"
          /\ Proceed("policy")
          /\ UNCHANGED <<readiness, app>>
       \/ /\ config.oidc_issuer = "set" /\ "ok" \in initialize
          /\ app' = [app EXCEPT !.auth = TRUE]
          /\ readiness' = mark_ready(mark_ready(readiness, "oidc_configured"),
                                     "jwks_available")
          /\ Proceed("policy")
       \/ /\ config.oidc_issuer = "set"
          /\ \/ "OIDCDiscoveryError" \in initialize /\ Fail("oidc_configured")
             \/ "JWKSFetchError" \in initialize /\ Fail("jwks_available")
             \/ "other" \in initialize /\ Escape
          /\ UNCHANGED app

\* Malformed JSON, no keys, a rejected algorithm or key: all are configuration
\* errors the stage catches.
build_basis_local_token_trust_config == {"ok", "config error"}

\* 3. BASIS-local tokens: the trust configuration is built from the environment.
InitializeBasisLocal ==
    /\ stage = "auth" /\ config.auth_mode = "basis_local_token"
    /\ \/ /\ "ok" \in build_basis_local_token_trust_config
          /\ app' = [app EXCEPT !.auth = TRUE]
          /\ readiness' = mark_ready(readiness, "basis_local_token_configured")
          /\ Proceed("policy")
       \/ /\ "config error" \in build_basis_local_token_trust_config
          /\ Fail("basis_local_token_configured")
          /\ UNCHANGED app

\* A file that cannot be opened, is not JSON or has the wrong shape raises
\* PolicyLoadError; bytes that are not UTF-8 raise UnicodeDecodeError, which
\* neither except clause of the loader names.
load_policy_engine == {"ok", "PolicyLoadError", "UnicodeDecodeError"}

\* 4. The role-table policy.
LoadPolicy ==
    /\ stage = "policy"
    /\ \/ /\ config.policy_path => "ok" \in load_policy_engine
          /\ readiness' = IF config.policy_path
                          THEN mark_ready(readiness, "policy_loaded") ELSE readiness
          /\ Proceed("evaluator")
       \/ /\ config.policy_path /\ "PolicyLoadError" \in load_policy_engine
          /\ Fail("policy_loaded")
       \/ /\ config.policy_path /\ "UnicodeDecodeError" \in load_policy_engine
          /\ Escape
    /\ UNCHANGED app

\* 5. The v0.1 evaluator.
BuildEvaluator ==
    /\ stage = "evaluator"
    /\ IF config.policy_path
       THEN /\ app' = [app EXCEPT !.evaluator = TRUE]
            /\ readiness' = mark_ready(readiness, "evaluator_initialized")
       ELSE UNCHANGED <<app, readiness>>
    /\ Proceed(IF config.oa_enabled THEN "oa_bundle" ELSE "serving")

\* What validate_operation_aware_config requires of an enabled mode.
OperationAwareConfigComplete == config.bundle_path

\* As load_policy_engine, and a bundle may also fail its own validation.
load_operation_aware_policy_bundle ==
    {"ok", "OperationAwarePolicyLoadError", "UnicodeDecodeError"}

\* 6a. The operation-aware bundle: its path is required, loading it may fail.
LoadBundle ==
    /\ stage = "oa_bundle"
    /\ IF ~OperationAwareConfigComplete THEN Fail(OAFallible[1])
       ELSE \/ /\ "ok" \in load_operation_aware_policy_bundle
               /\ readiness' = mark_ready(readiness, OAFallible[1])
               /\ Proceed("oa_construct")
            \/ /\ "OperationAwarePolicyLoadError" \in load_operation_aware_policy_bundle
               /\ Fail(OAFallible[1])
            \/ /\ "UnicodeDecodeError" \in load_operation_aware_policy_bundle
               /\ Escape
    /\ UNCHANGED app

\* 6b, publishing the evaluator as soon as it is constructed.
ConstructEvaluatorPublishes ==
    /\ stage = "oa_construct"
    /\ \/ /\ readiness' = mark_ready(readiness, OAFallible[2])
          /\ app' = [app EXCEPT !.oa_evaluator = TRUE]
          /\ Proceed("oa_preflight")
       \/ Fail(OAFallible[2]) /\ UNCHANGED app

\* 6b. The evaluator over the bundle; every exception is attributed.
ConstructEvaluator ==
    /\ stage = "oa_construct"
    /\ \/ readiness' = mark_ready(readiness, OAFallible[2]) /\ Proceed("oa_preflight")
       \/ Fail(OAFallible[2])
    /\ UNCHANGED app

\* preflight_operation_aware_evaluator: one synthetic evaluation must complete,
\* with any outcome; what the kernel raises is not wrapped.
preflight == {"completed", "OperationAwarePreflightError", "kernel exception"}

\* 6c. The semantic preflight; only then is the evaluator published.
Preflight ==
    /\ stage = "oa_preflight"
    /\ \/ /\ "completed" \in preflight
          /\ readiness' = mark_ready(readiness, OAFallible[3])
          /\ app' = [app EXCEPT !.oa_evaluator = TRUE]
          /\ Proceed("serving")
       \/ /\ \/ "OperationAwarePreflightError" \in preflight /\ Fail(OAFallible[3])
             \/ "kernel exception" \in preflight /\ Escape
          /\ UNCHANGED app

\* Leaves an exception without a mark.
CatchSilently ==
    /\ stage = "except"
    /\ stage' = "serving"
    /\ UNCHANGED <<config, readiness, app, starts, failure>>

\* Passes the reason where mark_not_ready takes the component.
CatchSwapsArguments ==
    /\ stage = "except"
    /\ readiness' = IF NotReady(readiness) = {}
                    THEN mark_not_ready(readiness, "app", "failed") ELSE readiness
    /\ stage' = "serving"
    /\ UNCHANGED <<config, app, starts, failure>>

\* The except clause of lifespan: "app" is marked only if nothing else is
\* not ready; then the application serves.
Catch ==
    /\ stage = "except"
    /\ readiness' = IF NotReady(readiness) = {}
                    THEN mark_not_ready(readiness, "failed", "app") ELSE readiness
    /\ stage' = "serving"
    /\ UNCHANGED <<config, app, starts, failure>>

Shutdown ==
    /\ stage = "serving"
    /\ readiness' = mark_not_ready(readiness, "shutdown", "app")
    /\ stage' = "stopped"
    /\ UNCHANGED <<config, app, starts, failure>>

\* The lifespan is entered again on the same application.
Reenter ==
    /\ stage = "stopped" /\ starts < MaxStarts
    /\ stage' = "load"
    /\ starts' = starts + 1
    /\ failure' = "none"
    /\ UNCHANGED <<config, readiness, app>>

Next ==
    \/ LoadConfig \/ RegisterRouter \/ BuildWriter \/ RegisterOperationAware
    \/ ValidateConfig \/ InitializeOIDC \/ InitializeBasisLocal \/ LoadPolicy
    \/ BuildEvaluator \/ LoadBundle \/ ConstructEvaluator \/ Preflight
    \/ Catch \/ Shutdown \/ Reenter

Spec == Init /\ [][Next]_vars

-----------------------------------------------------------------------------
StageNames ==
    {"load", "route", "writer", "pending", "validate", "auth", "policy", "evaluator",
     "oa_bundle", "oa_construct", "oa_preflight", "except", "serving", "stopped"}

TypeOK ==
    /\ stage \in StageNames
    /\ config \in Configs
    /\ IsReadiness(readiness, Components)
    /\ app \in Apps
    /\ starts \in 1..MaxStarts
    /\ failure \in Components \cup {"none", "unattributed"}

\* Whatever failed, the application serves from an app.state the request
\* handlers are prepared for (Gateway starts from each of these), and the
\* operation-aware route is there exactly when enabled, never without the
\* writer: a request to it is answered 503 and audited, not lost.
ServesServableApp ==
    stage = "serving" =>
       /\ app \in ServableApps
       /\ app.oa_route <=> config.valid /\ config.oa_enabled
       /\ app.oa_route => app.writer

\* /ready answers 200 exactly after a first startup in which nothing failed:
\* no failure is masked, no optional stage that was skipped blocks, and after a
\* shutdown nothing in this process marks "app" ready again.
ReadyIffStarted ==
    stage = "serving" => (is_ready(readiness) <=> failure = "none" /\ starts = 1)

\* When /ready answers 200 the handlers find on app.state exactly what the
\* configuration asks for: a verifier for the BASIS-local mode or a non-empty
\* issuer, never without the v0.1 evaluator, and the evaluator of each policy.  A bundle
\* alone asks for no verifier: with operation-aware mode on and no issuer, or an
\* empty one, the service is ready and answers every such request 401.
ReadyMeansEquipped ==
    stage = "serving" /\ is_ready(readiness) =>
       /\ config.valid
       /\ app.auth <=> config.auth_mode = "basis_local_token" \/ config.oidc_issuer = "set"
       /\ app.auth => app.evaluator
       /\ app.evaluator <=> config.policy_path
       /\ app.oa_evaluator <=> config.oa_enabled

\* An operation-aware evaluator is visible to handlers only once the bundle is
\* loaded and it has passed the semantic preflight.
PublishedOnlyVetted ==
    app.oa_evaluator => \A i \in 1..3 : OAFallible[i] \in Registered(readiness)
                                        /\ readiness.ready[OAFallible[i]]

\* The failure matrix of docs/readiness.md: with the mode enabled all four
\* components are registered, the stages before the one that failed are ready,
\* the failed one carries its failure and every later one is pending; disabled,
\* none is registered.
FailureMatrix ==
    stage = "serving" =>
       IF config.valid /\ config.oa_enabled
       THEN /\ "operation_aware_mode_enabled" \notin NotReady(readiness)
            /\ \A i \in 1..3 : OAFallible[i] \in Registered(readiness)
            /\ \A i \in 1..3 : failure = OAFallible[i] =>
                  \A j \in 1..3 :
                     /\ readiness.ready[OAFallible[j]] <=> j < i
                     /\ j >= i => readiness.reasons[OAFallible[j]] =
                                     IF j = i THEN "failed" ELSE "pending"
            /\ failure \in Components \ {OAFallible[i] : i \in 1..3} =>
                  \A j \in 1..3 : ReasonOf(readiness, OAFallible[j]) = "pending"
       ELSE \A i \in 1..3 : OAFallible[i] \notin Registered(readiness)

\* main.py: "A startup failure is attributed to the stage that actually
\* failed".  With operation-aware mode enabled the pending components keep the
\* except clause from recording an exception no stage caught.
FailureIsAttributed ==
    stage = "serving" /\ failure # "none" =>
       \E c \in NotReady(readiness) : ReasonOf(readiness, c) = "failed"
=============================================================================
