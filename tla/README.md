# basis-gateway: a TLA+ model and its proofs

basis-gateway is a FastAPI service in front of the `basis-core` authorization
kernel. It authenticates a caller, puts an authorization request into canonical
form, asks the kernel, maps the decision to an HTTP status and leaves audit
records of all of it. This directory models the gateway's own logic: the audit
writer and its degradation, readiness, the two evaluation endpoints on one event
loop, application startup, token authentication with its key caches, and the way
of an operation-aware request from producer trust to its durable record.
`PROJECT.json` maps every definition to source lines.

Paths below are relative to `src/basis_gateway/`.

## 1. Inventory

| Part | State | Operations | Interacts with |
|---|---|---|---|
| Readiness tracker (`readiness.py`) | two dictionaries behind one lock | `mark_ready`, `mark_not_ready`; `is_ready`, `reason`, `all_reasons`, `components` | written by startup, the audit writer and shutdown; read by `/ready` from worker threads |
| Audit writer (`audit/writer.py`) | total and consecutive failure counters, `degraded` | `write` (never raises) | one instance shared by both endpoints and the v0.1 kernel; signals the tracker |
| `/health`, `/ready` (`api/routes.py`) | none | four separate reads of the tracker | plain `def`: runs in the thread pool beside the event loop |
| `POST /v1/evaluate`, `POST /v1/evaluate/operation-aware` (`api/routes.py`) | none of their own; `app.state` | strict-mode check, body, validation, canonicalisation, authentication, producer trust, evaluation, response | `async def`: event loop, with one `await` (`request.body()`); every exit writes an audit event |
| Audit events (`audit/gateway_events.py`, `audit/operation_aware_gateway_events.py`) | none | build one record, call the writer, absorb failures | called by the handlers |
| HTTP classification (`api/operation_aware_classification.py`) | a table | kernel status, outcome and failure reason to HTTP status | operation-aware handler |
| Lifecycle (`main.py`) | `app.state`, the tracker | the numbered startup stages, the except clause, shutdown | everything above; serves even if startup failed |
| Configuration (`config.py`) | settings | parse, two `validate_*` functions | startup, producer trust |
| Authentication (`auth/runtime.py`, `auth/oidc.py`, `auth/basis_local_token.py`, `auth/subject_mapper.py`) | OIDC verifier with PyJWKClient's cache, or a static trust configuration | initialise, verify, map claims | startup, both handlers |
| Canonical form (`core/actions.py`, `core/resources.py`) | none | compose action and resource id, reserved keys, evidence | both handlers |
| Producer trust (`auth/operation_producer*.py`, `auth/producer_mtls*.py`) | none | allowlist, or certificate from a trusted proxy | operation-aware handler |
| Operation-aware composition (`core/operation_aware_composition.py`) | none | consistency checks, gating of producer-only fields, provenance | operation-aware handler |
| Evaluators (`core/evaluator.py`, `core/operation_aware_evaluator.py`) | policy, writer | build the kernel request, call the kernel, preflight | both handlers, startup |
| Policy loading (`policy/`) | none | read and validate files | startup |
| Correlation ids (`middleware/correlation.py`) | none | fresh UUID per request | all handlers |

What is hard here:

- **A check that goes stale across an await.** Strict mode looks at `degraded`
  before the body is read; other requests run meanwhile.
- **Two records of one fact.** The writer's flag and the tracker's
  `audit_writer` component are only synchronised at transitions.
- **Reads without a snapshot.** `/ready` takes the tracker's lock four times.
- **Recovery through traffic.** Only a successful write clears degradation.
- **Serving after a failed startup.** Handlers meet every prefix of startup's
  results, and what failed must show in `/ready`.
- **A dozen early returns.** Each has to leave its record, and none may turn
  into a 200.
- **Two trust mechanisms and two copies of canonicalisation** that must not be
  mixed up or drift apart.
- **Two key caches on top of each other.** PyJWKClient holds a JWKS document for a
  time to live and, because of `cache_keys=True`, resolved keys without one; the
  issuer rotates and its endpoint fails meanwhile, and each fetch blocks the event
  loop.
- **A verdict that is a sequence of checks.** A token passes a dozen of them, in
  two modes, before and after the signature; the error each ends in is what the
  audit record will say.
- **A record assembled after the decision,** outside any `try`, by other code than
  the response.

The properties each part is held to: the writer's state is a function of the
outcome history; the tracker mirrors it; a status of `/ready` is true of some
instant; every answer is backed by its audit trail; 200 means the kernel said
ALLOW; strict mode leaks a bounded number of evaluations; startup reports ready
exactly when it succeeded; a token is accepted exactly if the configuration
describes it, with the same id, name, roles and address in either mode, and only with
a key the issuer published, recently unless it is remembered; producer context reaches the kernel only from a
vouched producer and its decision's record names that producer; evidence,
provenance and record describe what was actually composed and decided.
The full list of hazards, each with its line, is in `PROJECT.json`.

## 2. Modules

| Module | Models | Built on |
|---|---|---|
| `Readiness` | `ReadinessState` as a record; one operator per method | |
| `AuditWriter` | the writer's variables and `write(ok)` | `Readiness` |
| `AuditPipeline` | the writer under any history of outcomes (`attempts`) | `AuditWriter` |
| `AuditHealth` | abstract: healthy unless the last *Threshold* attempts all failed | |
| `AuditPipelineProofs` | the theorems | `AuditPipeline` |
| `ReadyEndpoint` | `/ready` as four reads per probe, beside the pipeline | `AuditPipeline` |
| `ReadyEndpointProofs` | the theorems about `ReadyEndpoint` | `ReadyEndpoint`, `AuditPipelineProofs` |
| `AppState` | what handlers find on `app.state`; the interface of `Startup` and `Gateway` | |
| `Classification` | the HTTP status of a kernel result | |
| `Gateway` | both POST handlers on the event loop, the sink, the writer | `AuditWriter`, `AppState`, `Classification` |
| `GatewayProofs`, `GatewayTrailProofs` | the theorems about `Gateway` | `Gateway` |
| `Enforcement` | abstract: refused, or decided by one evaluation; 200 only on ALLOW | |
| `Startup` | `lifespan` | `Readiness`, `AppState` |
| `StartupProofs` | the theorems about `Startup` | `Startup` |
| `Canonical` | actions, resources, evidence | |
| `ProducerTrust` | both trust mechanisms and their configuration parsers | |
| `OperationInput` | from a validated request to kernel input, both endpoints | `Canonical`, `ProducerTrust` |
| `OperationRecord` | the kernel's result to the response and the durable record | `OperationInput`, `Classification` |
| `OperationInputProofs` | the theorems about `OperationInput` and `OperationRecord` | `OperationRecord` |
| `Tokens` | tokens, `jwt.decode` as a list of checks, OIDC claims and their mapping | |
| `BasisLocalToken` | trust configuration, verification and identity of BASIS-local tokens | `Tokens` |
| `KeyCache` | `_JWKSCache` over PyJWKClient's two caches | |
| `Authentication` | bearer extraction, `authenticate`, the except clauses; the clock, the issuer | `BasisLocalToken`, `KeyCache` |
| `AuthenticationProofs` | the theorems about `Authentication` and the modules under it | `Authentication` |
| `MC*` | constants and small sets for TLC | |

`Startup` and `Gateway` are joined by assume and guarantee: `ServesServableApp`
shows that every `app.state` startup leaves behind is in `ServableApps`, and
`Gateway` starts from each member of `ServableApps`. Both halves are proved
(`Servable`, and the theorems about `Gateway`, which hold for any set of servable
states).

How state and steps correspond to the code:

- **Atomicity.** A lock section of the tracker is a step. `write` runs on the
  event-loop thread and touches the tracker at most once, so it is a step.
  `authenticate` is synchronous throughout, its JWKS requests included, so it is
  one step in which each request made is answered or not. A
  handler runs without interruption except at `await request.body()`; `loop`
  says who holds the event loop, and each stage of a handler is a step so that a
  sink failure can fall between any two of its writes. A handler waits in
  `await_body` until its client finishes the body or hangs up (`BodyEnds`), is then
  `queued`, and goes on when the loop takes it up (`Resume`).
- **Outcomes outside the gateway** (a token, a certificate, the issuer, a policy
  file, the kernel, the sink) are free choices over what the code tells apart,
  including exceptions no clause names.
- **Data.** A colon-separated action or resource id is the sequence of its
  segments, so composing is concatenation and "contains a colon" is a length
  above one. Certificates are a fault kind and a list of URI SANs. Whitespace
  trimming is the function `Trim`. A token is a record of its claims, each a text or
  one of absent, null and not text; a time claim has a form (a number, a numeric
  text, null, infinite, junk, or too large for datetime, where `fromtimestamp` raises
  ValueError, form "huge", or OverflowError, form "overflow") and an instant; a signature
  is the name of the key that signed. `jwt.decode` and PyJWKClient are outside the
  repository: their checks are listed in PyJWT's order, with a switch for the
  versions that check the types of `sub` and `jti`. Log texts and response wording are left out.
- **Code written twice is modelled twice.** Each endpoint assembles the kernel's
  context from the caller's and the evidence in code of its own:
  `EffectiveContext` for `/v1/evaluate`, `CombinedContext` for the operation-aware
  endpoint. What they share in the source (`compose_action`,
  `build_composition_evidence`, ...) they share here. The two identity adapters are
  two operators as well.
- **History variables** (`attempts`, `trail`, `lateRuns`, `window`, `failure`)
  record and never constrain.
- Definitions that precede another and differ from it by one slip
  (`FailedWriteLate`, `GateIgnoresProbe`, ...) are the mutants of
  `PROJECT.json`: substituting one makes the named property fail. No
  specification uses them.

## 3. Runs

| Run | Instance | Shows |
|---|---|---|
| `ready_endpoint` | two probes, threshold 3, 8 writes, two startup trackers | counters, flag and tracker are functions of the history; refines `AuditHealth`; each status of `/ready` is true of some instant of its probe; a probe no write overlaps is coherent |
| `gateway` | two slots, threshold 2, 4 failures, all servable `app.state`s | loop exclusion, trail against response, strict-mode leak bound, refines `Enforcement` |
| `gateway_live` | two slots, threshold 2, 3 failures, every fully started app: mTLS or not, strict mode or not | every handler answers unless its own client stalls in the body; with a working sink the writer recovers while handlers keep answering |
| `startup` | all configurations, two lifespans | what is served, `/ready`, the failure matrix, publication order |
| `operation_input` | all trust situations and all request shapes of small sets, every kernel result | producer trust, canonical form, evidence, provenance, agreement of the endpoints; record against response, accountability of producers, when recording raises |
| `authentication` | 3 worlds: any token against 26 environments, any token against a stable issuer, tokens of 3 keys under an issuer that rotates among 4 documents; clock 0..3, time to live 1, room for 1 resolved key | the verdict of both modes against a declarative one, errors and reasons, both adapters alike but for the attributes only OIDC collects, withdrawal and rotation of keys, no fetch for a known key |

Violations, each a disagreement between a sentence of the repository and the code:

| Run | Sentence | What happens |
|---|---|---|
| `gateway_strict` | README: "No evaluation proceeds until the audit pipeline recovers." | a request past its check is evaluated after the writer degraded; `LateRunsBounded` says how many |
| `gateway_routed` | docs/audit-failure-escalation.md: "Recovery is automatic ..." | an orchestrator that routes by `/ready` starves the writer of the write that would recover it |
| `gateway_audited` | README: records "are emitted for every outcome" | a certificate with unreadable extensions raises past the handler: 500, no record |
| `key_ttl` | docs/oidc-integration.md: "Keys are held for this duration" | a key resolved once is accepted after the document expired and the issuer withdrew the key; `WithdrawnKeyBounded` is what does hold |
| `audience_unset` | docs/oidc-integration.md: "If unset, audience is not validated" | `jwt.decode` without an audience refuses a token that carries one; `OidcVerdictExact` is what does hold |
| `startup_attribution` | main.py: "attributed to the stage that actually failed" | with operation-aware mode on, an uncaught exception is recorded on no component |

**Bounds.** Degradation, further failures, recovery and a second degradation all
fit in eight writes at threshold 3 (and in four failures at threshold 2); the
theorems remove this bound. Two slots give every overlap of one request's await
with another's complete run. `MaxFailures` closes the door on new requests, not
on running ones, so it never cuts a handler short; `gateway_live` therefore only
claims recovery for behaviours in which handlers do keep answering. An answer takes
a write. A handler that raises over a certificate it cannot read (`ProducerRaises`,
in mTLS mode) takes none, so requests that all end that way leave the writer
degraded although the sink works; `RecoversWithTraffic` asks for answers, not for
requests, for this reason.
Two lifespans are enough because `LoadConfig` resets all of `app.state` but the
route, and what survives in the tracker is the same after every further one.
In `authentication` a clock of four instants and a time to live of one second
leave room for a document to be fetched, withdrawn, expire and be fetched again;
two rotations include a key id that is taken away and comes back or comes back
with another key; with room for one resolved key every second key id evicts one.
Tokens differ from a good one in one or two claims, which is enough because a
verdict is the first failure in a list of checks of one claim each; the pairs vary
the signer together with the claims that are looked at before or after it.
`CHECK_DEADLOCK` is off where the bounded behaviour ends.

**Fairness.** `WF(Running)`: a handler that holds the loop is ordinary Python
code that runs on. `SF(Resume)`: the loop's ready queue is first-in first-out,
so a handler that is queued gets its turn although others run in between.
`WF(Release)`: a response leaves. Nothing is assumed of clients or of the sink.
In particular `BodyEnds` is not fair: neither the repository nor the server sets a
timeout on reading a body, so a client may stall in it for ever.
`EveryRequestAnswered` therefore says of each request that it is answered or waits
for its own client, and that nobody else waits for that client. `RoutedSpec`, for
`gateway_routed` only, adds that the orchestrator keeps routing requests while the
instance is ready and that their bodies end, which only helps the property it
refutes.

**Symmetry** is used in `gateway` only: slots are interchangeable and the run
checks safety.

## 4. What is proved

**The audit pipeline** (`AuditPipelineProofs`), for every integer threshold, every
set of component names and every set of startup trackers that satisfies
`StartupAssumption` (well-kept trackers in which `audit_writer` is registered and
ready, which is how startup hands the writer over): `TypeCorrect`, `TrailingRun`,
`ReadinessMirror`, `TrackerWellKept`, `DegradedExactly` and `Counters` are the
invariants of the writer in the run `ready_endpoint`; `Refinement` says that the writer
implements `AuditHealth`.

None of the invariants is inductive alone. The code sets the flag only on the
write that meets the threshold and clears it only on the one that recovers, so
"degraded iff the last *threshold* writes failed" needs `DegradedIffThreshold`
(the flag is a function of the counter), which needs the counter to be the
trailing run (`CountsTrailingRun`); and the tracker's half needs the flag to
mirror the component at every step because the tracker is only written at
transitions. `IInv` is the conjunction of these five. `TotalCount` is an induction
of its own over the cardinality of the set of failures.

**The evaluation endpoints** (`GatewayProofs`, `GatewayTrailProofs`), for any
finite set of request slots, any threshold, any bound on failures and any set of
servable application states:

- `GatewayTypeCorrect`, `LoopExclusion`. Type correctness needs
  `StageOfEndpoint` (a slot is at a stage of its own endpoint), without which a
  passed stage could lead nowhere. `SlotsInv` is the conjunction.
- `StrictLeakBounded`. Its inductive form `LateInv` adds that the count is zero
  unless strict mode is degraded, and uses `degraded => app.writer`
  (`WriterInv`): the check can only let a request past a degraded writer if there
  is no writer, and then it cannot be degraded. An evaluation moves one request
  from "past the check" to "counted", so the sum never grows while degraded.
- `GatewayEnforces`: under the mapping `Phase` every step of a handler is a step of
  `Enforcement` or a stutter. It rests on `SlotsInv`, on `ExitCodes` (no exit
  answers 200 or 403) and on `ClassifyEnforced` (the table maps exactly ALLOW to
  200).
- `TrailTells`. `TrailInv` adds what holds before the response: only preliminary
  events are on the trail and the kernel has not spoken. Each way to answer
  appends one closing event (`ExitTells`, `RecordTells`), and `AppendTells` does
  the rest.

**`/ready` beside the writer** (`ReadyEndpointProofs`), for any set of concurrent
calls, any threshold and any number of writes: `StatusLinearizable`, `QuietProbe`,
and `ProbesLeaveWriter`, which carries the writer's theorems over to the composed
system. `ReadyInv` adds to the writer's `IInv`, for each call, that its window
holds the current tracker while it is in flight (`SeesNow`), that the window holds
well-kept trackers only, and that a call which met one tracker has read everything
from it (`OneTrackerAnswers`). The last part cannot be said of the current tracker:
after the call is done the tracker may change. `StatusTrueAtSomeInstant` alone is
not inductive because the step that decides the status needs `SeesNow` for its
witness. `QuietProbe` also needs the order of registration: `reason` is the reason
of the first component that is not ready.
Assumed (`ReasonsAssumption`): the reasons startup leaves are not empty; they are
fixed texts or the `str(exc)` of an error raised with a message (an exception with
an empty text is excluded).

**The lifespan** (`StartupProofs`), for every configuration, every outcome of every
stage and any number of lifespans: `StartupTypeCorrect`, `Servable`, `ReadyExactly`,
`ReadyEquipped`, `Vetted`, `Matrix`. `StartInv` says stage by stage what is on
`app.state` (`Published`, `Equipped`) and what the tracker says (`OAComponents`,
`OAFailed`, `WhoIsNotReady`). None of the properties is inductive: each is about
the end of a startup, and what is true at the end was established by a stage long
before and has to survive the others. The tracker is reasoned about through who is
registered, who is not ready and why; `MarkReady` and `MarkNotReady` say what its
two operations do to these. `ReadyEquipped` is an equivalence: a ready application
has a verifier exactly if the BASIS-local mode or a non-empty issuer asks for one,
which falls short of what docs/readiness.md says of `/ready` (section 5).

**Operation-aware requests** (`OperationInputProofs`), for every set of requests,
configurations, identifiers and kernel results: `ProducerVouched`,
`InternalErrorUnreachable`, `CanonicalAlways`, `EvidenceAlwaysExplains`,
`EndpointsAlwaysAgree`, `ProvenanceAlwaysHonest`, `RecordAlwaysExplains`,
`ProducerAlwaysAccountable`, `RecordingRaises`. `InputRecordInv` says that trust,
input, response and record are what the operators make of the request, on every
path including the ones that end early; the properties then follow from lemmas
about the operators: what trust resolution establishes (`Established`), what
composition returns, and how evidence and provenance overlay what was there.
`EndpointsAlwaysAgree` rests on `ContextsCoincide`: adding the evidence of each
composition as it is made, and adding both at the end, give the same context.
Assumed (`QueriesAssumption`): requests have the types their schema gives them,
an identity has a subject (both verifiers refuse an empty one), and the value
that stands for "no producer" is no admitted URI.

**Authentication** (`AuthenticationProofs`), for every set of tokens, deployments
and JWKS documents, every time to live, cache size and bound on the clock:
`AuthTypeCorrect`, `LocalExact`, `ClaimsErrorsSigned`, `OidcExact`,
`WithdrawnBounded`, `RotationReaches`, `FetchErrorCaused`, `ReasonHonest`,
`AdaptersAgree`, and `NoFetchWhenKnown` (of the step, not of the state). `AuthInv`
has three parts. `CacheInv`: each remembered pair is in some published document,
no key id is remembered twice, and a document in hand was still the published one
at or after its fetch (`SetInv`; "is published" would not survive a rotation).
`VerdictInv`: the verdict on record is what the checks make of the token and of a
key with that history (`OidcVerdict`), or what
`verify_basis_local_identity_token` returns. `WorldInv`: publications lie in the
past. `LookupFacts` covers every way a lookup can end. The two verdicts rest on
`FirstFailureForm`: a sequence of checks passes iff each check does, so the order
only matters for which error is raised, and `ClaimsErrorsSigned` is about that
order. `AdaptersAgree` is about whole subjects, attributes included: what the
BASIS-local adapter makes of a token is what `map_claims` makes of it, reduced to
the e-mail address among the attributes.
Assumed: `TokensAssumption` (time claims have a form and an integer, nobody signs
with an absent or unreadable key), `DeploymentsAssumption` (settings are texts or
unset, the leeway is a natural number, a verifier has an issuer: what
`GatewayConfig` and startup enforce), `TrimAssumption` (what is left of a stripped
text is not padded), `LifespanAssumption` and `KeyCacheSizeAssumption` (PyJWKClient
and `lru_cache` refuse or are not given zero).

`IInv`, `ReadyInv`, `StartInv`, `InputRecordInv` and `AuthInv` were also checked
with TLC on the instances of the runs. With these, every safety
property and every refinement the passing runs check is also proved.

**Only model-checked.** `EveryRequestAnswered` and `RecoversWithTraffic`: liveness
rests on fairness and `ENABLED`, which are beyond the prover. The six violations are
counterexamples and need no proof. The bounds `MaxStarts`, `MaxNow`, `MaxRotations`
and `MaxFailures` stay in the specifications the theorems are about, as arbitrary
natural numbers.

Some operators are written with the proofs in mind: `Update` spells out
`dict.update`, the remembered pair of a key id is taken out with
`RemoveAt`, and no recursion is used anywhere below a theorem.

## 5. What is not modelled

- Cryptography, JWT and X.509 parsing: outcomes only. `Gateway` keeps
  authentication as a free choice over the outcomes `Authentication` computes.
- Claims beyond those a check, a role, a name or an attribute is taken from, and
  times so far in the past that datetime cannot represent them.
- How long a step takes. A JWKS request is part of one step of `Authentication`, and
  authentication is one step of `Gateway`: that a fetch blocks the event loop meanwhile
  is not a matter of any property, only when no fetch is made
  (`KnownKeyNeedsNoFetch`).
- A second audit writer. `main.py` builds one for both endpoints and the kernel, and
  the model takes that over instead of checking it.
- The kernel. A v0.1 evaluation returns ALLOW or DENY or raises; an
  operation-aware one returns a result in the shapes of `KernelResults` or
  raises. The v0.1 kernel records its decision as the last thing it does, so a
  call that raises has recorded none. Its models guarantee that a result has an outcome or a failure reason
  and not both. Whether it refuses a blank `request_id` is not in the repository:
  `OperationRecord` allows both and shows that this is the only request for which
  the record raises after the decision; `Gateway` leaves that case out.
- Cancellation of a handler's task by the server. A client that disconnects
  makes `request.body()` raise, which is the validation exit of `Gateway`.
- The demo client (`demo/operation-aware/run_demo.py`).
- Failure to construct an `AuditEvent` (absorbed and logged without a write).
- Field validation of the request schemas beyond what composition relies on.
- Correlation ids: fresh per request, never shared. The middleware stamps what
  `call_next` returns, so the responses of handlers that raise (`gateway_audited`)
  go out without the header.

`OIDC_ISSUER=""` is "configured" to `validate_evaluation_config` and "absent" to
`lifespan`; the model keeps the difference (`oidc_issuer = "empty"`).

Further disagreements between a sentence of the repository and the code, stated by
what a property does say and without a run of their own:

- docs/readiness.md:23: "Use `/ready` to check whether the service can actually serve
  requests." With operation-aware mode on and `OIDC_ISSUER` unset or empty, the
  gateway is ready without a verifier, and every operation-aware request is answered
  401 (`ReadyMeansEquipped` says when there is a verifier).
- docs/readiness.md:38: a 503 of `/ready` comes with `reason` and `reasons`. When the
  write that recovers `audit_writer` falls after `is_ready` was read and before
  `all_reasons`, it comes with no reasons and "application not initialized"
  (`StatusTrueAtSomeInstant` and `QuietProbeCoherent` say what holds of an answer).
- docs/basis-local-token-trust.md:125: a BASIS-local identity is treated "exactly like
  an OIDC-verified one". `given_name`, `family_name` and `name` are attributes of the
  subject in OIDC mode only (`NormalisationsAgree` says that this is all).
- core/actions.py:38: a segment is "a lowercase letter followed by lowercase letters,
  digits, hyphens, or underscores". In Python `$` also matches before a trailing
  newline, so `IsSegment` admits such a segment (`NewlineEnded`) and a composed action
  may contain it; refusing it is left to the kernel.

Behaviours met on the way that a reader of the code might not expect, encoded in the
model:

- A JWKS answer without usable keys is cached like any other and, unlike an unknown
  key id, leads to no refresh; a failed refresh drops the document in hand. Hence
  the exceptions in `PublishedKeyAccepted` and `FetchErrorHasCause`.
- A key id that comes back with another key locks its tokens out while the old
  key is remembered (`Reused`).
- A payload that cannot be decoded is met in the key lookup first, and so ends as a
  JWKS fetch error in the log (`authenticateOidc`).
- An OIDC token whose `exp` is beyond datetime's range is accepted, and the
  conversion in core/evaluator.py then fails the evaluation (`OidcAcceptable`). In
  BASIS-local mode such a token is refused, but an `exp` for which the conversion
  raises OverflowError gets past the clause that makes claims errors, and the refusal
  ends as an unexpected error (`verify_basis_local_identity_token`).
- A blank display name, or an empty address, is kept by one adapter and dropped by
  the other; `NormalisationsAgree` is about tokens in which both are filled.
- A time to live below one second is `int()`-ed to zero, which PyJWKClient refuses
  at startup; `LifespanAssumption` excludes it.

## 6. Plan

Everything of the gateway that keeps state or decides is modelled, and every safety
property of the passing runs is proved. What is left:

1. Compose `Authentication` with `Gateway`: a theorem that the outcomes and reasons
   `Authentication` can produce are those `AuthenticateExits` allows.
2. An abstract specification of the key cache (a key is used only if it was
   published, and recently unless remembered) and `Authentication` shown to
   implement it.
3. Action properties of the tracker: a reason changes only with its component, and
   a lifespan never turns a failed component ready.
