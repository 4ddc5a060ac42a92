--------------------------- MODULE StartupProofs ---------------------------
(***************************************************************************)
(* Proofs about the application lifespan, for every configuration, every   *)
(* outcome of every stage and any number of entries of the lifespan.       *)
(*                                                                         *)
(* The invariant says, stage by stage, what app.state holds, which         *)
(* components are not ready and with which reason.  Of the tracker it      *)
(* needs three views only (who is registered, who is not ready, why), and  *)
(* the first lemmas say what mark_ready and mark_not_ready do to each.     *)
(***************************************************************************)
EXTENDS Startup, TLAPS

Bundle == OAFallible[1]
Evaluator == OAFallible[2]
Semantics == OAFallible[3]
OASet == {Bundle, Evaluator, Semantics}

\* The stages of a startup that has not failed.
Starting ==
    {"load", "route", "writer", "pending", "validate", "auth", "policy", "evaluator",
     "oa_bundle", "oa_construct", "oa_preflight"}

\* The stages that find the operation-aware components registered and pending.
AllPending == {"validate", "auth", "policy", "evaluator", "oa_bundle"}

Ended == {"except", "serving", "stopped"}

OAEnabled == config.valid /\ config.oa_enabled

IsPending(c) == c \in NotReady(readiness) /\ ReasonOf(readiness, c) = "pending"
IsReady(c) == c \in Registered(readiness) /\ c \notin NotReady(readiness)
HasFailed(c) == c \in NotReady(readiness) /\ ReasonOf(readiness, c) = "failed"

\* A component carries a reason exactly while it is not ready.
ReasonsKept == DOMAIN readiness.reasons = NotReady(readiness)

\* How far the startup has come, and whether it has failed.
Progress ==
    /\ stage \in Starting => failure = "none"
    /\ stage = "except" => failure # "none"
    /\ stage \in Starting \ {"load"} => config.valid
    /\ stage \in Ended /\ failure = "none" => config.valid
    /\ stage \in {"oa_bundle", "oa_construct", "oa_preflight"} => config.oa_enabled
    /\ stage \in {"auth", "policy", "evaluator", "oa_bundle", "oa_construct", "oa_preflight"}
         => EvaluationConfigComplete
    /\ stage \in Ended /\ failure = "none" => EvaluationConfigComplete

\* The configuration asks for a verifier or a trust configuration.
VerifierAskedFor == config.auth_mode = "basis_local_token" \/ config.oidc_issuer = "set"

USE DEF VerifierAskedFor

\* What app.state holds.
Published ==
    /\ ~config.valid => app = NoApp
    /\ stage = "load" /\ starts = 1 => app = NoApp
    /\ config.valid /\ (stage # "load" \/ starts > 1) => app.config
    /\ app.oa_route => OAEnabled
    /\ OAEnabled /\ (stage \notin {"load", "route"} \/ (stage = "load" /\ starts > 1))
         => app.oa_route
    /\ stage \in {"route", "writer"} => ~app.writer /\ ~app.evaluator /\ ~app.oa_evaluator
    /\ config.valid /\ stage \in {"pending"} \cup AllPending \cup Ended
                                 \cup {"oa_construct", "oa_preflight"}
         => (app.writer <=> config.policy_path \/ config.oa_enabled)
    /\ app.auth => VerifierAskedFor
    /\ app.evaluator => app.writer /\ config.policy_path
    /\ app.oa_evaluator => app.writer /\ app.oa_route

\* Which objects a startup that has not failed has built.
Equipped ==
    /\ (\/ stage \in {"policy", "evaluator", "oa_bundle", "oa_construct", "oa_preflight"}
        \/ stage \in Ended /\ failure = "none")
         => (VerifierAskedFor => app.auth)
    /\ (\/ stage \in {"oa_bundle", "oa_construct", "oa_preflight"}
        \/ stage \in Ended /\ failure = "none")
         => (config.policy_path => app.evaluator)
    /\ stage \in Ended /\ failure = "none" /\ config.oa_enabled => app.oa_evaluator
    /\ app.oa_evaluator => \/ stage \in {"serving", "stopped"} /\ failure = "none"
                           \/ stage = "load"

\* The operation-aware components: absent, pending, ready or failed.
OAComponents ==
    /\ ~OAEnabled => OASet \cap Registered(readiness) = {}
    /\ OAEnabled /\ (starts > 1 \/ stage \in Ended) => OASet \subseteq Registered(readiness)
    /\ OAEnabled /\ stage \in AllPending => \A c \in OASet : IsPending(c)
    /\ stage = "oa_construct" => IsReady(Bundle) /\ IsPending(Evaluator) /\ IsPending(Semantics)
    /\ stage = "oa_preflight" => IsReady(Bundle) /\ IsReady(Evaluator) /\ IsPending(Semantics)
    /\ app.oa_evaluator => \A c \in OASet : IsReady(c)
    /\ "operation_aware_mode_enabled" \notin NotReady(readiness)

\* What a failed startup leaves in the operation-aware components.
OAFailed ==
    stage \in Ended /\ OAEnabled =>
       /\ failure \in Components \ OASet => \A c \in OASet : IsPending(c)
       /\ failure = Bundle => HasFailed(Bundle) /\ IsPending(Evaluator) /\ IsPending(Semantics)
       /\ failure = Evaluator =>
             IsReady(Bundle) /\ HasFailed(Evaluator) /\ IsPending(Semantics)
       /\ failure = Semantics =>
             IsReady(Bundle) /\ IsReady(Evaluator) /\ HasFailed(Semantics)

\* Who is not ready: in a first startup only what is pending, after a shutdown
\* always the application itself.
WhoIsNotReady ==
    /\ starts > 1 \/ stage = "stopped" => "app" \in NotReady(readiness)
    /\ starts = 1 =>
          /\ stage \in {"load", "route", "writer", "pending"} => NotReady(readiness) = {}
          /\ stage \in AllPending =>
                NotReady(readiness) = IF config.oa_enabled THEN OASet ELSE {}
          /\ stage = "oa_construct" => NotReady(readiness) = {Evaluator, Semantics}
          /\ stage = "oa_preflight" => NotReady(readiness) = {Semantics}
          /\ stage = "serving" /\ failure = "none" =>
                NotReady(readiness) = {} /\ Registered(readiness) # {}
          /\ stage \in Starting \ {"load"} => Registered(readiness) # {}
    /\ stage = "serving" /\ failure # "none" => NotReady(readiness) # {}

StartInv ==
    /\ TypeOK
    /\ ReasonsKept
    /\ Progress
    /\ Published
    /\ Equipped
    /\ OAComponents
    /\ OAFailed
    /\ WhoIsNotReady

-----------------------------------------------------------------------------
(* The tracker, through its three views.                                   *)

Kept(rs) == IsReadiness(rs, Components) /\ DOMAIN rs.reasons = NotReady(rs)

\* m is rs with c made ready.
MadeReady(rs, m, c) ==
    /\ Kept(m)
    /\ Registered(m) = Registered(rs) \cup {c}
    /\ NotReady(m) = NotReady(rs) \ {c}
    /\ \A d : d # c => ReasonOf(m, d) = ReasonOf(rs, d)

\* m is rs with c made not ready, for the reason why.
MadeNotReady(rs, m, why, c) ==
    /\ Kept(m)
    /\ Registered(m) = Registered(rs) \cup {c}
    /\ NotReady(m) = NotReady(rs) \cup {c}
    /\ \A d : d # c => ReasonOf(m, d) = ReasonOf(rs, d)
    /\ ReasonOf(m, c) = why

\* mark_ready registers the component, ready, and drops its reason.
LEMMA MarkReady ==
  ASSUME NEW rs, Kept(rs), NEW c \in Components
  PROVE  MadeReady(rs, mark_ready(rs, c), c)
  <1> DEFINE m == mark_ready(rs, c)
  <1>1. m.order \in Seq(Components)
    BY DEF mark_ready, KeyOrder, Kept, IsReadiness
  <1>2. /\ m = [order |-> m.order, ready |-> m.ready, reasons |-> m.reasons]
        /\ m.ready = Put(rs.ready, c, TRUE)
        /\ m.reasons = Restrict(rs.reasons, DOMAIN rs.reasons \ {c})
    BY DEF mark_ready
  <1>3. IsReadiness(m, Components)
    BY <1>1 DEF mark_ready, Put, Restrict, Kept, IsReadiness
  <1> HIDE DEF m
  <1>4. Registered(m) = Registered(rs) \cup {c} /\ NotReady(m) = NotReady(rs) \ {c}
    BY <1>2 DEF Put, Registered, NotReady
  <1>5. DOMAIN m.reasons = NotReady(m)
    BY <1>2, <1>4 DEF Restrict, Kept
  <1>6. \A d : d # c => ReasonOf(m, d) = ReasonOf(rs, d)
    BY <1>2 DEF Restrict, ReasonOf
  <1>7. MadeReady(rs, m, c)
    BY <1>3, <1>4, <1>5, <1>6 DEF MadeReady, Kept
  <1>8. QED
    BY <1>7 DEF m

\* mark_not_ready registers the component with its reason.
LEMMA MarkNotReady ==
  ASSUME NEW rs, Kept(rs), NEW c \in Components, NEW why
  PROVE  MadeNotReady(rs, mark_not_ready(rs, why, c), why, c)
  <1> DEFINE m == mark_not_ready(rs, why, c)
  <1>1. m.order \in Seq(Components)
    BY DEF mark_not_ready, KeyOrder, Kept, IsReadiness
  <1>2. /\ m = [order |-> m.order, ready |-> m.ready, reasons |-> m.reasons]
        /\ m.ready = Put(rs.ready, c, FALSE)
        /\ m.reasons = Put(rs.reasons, c, why)
    BY DEF mark_not_ready
  <1>3. IsReadiness(m, Components)
    BY <1>1 DEF mark_not_ready, Put, Kept, IsReadiness
  <1> HIDE DEF m
  <1>4. Registered(m) = Registered(rs) \cup {c} /\ NotReady(m) = NotReady(rs) \cup {c}
    BY <1>2 DEF Put, Registered, NotReady
  <1>5. DOMAIN m.reasons = NotReady(m)
    BY <1>2, <1>4 DEF Put, Kept
  <1>6. \A d : d # c => ReasonOf(m, d) = ReasonOf(rs, d)
    BY <1>2 DEF Put, ReasonOf
  <1>7. ReasonOf(m, c) = why
    BY <1>2 DEF Put, ReasonOf
  <1>8. MadeNotReady(rs, m, why, c)
    BY <1>3, <1>4, <1>5, <1>6, <1>7 DEF MadeNotReady, Kept
  <1>9. QED
    BY <1>8 DEF m

\* Only a registered component is not ready.
LEMMA NotReadyRegistered == \A rs : NotReady(rs) \subseteq Registered(rs)
  BY DEF NotReady

\* The names of the components, spelt out.
LEMMA Spelling ==
  /\ Bundle = "operation_aware_bundle_loaded"
  /\ Evaluator = "operation_aware_evaluator_initialized"
  /\ Semantics = "operation_aware_policy_semantically_valid"
  /\ Components =
        {"app", "configuration_loaded", "audit_writer", "oidc_configured", "jwks_available",
         "basis_local_token_configured", "policy_loaded", "evaluator_initialized",
         "operation_aware_mode_enabled", Bundle, Evaluator, Semantics}
  <1>1. OAFallible \in [1..3 -> {Bundle, Evaluator, Semantics}]
    BY DEF OAFallible, Bundle, Evaluator, Semantics
  <1>2. {OAFallible[i] : i \in 1..3} = {Bundle, Evaluator, Semantics}
    BY DEF Bundle, Evaluator, Semantics
  <1>3. QED
    BY <1>2 DEF Components, OAFallible, Bundle, Evaluator, Semantics

-----------------------------------------------------------------------------
\* Nothing has been started.
LEMMA InitStartInv == Init => StartInv
  <1> SUFFICES ASSUME Init PROVE StartInv
    OBVIOUS
  <1>1. /\ IsReadiness(readiness, Components)
        /\ Registered(readiness) = {} /\ NotReady(readiness) = {}
        /\ ReasonsKept
    BY DEF Init, EmptyReadiness, IsReadiness, Registered, NotReady, ReasonsKept
  <1>2. TypeOK
    <2>1. app \in Apps
      BY DEF Init, NoApp, Apps
    <2>2. QED
      BY <1>1, <2>1, MaxStartsAssumption DEF Init, TypeOK, StageNames
  <1>3. Progress /\ Published /\ Equipped
    BY DEF Init, Progress, Published, Equipped, Starting, Ended, AllPending, NoApp
  <1>4. OAComponents /\ OAFailed /\ WhoIsNotReady
    BY <1>1 DEF Init, OAComponents, OAFailed, WhoIsNotReady, Ended, AllPending, NoApp, OASet,
              Starting
  <1>5. QED
    BY <1>1, <1>2, <1>3, <1>4 DEF StartInv

\* load_config returned a configuration.
LEMMA ConfigureInv ==
  ASSUME StartInv, LoadConfig, config.valid
  PROVE  StartInv'
  <1>1. /\ stage = "load" /\ stage' = "route"
        /\ UNCHANGED <<config, starts, failure>>
        /\ app' = [NoApp EXCEPT !.config = TRUE, !.fail_closed = config.fail_closed,
                                !.mtls = config.mtls, !.oa_route = app.oa_route]
        /\ readiness' = mark_ready(readiness, "configuration_loaded")
    BY DEF LoadConfig, Proceed
  <1>2. MadeReady(readiness, readiness', "configuration_loaded")
    BY <1>1, MarkReady, Spelling DEF StartInv, TypeOK, ReasonsKept, Kept
  <1>3. TypeOK' /\ ReasonsKept'
    <2>1. app' \in Apps
      BY <1>1 DEF StartInv, TypeOK, NoApp, Apps, Configs
    <2>2. QED
      BY <1>1, <1>2, <2>1 DEF StartInv, TypeOK, ReasonsKept, MadeReady, Kept, StageNames
  <1>4. Progress'
    BY <1>1 DEF StartInv, Progress, Starting, Ended
  <1>5. Published'
    BY <1>1 DEF StartInv, TypeOK, Published, AllPending, Ended, OAEnabled, NoApp, Apps
  <1>6. Equipped'
    BY <1>1 DEF StartInv, Equipped, Ended, NoApp
  <1>7. OAComponents'
    BY <1>1, <1>2, Spelling
       DEF StartInv, OAComponents, MadeReady, OASet, OAEnabled, AllPending, Ended, NoApp
  <1>8. OAFailed' /\ WhoIsNotReady'
    BY <1>1, <1>2, Spelling
       DEF StartInv, OAFailed, WhoIsNotReady, MadeReady, OASet, AllPending, Ended, Starting
  <1>9. QED
    BY <1>3, <1>4, <1>5, <1>6, <1>7, <1>8 DEF StartInv

\* A stage fails and names its component: the operation-aware components stay
\* as the stage found them, but for the one that failed.
LEMMA FailInv ==
  ASSUME StartInv, NEW c \in Components, Fail(c), UNCHANGED app,
         \/ stage \in AllPending /\ c \notin OASet \cup {"operation_aware_mode_enabled"}
         \/ stage = "oa_bundle" /\ c = Bundle
         \/ stage = "oa_construct" /\ c = Evaluator
         \/ stage = "oa_preflight" /\ c = Semantics
  PROVE  StartInv'
  <1>1. /\ stage' = "except" /\ failure' = c
        /\ UNCHANGED <<config, starts, app>>
        /\ readiness' = mark_not_ready(readiness, "failed", c)
        /\ stage \in AllPending \cup {"oa_construct", "oa_preflight"}
    BY DEF Fail, AllPending
  <1>2. ~app.oa_evaluator
    BY <1>1 DEF StartInv, Equipped, AllPending
  <1>3. MadeNotReady(readiness, readiness', "failed", c)
    BY <1>1, MarkNotReady DEF StartInv, TypeOK, ReasonsKept, Kept
  <1>4. TypeOK' /\ ReasonsKept'
    BY <1>1, <1>3, <1>2, Spelling DEF StartInv, TypeOK, ReasonsKept, MadeNotReady, Kept, StageNames
  <1>5. Progress'
    BY <1>1, <1>3, <1>2, Spelling
       DEF StartInv, Progress, Starting, Ended, AllPending, EvaluationConfigComplete
  <1>6. Published'
    BY <1>1, <1>3, <1>2, Spelling
       DEF StartInv, Progress, Published, MadeNotReady, AllPending, Ended, OAEnabled
  <1>7. Equipped'
    BY <1>1, <1>3, <1>2, Spelling
       DEF StartInv, Progress, Equipped, MadeNotReady, Published, AllPending, Ended, Starting,
           EvaluationConfigComplete
  <1>8. OAComponents'
    BY <1>1, <1>3, <1>2, Spelling, NotReadyRegistered
       DEF StartInv, Progress, Published, OAComponents, Equipped, MadeNotReady, OASet, OAEnabled,
           AllPending, Ended, Starting, IsPending, IsReady
  <1>9. OAFailed' /\ WhoIsNotReady'
    BY <1>1, <1>3, <1>2, Spelling
       DEF StartInv, Progress, OAComponents, OAFailed, WhoIsNotReady, MadeNotReady, OASet,
           OAEnabled, AllPending, Ended, Starting, IsPending, IsReady, HasFailed
  <1>10. QED
    BY <1>4, <1>5, <1>6, <1>7, <1>8, <1>9 DEF StartInv

\* A stage raises what none of its except clauses names: the tracker stays.
LEMMA EscapeInv ==
  ASSUME StartInv, Escape, UNCHANGED app,
         \/ stage \in AllPending \cup {"oa_preflight"}
         \/ stage = "load" /\ ~config.valid
  PROVE  StartInv'
  <1>1. /\ stage' = "except" /\ failure' = "unattributed"
        /\ UNCHANGED <<config, starts, app, readiness>>
    BY DEF Escape
  <1>2. ~app.oa_evaluator
    BY DEF StartInv, Equipped, Published, NoApp, AllPending
  <1>3. TypeOK' /\ ReasonsKept'
    BY <1>1, <1>2, Spelling DEF StartInv, TypeOK, ReasonsKept, StageNames
  <1>4. Progress'
    BY <1>1, <1>2, Spelling
       DEF StartInv, Progress, Starting, Ended, AllPending, EvaluationConfigComplete
  <1>5. Published'
    BY <1>1, <1>2, Spelling DEF StartInv, Progress, Published, AllPending, Ended, OAEnabled, NoApp
  <1>6. Equipped'
    BY <1>1, <1>2, Spelling
       DEF StartInv, Progress, Equipped, Published, AllPending, Ended, Starting,
           EvaluationConfigComplete, NoApp
  <1>7. OAComponents'
    BY <1>1, <1>2, Spelling, NotReadyRegistered
    DEF StartInv, Progress, Published, OAComponents, Equipped, OASet, OAEnabled, AllPending,
        Ended, Starting, IsPending, IsReady, NoApp
  <1>8. OAFailed' /\ WhoIsNotReady'
    BY <1>1, <1>2, Spelling
    DEF StartInv, Progress, OAComponents, OAFailed, WhoIsNotReady, OASet, OAEnabled, AllPending,
        Ended, Starting, IsPending, IsReady, HasFailed
  <1>9. QED
    BY <1>3, <1>4, <1>5, <1>6, <1>7, <1>8 DEF StartInv

\* The operation-aware router is included, or not.
LEMMA RouterInv ==
  ASSUME StartInv, RegisterRouter
  PROVE  StartInv'
  <1>1. /\ stage = "route" /\ stage' = "writer"
        /\ UNCHANGED <<config, starts, failure, readiness>>
        /\ app' = [app EXCEPT !.oa_route = @ \/ config.oa_enabled]
    BY DEF RegisterRouter, Proceed
  <1>2. /\ app' \in Apps /\ (app'.oa_route <=> app.oa_route \/ config.oa_enabled)
        /\ app'.config = app.config /\ app'.writer = app.writer /\ app'.auth = app.auth
        /\ app'.evaluator = app.evaluator /\ app'.oa_evaluator = app.oa_evaluator
        /\ config.valid
    BY <1>1 DEF StartInv, TypeOK, Apps, Configs, Progress, Starting
  <1>3. TypeOK' /\ ReasonsKept'
    BY <1>1, <1>2, Spelling DEF StartInv, TypeOK, ReasonsKept, StageNames
  <1>4. Progress'
    BY <1>1, <1>2, Spelling
       DEF StartInv, Progress, Starting, Ended, AllPending, EvaluationConfigComplete
  <1>5. Published'
    BY <1>1, <1>2, Spelling DEF StartInv, Progress, Published, AllPending, Ended, OAEnabled
  <1>6. Equipped'
    BY <1>1, <1>2, Spelling
       DEF StartInv, Progress, Equipped, Published, AllPending, Ended, Starting,
           EvaluationConfigComplete
  <1>7. OAComponents'
    BY <1>1, <1>2, Spelling, NotReadyRegistered
    DEF StartInv, Progress, Published, OAComponents, Equipped, OASet, OAEnabled, AllPending,
        Ended, Starting, IsPending, IsReady
  <1>8. OAFailed' /\ WhoIsNotReady'
    BY <1>1, <1>2, Spelling
    DEF StartInv, Progress, OAComponents, OAFailed, WhoIsNotReady, OASet, OAEnabled, AllPending,
        Ended, Starting, IsPending, IsReady, HasFailed
  <1>9. QED
    BY <1>3, <1>4, <1>5, <1>6, <1>7, <1>8 DEF StartInv

\* The audit writer is up.
LEMMA WriterInv ==
  ASSUME StartInv, BuildWriter, config.policy_path \/ config.oa_enabled
  PROVE  StartInv'
  <1>1. /\ stage = "writer" /\ stage' = "pending"
        /\ UNCHANGED <<config, starts, failure>>
        /\ app' = [app EXCEPT !.writer = TRUE]
        /\ readiness' = mark_ready(readiness, "audit_writer")
        /\ config.policy_path \/ config.oa_enabled
    BY DEF BuildWriter, Proceed
  <1>2. MadeReady(readiness, readiness', "audit_writer")
    BY <1>1, MarkReady, Spelling DEF StartInv, TypeOK, ReasonsKept, Kept
  <1>3. /\ app' \in Apps /\ (app'.writer)
        /\ app'.config = app.config /\ app'.auth = app.auth /\ app'.evaluator = app.evaluator
        /\ app'.oa_route = app.oa_route /\ app'.oa_evaluator = app.oa_evaluator
        /\ config.valid
    BY <1>1 DEF StartInv, TypeOK, Apps, Configs, Progress, Starting
  <1>4. TypeOK' /\ ReasonsKept'
    BY <1>1, <1>2, <1>3, Spelling DEF StartInv, TypeOK, ReasonsKept, MadeReady, Kept, StageNames
  <1>5. Progress'
    BY <1>1, <1>2, <1>3, Spelling
       DEF StartInv, Progress, Starting, Ended, AllPending, EvaluationConfigComplete
  <1>6. Published'
    BY <1>1, <1>2, <1>3, Spelling
       DEF StartInv, Progress, Published, MadeReady, AllPending, Ended, OAEnabled
  <1>7. Equipped'
    BY <1>1, <1>2, <1>3, Spelling
       DEF StartInv, Progress, Equipped, MadeReady, Published, AllPending, Ended, Starting,
           EvaluationConfigComplete
  <1>8. OAComponents'
    BY <1>1, <1>2, <1>3, Spelling, NotReadyRegistered
       DEF StartInv, Progress, Published, OAComponents, Equipped, MadeReady, OASet, OAEnabled,
           AllPending, Ended, Starting, IsPending, IsReady
  <1>9. OAFailed' /\ WhoIsNotReady'
    BY <1>1, <1>2, <1>3, Spelling
       DEF StartInv, Progress, OAComponents, OAFailed, WhoIsNotReady, MadeReady, OASet, OAEnabled,
           AllPending, Ended, Starting, IsPending, IsReady, HasFailed
  <1>10. QED
    BY <1>4, <1>5, <1>6, <1>7, <1>8, <1>9 DEF StartInv

\* Nothing to evaluate with: no audit writer is built.
LEMMA NoWriterInv ==
  ASSUME StartInv, BuildWriter, ~(config.policy_path \/ config.oa_enabled)
  PROVE  StartInv'
  <1>1. /\ stage = "writer" /\ stage' = "pending"
        /\ UNCHANGED <<config, starts, failure, app, readiness>>
        /\ ~(config.policy_path \/ config.oa_enabled)
    BY DEF BuildWriter, Proceed
  <1>3. TypeOK' /\ ReasonsKept'
    BY <1>1, Spelling DEF StartInv, TypeOK, ReasonsKept, StageNames
  <1>4. Progress'
    BY <1>1, Spelling DEF StartInv, Progress, Starting, Ended, AllPending, EvaluationConfigComplete
  <1>5. Published'
    BY <1>1, Spelling DEF StartInv, Progress, Published, AllPending, Ended, OAEnabled
  <1>6. Equipped'
    BY <1>1, Spelling DEF StartInv, Progress, Equipped, Published, AllPending, Ended, Starting,
                EvaluationConfigComplete
  <1>7. OAComponents'
    BY <1>1, Spelling, NotReadyRegistered
    DEF StartInv, Progress, Published, OAComponents, Equipped, OASet, OAEnabled, AllPending,
        Ended, Starting, IsPending, IsReady
  <1>8. OAFailed' /\ WhoIsNotReady'
    BY <1>1, Spelling
    DEF StartInv, Progress, OAComponents, OAFailed, WhoIsNotReady, OASet, OAEnabled, AllPending,
        Ended, Starting, IsPending, IsReady, HasFailed
  <1>9. QED
    BY <1>3, <1>4, <1>5, <1>6, <1>7, <1>8 DEF StartInv

\* The operation-aware components enter the tracker pending, the mode ready.
LEMMA PendingInv ==
  ASSUME StartInv, RegisterOperationAware, config.oa_enabled
  PROVE  StartInv'
  <1> DEFINE m1 == Pending(readiness, Bundle)
             m2 == Pending(m1, Evaluator)
             m3 == Pending(m2, Semantics)
  <1>1. /\ stage = "pending" /\ stage' = "validate"
        /\ UNCHANGED <<config, starts, failure, app>>
        /\ readiness' = mark_ready(m3, "operation_aware_mode_enabled")
    BY DEF RegisterOperationAware, Proceed, Bundle, Evaluator, Semantics
  <1>2. MadeNotReady(readiness, m1, "pending", Bundle)
    BY MarkNotReady, Spelling DEF StartInv, TypeOK, ReasonsKept, Kept, Pending
  <1> HIDE DEF m1
  <1>3. MadeNotReady(m1, m2, "pending", Evaluator)
    BY <1>2, MarkNotReady, Spelling DEF MadeNotReady, Pending
  <1> HIDE DEF m2
  <1>4. MadeNotReady(m2, m3, "pending", Semantics)
    BY <1>3, MarkNotReady, Spelling DEF MadeNotReady, Pending
  <1> HIDE DEF m3
  <1>5. MadeReady(m3, readiness', "operation_aware_mode_enabled")
    BY <1>1, <1>4, MarkReady, Spelling DEF MadeNotReady
  <1>6. /\ Kept(readiness')
        /\ Registered(readiness') = Registered(readiness) \cup OASet
                                      \cup {"operation_aware_mode_enabled"}
        /\ NotReady(readiness') =
              (NotReady(readiness) \cup OASet) \ {"operation_aware_mode_enabled"}
        /\ \A c \in OASet : ReasonOf(readiness', c) = "pending"
    BY <1>2, <1>3, <1>4, <1>5, Spelling DEF MadeNotReady, MadeReady, OASet
  <1>7. TypeOK' /\ ReasonsKept'
    BY <1>1, <1>6, Spelling DEF StartInv, TypeOK, ReasonsKept, Kept, StageNames
  <1>8. Progress'
    BY <1>1, <1>6, Spelling
       DEF StartInv, Progress, Starting, Ended, AllPending, EvaluationConfigComplete
  <1>9. Published'
    BY <1>1, <1>6, Spelling DEF StartInv, Progress, Published, AllPending, Ended, OAEnabled
  <1>10. Equipped'
    BY <1>1, <1>6, Spelling
       DEF StartInv, Progress, Equipped, Published, AllPending, Ended, Starting,
           EvaluationConfigComplete
  <1>11. OAComponents'
    BY <1>1, <1>6, Spelling, NotReadyRegistered
    DEF StartInv, Progress, Published, OAComponents, Equipped, OASet, OAEnabled, AllPending,
        Ended, Starting, IsPending, IsReady
  <1>12. OAFailed' /\ WhoIsNotReady'
    BY <1>1, <1>6, Spelling
    DEF StartInv, Progress, OAComponents, OAFailed, WhoIsNotReady, OASet, OAEnabled, AllPending,
        Ended, Starting, IsPending, IsReady, HasFailed
  <1>13. QED
    BY <1>7, <1>8, <1>9, <1>10, <1>11, <1>12 DEF StartInv

\* Without operation-aware mode there is nothing to mark pending.
LEMMA NoPendingInv ==
  ASSUME StartInv, RegisterOperationAware, ~config.oa_enabled
  PROVE  StartInv'
  <1>1. /\ stage = "pending" /\ stage' = "validate"
        /\ UNCHANGED <<config, starts, failure, app, readiness>>
        /\ ~config.oa_enabled
    BY DEF RegisterOperationAware, Proceed
  <1>3. TypeOK' /\ ReasonsKept'
    BY <1>1, Spelling DEF StartInv, TypeOK, ReasonsKept, StageNames
  <1>4. Progress'
    BY <1>1, Spelling DEF StartInv, Progress, Starting, Ended, AllPending, EvaluationConfigComplete
  <1>5. Published'
    BY <1>1, Spelling DEF StartInv, Progress, Published, AllPending, Ended, OAEnabled
  <1>6. Equipped'
    BY <1>1, Spelling DEF StartInv, Progress, Equipped, Published, AllPending, Ended, Starting,
                EvaluationConfigComplete
  <1>7. OAComponents'
    BY <1>1, Spelling, NotReadyRegistered
    DEF StartInv, Progress, Published, OAComponents, Equipped, OASet, OAEnabled, AllPending,
        Ended, Starting, IsPending, IsReady
  <1>8. OAFailed' /\ WhoIsNotReady'
    BY <1>1, Spelling
    DEF StartInv, Progress, OAComponents, OAFailed, WhoIsNotReady, OASet, OAEnabled, AllPending,
        Ended, Starting, IsPending, IsReady, HasFailed
  <1>9. QED
    BY <1>3, <1>4, <1>5, <1>6, <1>7, <1>8 DEF StartInv

\* The evaluation settings are complete.
LEMMA ValidatedInv ==
  ASSUME StartInv, stage = "validate", Proceed("auth"), EvaluationConfigComplete,
         UNCHANGED readiness, UNCHANGED app
  PROVE  StartInv'
  <1>1. /\ stage = "validate" /\ stage' = "auth"
        /\ UNCHANGED <<config, starts, failure>>
    BY DEF Proceed
  <1>3. TypeOK' /\ ReasonsKept'
    BY <1>1, Spelling DEF StartInv, TypeOK, ReasonsKept, StageNames
  <1>4. Progress'
    BY <1>1, Spelling DEF StartInv, Progress, Starting, Ended, AllPending, EvaluationConfigComplete
  <1>5. Published'
    BY <1>1, Spelling DEF StartInv, Progress, Published, AllPending, Ended, OAEnabled
  <1>6. Equipped'
    BY <1>1, Spelling DEF StartInv, Progress, Equipped, Published, AllPending, Ended, Starting,
                EvaluationConfigComplete
  <1>7. OAComponents'
    BY <1>1, Spelling, NotReadyRegistered
    DEF StartInv, Progress, Published, OAComponents, Equipped, OASet, OAEnabled, AllPending,
        Ended, Starting, IsPending, IsReady
  <1>8. OAFailed' /\ WhoIsNotReady'
    BY <1>1, Spelling
    DEF StartInv, Progress, OAComponents, OAFailed, WhoIsNotReady, OASet, OAEnabled, AllPending,
        Ended, Starting, IsPending, IsReady, HasFailed
  <1>9. QED
    BY <1>3, <1>4, <1>5, <1>6, <1>7, <1>8 DEF StartInv

\* No OIDC settings, no verifier.
LEMMA NoOIDCInv ==
  ASSUME StartInv, stage = "auth", Proceed("policy"),
         config.auth_mode = "oidc", config.oidc_issuer # "set", UNCHANGED readiness, UNCHANGED app
  PROVE  StartInv'
  <1>1. /\ stage = "auth" /\ stage' = "policy"
        /\ UNCHANGED <<config, starts, failure>>
    BY DEF Proceed
  <1>3. TypeOK' /\ ReasonsKept'
    BY <1>1, Spelling DEF StartInv, TypeOK, ReasonsKept, StageNames
  <1>4. Progress'
    BY <1>1, Spelling DEF StartInv, Progress, Starting, Ended, AllPending, EvaluationConfigComplete
  <1>5. Published'
    BY <1>1, Spelling DEF StartInv, Progress, Published, AllPending, Ended, OAEnabled
  <1>6. Equipped'
    BY <1>1, Spelling DEF StartInv, Progress, Equipped, Published, AllPending, Ended, Starting,
                EvaluationConfigComplete
  <1>7. OAComponents'
    BY <1>1, Spelling, NotReadyRegistered
    DEF StartInv, Progress, Published, OAComponents, Equipped, OASet, OAEnabled, AllPending,
        Ended, Starting, IsPending, IsReady
  <1>8. OAFailed' /\ WhoIsNotReady'
    BY <1>1, Spelling
    DEF StartInv, Progress, OAComponents, OAFailed, WhoIsNotReady, OASet, OAEnabled, AllPending,
        Ended, Starting, IsPending, IsReady, HasFailed
  <1>9. QED
    BY <1>3, <1>4, <1>5, <1>6, <1>7, <1>8 DEF StartInv

\* The verifier was built and its keys fetched.
LEMMA OIDCInv ==
  ASSUME StartInv, stage = "auth", VerifierAskedFor, Proceed("policy"),
         app' = [app EXCEPT !.auth = TRUE],
         readiness' = mark_ready(mark_ready(readiness, "oidc_configured"), "jwks_available")
  PROVE  StartInv'
  <1> DEFINE m == mark_ready(readiness, "oidc_configured")
  <1>1. /\ stage = "auth" /\ stage' = "policy"
        /\ UNCHANGED <<config, starts, failure>>
    BY DEF Proceed
  <1>2. MadeReady(readiness, m, "oidc_configured")
    BY MarkReady, Spelling DEF StartInv, TypeOK, ReasonsKept, Kept
  <1>3. readiness' = mark_ready(m, "jwks_available")
    OBVIOUS
  <1> HIDE DEF m
  <1>4. MadeReady(m, readiness', "jwks_available")
    BY <1>2, <1>3, MarkReady, Spelling DEF MadeReady
  <1>5. /\ Kept(readiness')
        /\ Registered(readiness') = Registered(readiness)
                                      \cup {"oidc_configured", "jwks_available"}
        /\ NotReady(readiness') = NotReady(readiness) \ {"oidc_configured", "jwks_available"}
        /\ \A c \in OASet : ReasonOf(readiness', c) = ReasonOf(readiness, c)
    BY <1>2, <1>4, Spelling DEF MadeReady, OASet
  <1>6. /\ app' \in Apps /\ (app'.auth)
        /\ app'.config = app.config /\ app'.writer = app.writer /\ app'.evaluator = app.evaluator
        /\ app'.oa_route = app.oa_route /\ app'.oa_evaluator = app.oa_evaluator
        /\ config.valid
    BY <1>1 DEF StartInv, TypeOK, Apps, Configs, Progress, Starting
  <1>7. TypeOK' /\ ReasonsKept'
    BY <1>1, <1>5, <1>6, Spelling DEF StartInv, TypeOK, ReasonsKept, Kept, StageNames
  <1>8. Progress'
    BY <1>1, <1>5, <1>6, Spelling
       DEF StartInv, Progress, Starting, Ended, AllPending, EvaluationConfigComplete
  <1>9. Published'
    BY <1>1, <1>5, <1>6, Spelling DEF StartInv, Progress, Published, AllPending, Ended, OAEnabled
  <1>10. Equipped'
    BY <1>1, <1>5, <1>6, Spelling
       DEF StartInv, Progress, Equipped, Published, AllPending, Ended, Starting,
           EvaluationConfigComplete
  <1>11. OAComponents'
    BY <1>1, <1>5, <1>6, Spelling, NotReadyRegistered
    DEF StartInv, Progress, Published, OAComponents, Equipped, OASet, OAEnabled, AllPending,
        Ended, Starting, IsPending, IsReady
  <1>12. OAFailed' /\ WhoIsNotReady'
    BY <1>1, <1>5, <1>6, Spelling
    DEF StartInv, Progress, OAComponents, OAFailed, WhoIsNotReady, OASet, OAEnabled, AllPending,
        Ended, Starting, IsPending, IsReady, HasFailed
  <1>13. QED
    BY <1>7, <1>8, <1>9, <1>10, <1>11, <1>12 DEF StartInv

\* The trust configuration of BASIS-local tokens was built.
LEMMA LocalInv ==
  ASSUME StartInv, stage = "auth", VerifierAskedFor, Proceed("policy"),
         readiness' = mark_ready(readiness, "basis_local_token_configured"),
         app' = [app EXCEPT !.auth = TRUE]
  PROVE  StartInv'
  <1>1. /\ stage = "auth" /\ stage' = "policy"
        /\ UNCHANGED <<config, starts, failure>>
    BY DEF Proceed
  <1>2. MadeReady(readiness, readiness', "basis_local_token_configured")
    BY MarkReady, Spelling DEF StartInv, TypeOK, ReasonsKept, Kept, Bundle, Evaluator, Semantics
  <1>3. /\ app' \in Apps /\ (app'.auth)
        /\ app'.config = app.config /\ app'.writer = app.writer /\ app'.evaluator = app.evaluator
        /\ app'.oa_route = app.oa_route /\ app'.oa_evaluator = app.oa_evaluator
        /\ config.valid
    BY <1>1 DEF StartInv, TypeOK, Apps, Configs, Progress, Starting
  <1>4. TypeOK' /\ ReasonsKept'
    BY <1>1, <1>2, <1>3, Spelling DEF StartInv, TypeOK, ReasonsKept, MadeReady, Kept, StageNames
  <1>5. Progress'
    BY <1>1, <1>2, <1>3, Spelling
       DEF StartInv, Progress, Starting, Ended, AllPending, EvaluationConfigComplete
  <1>6. Published'
    BY <1>1, <1>2, <1>3, Spelling
       DEF StartInv, Progress, Published, MadeReady, AllPending, Ended, OAEnabled
  <1>7. Equipped'
    BY <1>1, <1>2, <1>3, Spelling
       DEF StartInv, Progress, Equipped, MadeReady, Published, AllPending, Ended, Starting,
           EvaluationConfigComplete
  <1>8. OAComponents'
    BY <1>1, <1>2, <1>3, Spelling, NotReadyRegistered
       DEF StartInv, Progress, Published, OAComponents, Equipped, MadeReady, OASet, OAEnabled,
           AllPending, Ended, Starting, IsPending, IsReady
  <1>9. OAFailed' /\ WhoIsNotReady'
    BY <1>1, <1>2, <1>3, Spelling
       DEF StartInv, Progress, OAComponents, OAFailed, WhoIsNotReady, MadeReady, OASet, OAEnabled,
           AllPending, Ended, Starting, IsPending, IsReady, HasFailed
  <1>10. QED
    BY <1>4, <1>5, <1>6, <1>7, <1>8, <1>9 DEF StartInv

\* The policy was loaded.
LEMMA PolicyInv ==
  ASSUME StartInv, stage = "policy", Proceed("evaluator"),
         readiness' = mark_ready(readiness, "policy_loaded"), UNCHANGED app
  PROVE  StartInv'
  <1>1. /\ stage = "policy" /\ stage' = "evaluator"
        /\ UNCHANGED <<config, starts, failure>>
    BY DEF Proceed
  <1>2. MadeReady(readiness, readiness', "policy_loaded")
    BY MarkReady, Spelling DEF StartInv, TypeOK, ReasonsKept, Kept, Bundle, Evaluator, Semantics
  <1>3. TypeOK' /\ ReasonsKept'
    BY <1>1, <1>2, Spelling DEF StartInv, TypeOK, ReasonsKept, MadeReady, Kept, StageNames
  <1>4. Progress'
    BY <1>1, <1>2, Spelling
       DEF StartInv, Progress, Starting, Ended, AllPending, EvaluationConfigComplete
  <1>5. Published'
    BY <1>1, <1>2, Spelling
       DEF StartInv, Progress, Published, MadeReady, AllPending, Ended, OAEnabled
  <1>6. Equipped'
    BY <1>1, <1>2, Spelling
       DEF StartInv, Progress, Equipped, MadeReady, Published, AllPending, Ended, Starting,
           EvaluationConfigComplete
  <1>7. OAComponents'
    BY <1>1, <1>2, Spelling, NotReadyRegistered
       DEF StartInv, Progress, Published, OAComponents, Equipped, MadeReady, OASet, OAEnabled,
           AllPending, Ended, Starting, IsPending, IsReady
  <1>8. OAFailed' /\ WhoIsNotReady'
    BY <1>1, <1>2, Spelling
       DEF StartInv, Progress, OAComponents, OAFailed, WhoIsNotReady, MadeReady, OASet, OAEnabled,
           AllPending, Ended, Starting, IsPending, IsReady, HasFailed
  <1>9. QED
    BY <1>3, <1>4, <1>5, <1>6, <1>7, <1>8 DEF StartInv

\* No policy path is configured.
LEMMA NoPolicyInv ==
  ASSUME StartInv, stage = "policy", Proceed("evaluator"), ~config.policy_path,
         UNCHANGED readiness, UNCHANGED app
  PROVE  StartInv'
  <1>1. /\ stage = "policy" /\ stage' = "evaluator"
        /\ UNCHANGED <<config, starts, failure>>
    BY DEF Proceed
  <1>3. TypeOK' /\ ReasonsKept'
    BY <1>1, Spelling DEF StartInv, TypeOK, ReasonsKept, StageNames
  <1>4. Progress'
    BY <1>1, Spelling DEF StartInv, Progress, Starting, Ended, AllPending, EvaluationConfigComplete
  <1>5. Published'
    BY <1>1, Spelling DEF StartInv, Progress, Published, AllPending, Ended, OAEnabled
  <1>6. Equipped'
    BY <1>1, Spelling DEF StartInv, Progress, Equipped, Published, AllPending, Ended, Starting,
                EvaluationConfigComplete
  <1>7. OAComponents'
    BY <1>1, Spelling, NotReadyRegistered
    DEF StartInv, Progress, Published, OAComponents, Equipped, OASet, OAEnabled, AllPending,
        Ended, Starting, IsPending, IsReady
  <1>8. OAFailed' /\ WhoIsNotReady'
    BY <1>1, Spelling
    DEF StartInv, Progress, OAComponents, OAFailed, WhoIsNotReady, OASet, OAEnabled, AllPending,
        Ended, Starting, IsPending, IsReady, HasFailed
  <1>9. QED
    BY <1>3, <1>4, <1>5, <1>6, <1>7, <1>8 DEF StartInv

\* The evaluator is up, and the operation-aware stages follow.
LEMMA EvaluatorOAInv ==
  ASSUME StartInv, stage = "evaluator", Proceed("oa_bundle"),
         config.policy_path, config.oa_enabled,
         readiness' = mark_ready(readiness, "evaluator_initialized"),
         app' = [app EXCEPT !.evaluator = TRUE]
  PROVE  StartInv'
  <1>1. /\ stage = "evaluator" /\ stage' = "oa_bundle"
        /\ UNCHANGED <<config, starts, failure>>
    BY DEF Proceed
  <1>2. MadeReady(readiness, readiness', "evaluator_initialized")
    BY MarkReady, Spelling DEF StartInv, TypeOK, ReasonsKept, Kept, Bundle, Evaluator, Semantics
  <1>3. /\ app' \in Apps /\ (app'.evaluator)
        /\ app'.config = app.config /\ app'.writer = app.writer /\ app'.auth = app.auth
        /\ app'.oa_route = app.oa_route /\ app'.oa_evaluator = app.oa_evaluator
        /\ config.valid
    BY <1>1 DEF StartInv, TypeOK, Apps, Configs, Progress, Starting
  <1>4. TypeOK' /\ ReasonsKept'
    BY <1>1, <1>2, <1>3, Spelling DEF StartInv, TypeOK, ReasonsKept, MadeReady, Kept, StageNames
  <1>5. Progress'
    BY <1>1, <1>2, <1>3, Spelling
       DEF StartInv, Progress, Starting, Ended, AllPending, EvaluationConfigComplete
  <1>6. Published'
    BY <1>1, <1>2, <1>3, Spelling
       DEF StartInv, Progress, Published, MadeReady, AllPending, Ended, OAEnabled
  <1>7. Equipped'
    BY <1>1, <1>2, <1>3, Spelling
       DEF StartInv, Progress, Equipped, MadeReady, Published, AllPending, Ended, Starting,
           EvaluationConfigComplete
  <1>8. OAComponents'
    BY <1>1, <1>2, <1>3, Spelling, NotReadyRegistered
       DEF StartInv, Progress, Published, OAComponents, Equipped, MadeReady, OASet, OAEnabled,
           AllPending, Ended, Starting, IsPending, IsReady
  <1>9. OAFailed' /\ WhoIsNotReady'
    BY <1>1, <1>2, <1>3, Spelling
       DEF StartInv, Progress, OAComponents, OAFailed, WhoIsNotReady, MadeReady, OASet, OAEnabled,
           AllPending, Ended, Starting, IsPending, IsReady, HasFailed
  <1>10. QED
    BY <1>4, <1>5, <1>6, <1>7, <1>8, <1>9 DEF StartInv

\* The evaluator is up, and is the last stage.
LEMMA EvaluatorInv ==
  ASSUME StartInv, stage = "evaluator", Proceed("serving"),
         config.policy_path, ~config.oa_enabled,
         readiness' = mark_ready(readiness, "evaluator_initialized"),
         app' = [app EXCEPT !.evaluator = TRUE]
  PROVE  StartInv'
  <1>1. /\ stage = "evaluator" /\ stage' = "serving"
        /\ UNCHANGED <<config, starts, failure>>
    BY DEF Proceed
  <1>2. MadeReady(readiness, readiness', "evaluator_initialized")
    BY MarkReady, Spelling DEF StartInv, TypeOK, ReasonsKept, Kept, Bundle, Evaluator, Semantics
  <1>3. /\ app' \in Apps /\ (app'.evaluator)
        /\ app'.config = app.config /\ app'.writer = app.writer /\ app'.auth = app.auth
        /\ app'.oa_route = app.oa_route /\ app'.oa_evaluator = app.oa_evaluator
        /\ config.valid
    BY <1>1 DEF StartInv, TypeOK, Apps, Configs, Progress, Starting
  <1>4. TypeOK' /\ ReasonsKept'
    BY <1>1, <1>2, <1>3, Spelling DEF StartInv, TypeOK, ReasonsKept, MadeReady, Kept, StageNames
  <1>5. Progress'
    BY <1>1, <1>2, <1>3, Spelling
       DEF StartInv, Progress, Starting, Ended, AllPending, EvaluationConfigComplete
  <1>6. Published'
    BY <1>1, <1>2, <1>3, Spelling
       DEF StartInv, Progress, Published, MadeReady, AllPending, Ended, OAEnabled
  <1>7. Equipped'
    BY <1>1, <1>2, <1>3, Spelling
       DEF StartInv, Progress, Equipped, MadeReady, Published, AllPending, Ended, Starting,
           EvaluationConfigComplete
  <1>8. OAComponents'
    BY <1>1, <1>2, <1>3, Spelling, NotReadyRegistered
       DEF StartInv, Progress, Published, OAComponents, Equipped, MadeReady, OASet, OAEnabled,
           AllPending, Ended, Starting, IsPending, IsReady
  <1>9. OAFailed' /\ WhoIsNotReady'
    BY <1>1, <1>2, <1>3, Spelling
       DEF StartInv, Progress, OAComponents, OAFailed, WhoIsNotReady, MadeReady, OASet, OAEnabled,
           AllPending, Ended, Starting, IsPending, IsReady, HasFailed
  <1>10. QED
    BY <1>4, <1>5, <1>6, <1>7, <1>8, <1>9 DEF StartInv

\* No policy, no evaluator, and the operation-aware stages follow.
LEMMA NoEvaluatorOAInv ==
  ASSUME StartInv, stage = "evaluator", Proceed("oa_bundle"),
         ~config.policy_path, config.oa_enabled, UNCHANGED readiness, UNCHANGED app
  PROVE  StartInv'
  <1>1. /\ stage = "evaluator" /\ stage' = "oa_bundle"
        /\ UNCHANGED <<config, starts, failure>>
    BY DEF Proceed
  <1>3. TypeOK' /\ ReasonsKept'
    BY <1>1, Spelling DEF StartInv, TypeOK, ReasonsKept, StageNames
  <1>4. Progress'
    BY <1>1, Spelling DEF StartInv, Progress, Starting, Ended, AllPending, EvaluationConfigComplete
  <1>5. Published'
    BY <1>1, Spelling DEF StartInv, Progress, Published, AllPending, Ended, OAEnabled
  <1>6. Equipped'
    BY <1>1, Spelling DEF StartInv, Progress, Equipped, Published, AllPending, Ended, Starting,
                EvaluationConfigComplete
  <1>7. OAComponents'
    BY <1>1, Spelling, NotReadyRegistered
    DEF StartInv, Progress, Published, OAComponents, Equipped, OASet, OAEnabled, AllPending,
        Ended, Starting, IsPending, IsReady
  <1>8. OAFailed' /\ WhoIsNotReady'
    BY <1>1, Spelling
    DEF StartInv, Progress, OAComponents, OAFailed, WhoIsNotReady, OASet, OAEnabled, AllPending,
        Ended, Starting, IsPending, IsReady, HasFailed
  <1>9. QED
    BY <1>3, <1>4, <1>5, <1>6, <1>7, <1>8 DEF StartInv

\* No policy, no evaluator, and the startup is over.
LEMMA NoEvaluatorInv ==
  ASSUME StartInv, stage = "evaluator", Proceed("serving"),
         ~config.policy_path, ~config.oa_enabled, UNCHANGED readiness, UNCHANGED app
  PROVE  StartInv'
  <1>1. /\ stage = "evaluator" /\ stage' = "serving"
        /\ UNCHANGED <<config, starts, failure>>
    BY DEF Proceed
  <1>3. TypeOK' /\ ReasonsKept'
    BY <1>1, Spelling DEF StartInv, TypeOK, ReasonsKept, StageNames
  <1>4. Progress'
    BY <1>1, Spelling DEF StartInv, Progress, Starting, Ended, AllPending, EvaluationConfigComplete
  <1>5. Published'
    BY <1>1, Spelling DEF StartInv, Progress, Published, AllPending, Ended, OAEnabled
  <1>6. Equipped'
    BY <1>1, Spelling DEF StartInv, Progress, Equipped, Published, AllPending, Ended, Starting,
                EvaluationConfigComplete
  <1>7. OAComponents'
    BY <1>1, Spelling, NotReadyRegistered
    DEF StartInv, Progress, Published, OAComponents, Equipped, OASet, OAEnabled, AllPending,
        Ended, Starting, IsPending, IsReady
  <1>8. OAFailed' /\ WhoIsNotReady'
    BY <1>1, Spelling
    DEF StartInv, Progress, OAComponents, OAFailed, WhoIsNotReady, OASet, OAEnabled, AllPending,
        Ended, Starting, IsPending, IsReady, HasFailed
  <1>9. QED
    BY <1>3, <1>4, <1>5, <1>6, <1>7, <1>8 DEF StartInv

\* The operation-aware bundle was loaded.
LEMMA BundleInv ==
  ASSUME StartInv, stage = "oa_bundle", Proceed("oa_construct"),
         readiness' = mark_ready(readiness, Bundle), UNCHANGED app
  PROVE  StartInv'
  <1>1. /\ stage = "oa_bundle" /\ stage' = "oa_construct"
        /\ UNCHANGED <<config, starts, failure>>
    BY DEF Proceed
  <1>2. MadeReady(readiness, readiness', Bundle)
    BY MarkReady, Spelling DEF StartInv, TypeOK, ReasonsKept, Kept, Bundle, Evaluator, Semantics
  <1>3. TypeOK' /\ ReasonsKept'
    BY <1>1, <1>2, Spelling DEF StartInv, TypeOK, ReasonsKept, MadeReady, Kept, StageNames
  <1>4. Progress'
    BY <1>1, <1>2, Spelling
       DEF StartInv, Progress, Starting, Ended, AllPending, EvaluationConfigComplete
  <1>5. Published'
    BY <1>1, <1>2, Spelling
       DEF StartInv, Progress, Published, MadeReady, AllPending, Ended, OAEnabled
  <1>6. Equipped'
    BY <1>1, <1>2, Spelling
       DEF StartInv, Progress, Equipped, MadeReady, Published, AllPending, Ended, Starting,
           EvaluationConfigComplete
  <1>7. OAComponents'
    BY <1>1, <1>2, Spelling, NotReadyRegistered
       DEF StartInv, Progress, Published, OAComponents, Equipped, MadeReady, OASet, OAEnabled,
           AllPending, Ended, Starting, IsPending, IsReady
  <1>8. OAFailed' /\ WhoIsNotReady'
    BY <1>1, <1>2, Spelling
       DEF StartInv, Progress, OAComponents, OAFailed, WhoIsNotReady, MadeReady, OASet, OAEnabled,
           AllPending, Ended, Starting, IsPending, IsReady, HasFailed
  <1>9. QED
    BY <1>3, <1>4, <1>5, <1>6, <1>7, <1>8 DEF StartInv

\* The operation-aware evaluator was constructed.
LEMMA ConstructInv ==
  ASSUME StartInv, stage = "oa_construct", Proceed("oa_preflight"),
         readiness' = mark_ready(readiness, Evaluator), UNCHANGED app
  PROVE  StartInv'
  <1>1. /\ stage = "oa_construct" /\ stage' = "oa_preflight"
        /\ UNCHANGED <<config, starts, failure>>
    BY DEF Proceed
  <1>2. MadeReady(readiness, readiness', Evaluator)
    BY MarkReady, Spelling DEF StartInv, TypeOK, ReasonsKept, Kept, Bundle, Evaluator, Semantics
  <1>3. TypeOK' /\ ReasonsKept'
    BY <1>1, <1>2, Spelling DEF StartInv, TypeOK, ReasonsKept, MadeReady, Kept, StageNames
  <1>4. Progress'
    BY <1>1, <1>2, Spelling
       DEF StartInv, Progress, Starting, Ended, AllPending, EvaluationConfigComplete
  <1>5. Published'
    BY <1>1, <1>2, Spelling
       DEF StartInv, Progress, Published, MadeReady, AllPending, Ended, OAEnabled
  <1>6. Equipped'
    BY <1>1, <1>2, Spelling
       DEF StartInv, Progress, Equipped, MadeReady, Published, AllPending, Ended, Starting,
           EvaluationConfigComplete
  <1>7. OAComponents'
    BY <1>1, <1>2, Spelling, NotReadyRegistered
       DEF StartInv, Progress, Published, OAComponents, Equipped, MadeReady, OASet, OAEnabled,
           AllPending, Ended, Starting, IsPending, IsReady
  <1>8. OAFailed' /\ WhoIsNotReady'
    BY <1>1, <1>2, Spelling
       DEF StartInv, Progress, OAComponents, OAFailed, WhoIsNotReady, MadeReady, OASet, OAEnabled,
           AllPending, Ended, Starting, IsPending, IsReady, HasFailed
  <1>9. QED
    BY <1>3, <1>4, <1>5, <1>6, <1>7, <1>8 DEF StartInv

\* The preflight passed and the application serves.
LEMMA PreflightInv ==
  ASSUME StartInv, stage = "oa_preflight", Proceed("serving"),
         readiness' = mark_ready(readiness, Semantics),
         app' = [app EXCEPT !.oa_evaluator = TRUE]
  PROVE  StartInv'
  <1>1. /\ stage = "oa_preflight" /\ stage' = "serving"
        /\ UNCHANGED <<config, starts, failure>>
    BY DEF Proceed
  <1>2. MadeReady(readiness, readiness', Semantics)
    BY MarkReady, Spelling DEF StartInv, TypeOK, ReasonsKept, Kept, Bundle, Evaluator, Semantics
  <1>3. /\ app' \in Apps /\ (app'.oa_evaluator)
        /\ app'.config = app.config /\ app'.writer = app.writer /\ app'.auth = app.auth
        /\ app'.evaluator = app.evaluator /\ app'.oa_route = app.oa_route
        /\ config.valid
    BY <1>1 DEF StartInv, TypeOK, Apps, Configs, Progress, Starting
  <1>4. TypeOK' /\ ReasonsKept'
    BY <1>1, <1>2, <1>3, Spelling DEF StartInv, TypeOK, ReasonsKept, MadeReady, Kept, StageNames
  <1>5. Progress'
    BY <1>1, <1>2, <1>3, Spelling
       DEF StartInv, Progress, Starting, Ended, AllPending, EvaluationConfigComplete
  <1>6. Published'
    BY <1>1, <1>2, <1>3, Spelling
       DEF StartInv, Progress, Published, MadeReady, AllPending, Ended, OAEnabled
  <1>7. Equipped'
    BY <1>1, <1>2, <1>3, Spelling
       DEF StartInv, Progress, Equipped, MadeReady, Published, AllPending, Ended, Starting,
           EvaluationConfigComplete
  <1>8. OAComponents'
    BY <1>1, <1>2, <1>3, Spelling, NotReadyRegistered
       DEF StartInv, Progress, Published, OAComponents, Equipped, MadeReady, OASet, OAEnabled,
           AllPending, Ended, Starting, IsPending, IsReady
  <1>9. OAFailed' /\ WhoIsNotReady'
    BY <1>1, <1>2, <1>3, Spelling
       DEF StartInv, Progress, OAComponents, OAFailed, WhoIsNotReady, MadeReady, OASet, OAEnabled,
           AllPending, Ended, Starting, IsPending, IsReady, HasFailed
  <1>10. QED
    BY <1>4, <1>5, <1>6, <1>7, <1>8, <1>9 DEF StartInv

\* The except clause: someone is not ready when the application serves.
LEMMA CatchInv ==
  ASSUME StartInv, Catch
  PROVE  StartInv'
  <1>1. /\ stage = "except" /\ stage' = "serving"
        /\ UNCHANGED <<config, starts, failure, app>>
    BY DEF Catch
  <1>2. /\ Kept(readiness')
        /\ Registered(readiness) \subseteq Registered(readiness')
        /\ Registered(readiness') \subseteq Registered(readiness) \cup {"app"}
        /\ NotReady(readiness') =
              IF NotReady(readiness) = {} THEN {"app"} ELSE NotReady(readiness)
        /\ \A c \in OASet : ReasonOf(readiness', c) = ReasonOf(readiness, c)
    <2>1. CASE NotReady(readiness) = {}
      <3>1. MadeNotReady(readiness, readiness', "failed", "app")
        BY <2>1, MarkNotReady, Spelling DEF Catch, StartInv, TypeOK, ReasonsKept, Kept
      <3>2. QED
        BY <2>1, <3>1, Spelling DEF MadeNotReady, OASet
    <2>2. CASE NotReady(readiness) # {}
      BY <2>2 DEF Catch, StartInv, TypeOK, ReasonsKept, Kept
    <2>3. QED
      BY <2>1, <2>2
  <1>3. TypeOK' /\ ReasonsKept'
    BY <1>1, <1>2, Spelling DEF StartInv, TypeOK, ReasonsKept, Kept, StageNames
  <1>4. Progress'
    BY <1>1, <1>2, Spelling
       DEF StartInv, Progress, Starting, Ended, AllPending, EvaluationConfigComplete
  <1>5. Published'
    BY <1>1, <1>2, Spelling DEF StartInv, Progress, Published, AllPending, Ended, OAEnabled
  <1>6. Equipped'
    BY <1>1, <1>2, Spelling
       DEF StartInv, Progress, Equipped, Published, AllPending, Ended, Starting,
           EvaluationConfigComplete
  <1>7. OAComponents'
    BY <1>1, <1>2, Spelling, NotReadyRegistered
    DEF StartInv, Progress, Published, OAComponents, Equipped, OASet, OAEnabled, AllPending,
        Ended, Starting, IsPending, IsReady
  <1>8. OAFailed' /\ WhoIsNotReady'
    BY <1>1, <1>2, Spelling
    DEF StartInv, Progress, OAComponents, OAFailed, WhoIsNotReady, OASet, OAEnabled, AllPending,
        Ended, Starting, IsPending, IsReady, HasFailed
  <1>9. QED
    BY <1>3, <1>4, <1>5, <1>6, <1>7, <1>8 DEF StartInv

\* The lifespan ends: the application is marked not ready.
LEMMA ShutdownInv ==
  ASSUME StartInv, Shutdown
  PROVE  StartInv'
  <1>1. /\ stage = "serving" /\ stage' = "stopped"
        /\ UNCHANGED <<config, starts, failure, app>>
    BY DEF Shutdown
  <1>2. MadeNotReady(readiness, readiness', "shutdown", "app")
    BY MarkNotReady, Spelling DEF Shutdown, StartInv, TypeOK, ReasonsKept, Kept
  <1>3. TypeOK' /\ ReasonsKept'
    BY <1>1, <1>2, Spelling DEF StartInv, TypeOK, ReasonsKept, MadeNotReady, Kept, StageNames
  <1>4. Progress'
    BY <1>1, <1>2, Spelling
       DEF StartInv, Progress, Starting, Ended, AllPending, EvaluationConfigComplete
  <1>5. Published'
    BY <1>1, <1>2, Spelling
       DEF StartInv, Progress, Published, MadeNotReady, AllPending, Ended, OAEnabled
  <1>6. Equipped'
    BY <1>1, <1>2, Spelling
       DEF StartInv, Progress, Equipped, MadeNotReady, Published, AllPending, Ended, Starting,
           EvaluationConfigComplete
  <1>7. OAComponents'
    BY <1>1, <1>2, Spelling, NotReadyRegistered
       DEF StartInv, Progress, Published, OAComponents, Equipped, MadeNotReady, OASet, OAEnabled,
           AllPending, Ended, Starting, IsPending, IsReady
  <1>8. OAFailed' /\ WhoIsNotReady'
    BY <1>1, <1>2, Spelling
       DEF StartInv, Progress, OAComponents, OAFailed, WhoIsNotReady, MadeNotReady, OASet,
           OAEnabled, AllPending, Ended, Starting, IsPending, IsReady, HasFailed
  <1>9. QED
    BY <1>3, <1>4, <1>5, <1>6, <1>7, <1>8 DEF StartInv

\* The lifespan is entered again.
LEMMA ReenterInv ==
  ASSUME StartInv, Reenter
  PROVE  StartInv'
  <1>1. /\ stage = "stopped" /\ stage' = "load"
        /\ starts' = starts + 1 /\ starts < MaxStarts /\ failure' = "none"
        /\ UNCHANGED <<config, app, readiness>>
    BY DEF Reenter
  <1>2. starts \in Nat /\ starts >= 1 /\ starts' > 1 /\ starts' \in 1..MaxStarts
    BY <1>1, MaxStartsAssumption DEF StartInv, TypeOK
  <1>3. TypeOK' /\ ReasonsKept'
    BY <1>1, <1>2, Spelling DEF StartInv, TypeOK, ReasonsKept, StageNames
  <1>4. Progress'
    BY <1>1, <1>2, Spelling
       DEF StartInv, Progress, Starting, Ended, AllPending, EvaluationConfigComplete
  <1>5. Published'
    BY <1>1, <1>2, Spelling DEF StartInv, Progress, Published, AllPending, Ended, OAEnabled
  <1>6. Equipped'
    BY <1>1, <1>2, Spelling
       DEF StartInv, Progress, Equipped, Published, AllPending, Ended, Starting,
           EvaluationConfigComplete
  <1>7. OAComponents'
    BY <1>1, <1>2, Spelling, NotReadyRegistered
    DEF StartInv, Progress, Published, OAComponents, Equipped, OASet, OAEnabled, AllPending,
        Ended, Starting, IsPending, IsReady
  <1>8. OAFailed' /\ WhoIsNotReady'
    BY <1>1, <1>2, Spelling
    DEF StartInv, Progress, OAComponents, OAFailed, WhoIsNotReady, OASet, OAEnabled, AllPending,
        Ended, Starting, IsPending, IsReady, HasFailed
  <1>9. QED
    BY <1>3, <1>4, <1>5, <1>6, <1>7, <1>8 DEF StartInv

\* Every step keeps the invariant.
LEMMA NextStartInv == StartInv /\ [Next]_vars => StartInv'
  <1> SUFFICES ASSUME StartInv, [Next]_vars PROVE StartInv'
    OBVIOUS
  <1>1. CASE LoadConfig
    BY <1>1, ConfigureInv, EscapeInv DEF LoadConfig
  <1>2. CASE RegisterRouter
    BY <1>2, RouterInv
  <1>3. CASE BuildWriter
    BY <1>3, WriterInv, NoWriterInv
  <1>4. CASE RegisterOperationAware
    BY <1>4, PendingInv, NoPendingInv
  <1>5. CASE ValidateConfig
    <2>1. CASE EvaluationConfigComplete
      BY <1>5, <2>1, ValidatedInv DEF ValidateConfig
    <2>2. CASE ~EvaluationConfigComplete
      <3>1. Fail("configuration_loaded") /\ stage \in AllPending /\ UNCHANGED app
        BY <1>5, <2>2 DEF ValidateConfig, AllPending
      <3>2. QED
        BY <3>1, FailInv, Spelling DEF OASet
    <2>3. QED
      BY <2>1, <2>2
  <1>6. CASE InitializeOIDC
    <2>1. stage = "auth" /\ stage \in AllPending
      BY <1>6 DEF InitializeOIDC, AllPending
    <2>2. ASSUME Fail("oidc_configured") \/ Fail("jwks_available"), UNCHANGED app
          PROVE  StartInv'
      BY <2>1, <2>2, FailInv, Spelling DEF OASet
    <2>3. ASSUME Escape, UNCHANGED app PROVE StartInv'
      BY <2>1, <2>3, EscapeInv
    <2>4. QED
      BY <1>6, <2>1, <2>2, <2>3, NoOIDCInv, OIDCInv DEF InitializeOIDC
  <1>7. CASE InitializeBasisLocal
    <2>1. stage = "auth" /\ stage \in AllPending
      BY <1>7 DEF InitializeBasisLocal, AllPending
    <2>2. ASSUME Fail("basis_local_token_configured"), UNCHANGED app PROVE StartInv'
      BY <2>1, <2>2, FailInv, Spelling DEF OASet
    <2>3. QED
      BY <1>7, <2>1, <2>2, LocalInv DEF InitializeBasisLocal
  <1>8. CASE LoadPolicy
    <2>1. stage = "policy" /\ stage \in AllPending /\ UNCHANGED app
      BY <1>8 DEF LoadPolicy, AllPending
    <2>2. ASSUME Fail("policy_loaded") PROVE StartInv'
      BY <2>1, <2>2, FailInv, Spelling DEF OASet
    <2>3. ASSUME Escape PROVE StartInv'
      BY <2>1, <2>3, EscapeInv
    <2>4. QED
      BY <1>8, <2>1, <2>2, <2>3, PolicyInv, NoPolicyInv DEF LoadPolicy
  <1>9. CASE BuildEvaluator
    BY <1>9, EvaluatorOAInv, EvaluatorInv, NoEvaluatorOAInv, NoEvaluatorInv DEF BuildEvaluator
  <1>10. CASE LoadBundle
    <2>1. stage = "oa_bundle" /\ stage \in AllPending /\ UNCHANGED app
      BY <1>10 DEF LoadBundle, AllPending
    <2>2. ASSUME Fail(Bundle) PROVE StartInv'
      BY <2>1, <2>2, FailInv, Spelling
    <2>3. ASSUME Escape PROVE StartInv'
      BY <2>1, <2>3, EscapeInv
    <2>4. \/ Fail(Bundle) \/ Escape
          \/ readiness' = mark_ready(readiness, Bundle) /\ Proceed("oa_construct")
      BY <1>10 DEF LoadBundle, Bundle
    <2>5. QED
      BY <2>1, <2>2, <2>3, <2>4, BundleInv
  <1>11. CASE ConstructEvaluator
    <2>1. stage = "oa_construct" /\ UNCHANGED app
      BY <1>11 DEF ConstructEvaluator
    <2>2. ASSUME Fail(Evaluator) PROVE StartInv'
      BY <2>1, <2>2, FailInv, Spelling
    <2>3. \/ Fail(Evaluator)
          \/ readiness' = mark_ready(readiness, Evaluator) /\ Proceed("oa_preflight")
      BY <1>11 DEF ConstructEvaluator, Evaluator
    <2>4. QED
      BY <2>1, <2>2, <2>3, ConstructInv
  <1>12. CASE Preflight
    <2>1. stage = "oa_preflight"
      BY <1>12 DEF Preflight
    <2>2. ASSUME Fail(Semantics), UNCHANGED app PROVE StartInv'
      BY <2>1, <2>2, FailInv, Spelling
    <2>3. ASSUME Escape, UNCHANGED app PROVE StartInv'
      BY <2>1, <2>3, EscapeInv
    <2>4. \/ Fail(Semantics) /\ UNCHANGED app
          \/ Escape /\ UNCHANGED app
          \/ /\ readiness' = mark_ready(readiness, Semantics)
             /\ app' = [app EXCEPT !.oa_evaluator = TRUE]
             /\ Proceed("serving")
      BY <1>12 DEF Preflight, Semantics
    <2>5. QED
      BY <2>1, <2>2, <2>3, <2>4, PreflightInv
  <1>13. CASE Catch
    BY <1>13, CatchInv
  <1>14. CASE Shutdown
    BY <1>14, ShutdownInv
  <1>15. CASE Reenter
    BY <1>15, ReenterInv
  <1>16. CASE UNCHANGED vars
    BY <1>16 DEF vars, StartInv, TypeOK, ReasonsKept, Progress, Published, Equipped, OAComponents,
                 OAFailed, WhoIsNotReady, OAEnabled, IsPending, IsReady, HasFailed,
                 EvaluationConfigComplete
  <1>17. QED
    BY <1>1, <1>2, <1>3, <1>4, <1>5, <1>6, <1>7, <1>8, <1>9, <1>10, <1>11, <1>12, <1>13,
       <1>14, <1>15, <1>16 DEF Next

\* The stage-by-stage invariant of the lifespan.
THEOREM StartInvariant == Spec => []StartInv
  BY InitStartInv, NextStartInv, PTL DEF Spec

\* Type correctness of the lifespan's state: the tracker, app.state and the stage.
THEOREM StartupTypeCorrect == Spec => []TypeOK
  <1>1. StartInv => TypeOK
    BY DEF StartInv
  <1>2. QED
    BY <1>1, StartInvariant, PTL

\* Whatever fails during startup, the request handlers find an app.state they are
\* prepared for, and the operation-aware route is never there without the writer.
THEOREM Servable == Spec => []ServesServableApp
  <1>1. StartInv => ServesServableApp
    <2> SUFFICES ASSUME StartInv, stage = "serving"
                 PROVE  /\ app \in ServableApps
                        /\ app.oa_route <=> config.valid /\ config.oa_enabled
                        /\ app.oa_route => app.writer
      BY DEF ServesServableApp
    <2>1. /\ app \in Apps
          /\ ~app.config => app = NoApp
          /\ app.evaluator => app.writer
          /\ app.oa_evaluator => app.writer /\ app.oa_route
          /\ app.oa_route <=> config.valid /\ config.oa_enabled
          /\ app.oa_route => app.writer
      BY DEF StartInv, TypeOK, Published, OAEnabled, Ended
    <2>2. ~app.config => app = [x \in DOMAIN app |-> FALSE]
      BY <2>1 DEF NoApp
    <2>3. QED
      BY <2>1, <2>2 DEF ServableApps
  <1>2. QED
    BY <1>1, StartInvariant, PTL

\* /ready answers 200 exactly after a first startup in which nothing failed.
THEOREM ReadyExactly == Spec => []ReadyIffStarted
  <1>1. StartInv => ReadyIffStarted
    BY DEF StartInv, TypeOK, WhoIsNotReady, ReadyIffStarted, is_ready
  <1>2. QED
    BY <1>1, StartInvariant, PTL

\* When /ready answers 200 app.state holds exactly what the configuration asks for.
THEOREM ReadyEquipped == Spec => []ReadyMeansEquipped
  <1>1. StartInv => ReadyMeansEquipped
    <2> SUFFICES ASSUME StartInv, stage = "serving", is_ready(readiness)
                 PROVE  /\ config.valid
                        /\ app.auth <=> VerifierAskedFor
                        /\ app.auth => app.evaluator
                        /\ app.evaluator <=> config.policy_path
                        /\ app.oa_evaluator <=> config.oa_enabled
      BY DEF ReadyMeansEquipped, VerifierAskedFor
    <2>1. failure = "none" /\ stage \in Ended
      BY DEF StartInv, WhoIsNotReady, is_ready, Ended
    <2>2. config.valid /\ EvaluationConfigComplete
      BY <2>1 DEF StartInv, Progress
    <2>3. config.auth_mode \in {"oidc", "basis_local_token"}
      BY DEF StartInv, TypeOK, Configs
    <2>4. VerifierAskedFor => config.policy_path
      BY <2>2, <2>3 DEF VerifierAskedFor, EvaluationConfigComplete
    <2>5. app.oa_evaluator => config.oa_enabled
      BY DEF StartInv, Published, OAEnabled
    <2>6. /\ {app.auth, app.evaluator, app.oa_evaluator} \subseteq BOOLEAN
          /\ {config.policy_path, config.oa_enabled} \subseteq BOOLEAN
      BY DEF StartInv, TypeOK, Apps, Configs
    <2>7. QED
      BY <2>1, <2>2, <2>4, <2>5, <2>6 DEF StartInv, Equipped, Published
  <1>2. QED
    BY <1>1, StartInvariant, PTL

\* A component that is registered and not among the failing ones is ready.
LEMMA ReadyValue ==
  ASSUME StartInv, NEW c
  PROVE  /\ IsReady(c) => readiness.ready[c]
         /\ c \in NotReady(readiness) =>
               /\ c \in Registered(readiness)
               /\ ~readiness.ready[c]
               /\ readiness.reasons[c] = ReasonOf(readiness, c)
  BY DEF StartInv, ReasonsKept, IsReady, NotReady, ReasonOf

\* The operation-aware evaluator handlers can see has passed its preflight.
THEOREM Vetted == Spec => []PublishedOnlyVetted
  <1>1. StartInv => PublishedOnlyVetted
    <2> SUFFICES ASSUME StartInv, app.oa_evaluator, NEW i \in 1..3
                 PROVE  /\ OAFallible[i] \in Registered(readiness)
                        /\ readiness.ready[OAFallible[i]]
      BY DEF PublishedOnlyVetted
    <2>1. OAFallible[i] \in OASet
      BY DEF OASet, Bundle, Evaluator, Semantics
    <2>2. IsReady(OAFallible[i])
      BY <2>1 DEF StartInv, OAComponents
    <2>3. QED
      BY <2>2, ReadyValue DEF IsReady
  <1>2. QED
    BY <1>1, StartInvariant, PTL

\* The failure matrix of the readiness documentation, for every configuration.
THEOREM Matrix == Spec => []FailureMatrix
  <1>1. StartInv => FailureMatrix
    <2> SUFFICES ASSUME StartInv, stage = "serving" PROVE FailureMatrix
      BY DEF FailureMatrix
    <2>1. stage \in Ended /\ OASet = {OAFallible[i] : i \in 1..3}
      BY DEF Ended, OASet, Bundle, Evaluator, Semantics
    <2>2. CASE ~OAEnabled
      <3>1. \A i \in 1..3 : OAFallible[i] \notin Registered(readiness)
        BY <2>1, <2>2 DEF StartInv, OAComponents
      <3>2. QED
        BY <2>2, <3>1 DEF FailureMatrix, OAEnabled
    <2>3. CASE OAEnabled
      <3>1. \A c \in OASet : c \in Registered(readiness)
        BY <2>1, <2>3 DEF StartInv, OAComponents
      <3>2. ASSUME failure = Bundle
            PROVE  /\ ~readiness.ready[Bundle] /\ readiness.reasons[Bundle] = "failed"
                   /\ ~readiness.ready[Evaluator] /\ readiness.reasons[Evaluator] = "pending"
                   /\ ~readiness.ready[Semantics] /\ readiness.reasons[Semantics] = "pending"
        BY <2>1, <2>3, <3>2, ReadyValue DEF StartInv, OAFailed, IsPending, HasFailed
      <3>3. ASSUME failure = Evaluator
            PROVE  /\ readiness.ready[Bundle]
                   /\ ~readiness.ready[Evaluator] /\ readiness.reasons[Evaluator] = "failed"
                   /\ ~readiness.ready[Semantics] /\ readiness.reasons[Semantics] = "pending"
        BY <2>1, <2>3, <3>3, ReadyValue DEF StartInv, OAFailed, IsPending, HasFailed
      <3>4. ASSUME failure = Semantics
            PROVE  /\ readiness.ready[Bundle]
                   /\ readiness.ready[Evaluator]
                   /\ ~readiness.ready[Semantics] /\ readiness.reasons[Semantics] = "failed"
        BY <2>1, <2>3, <3>4, ReadyValue DEF StartInv, OAFailed, HasFailed
      <3>5. ASSUME NEW i \in 1..3, failure = OAFallible[i], NEW j \in 1..3
            PROVE  /\ readiness.ready[OAFallible[j]] <=> j < i
                   /\ j >= i => readiness.reasons[OAFallible[j]] =
                                   IF j = i THEN "failed" ELSE "pending"
        BY <3>2, <3>3, <3>4, <3>5 DEF Bundle, Evaluator, Semantics
      <3>6. failure \in Components \ OASet =>
               \A c \in OASet : ReasonOf(readiness, c) = "pending"
        BY <2>1, <2>3 DEF StartInv, OAFailed, IsPending
      <3>7. "operation_aware_mode_enabled" \notin NotReady(readiness)
        BY DEF StartInv, OAComponents
      <3>8. /\ \A i \in 1..3 : OAFallible[i] \in Registered(readiness)
            /\ failure \in Components \ {OAFallible[i] : i \in 1..3} =>
                  \A j \in 1..3 : ReasonOf(readiness, OAFallible[j]) = "pending"
        BY <2>1, <3>1, <3>6
      <3>9. QED
        BY <2>3, <3>5, <3>7, <3>8 DEF FailureMatrix, OAEnabled
    <2>4. QED
      BY <2>2, <2>3
  <1>2. QED
    BY <1>1, StartInvariant, PTL
=============================================================================
