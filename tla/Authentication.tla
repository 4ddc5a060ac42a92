--------------------------- MODULE Authentication ---------------------------
(***************************************************************************)
(* From the Authorization header to an identity: extract_bearer_token, the *)
(* dispatch of runtime.authenticate, and the except clauses both handlers  *)
(* put around it (api/routes.py), beside an issuer that rotates its keys   *)
(* and a JWKS endpoint that may be down.                                   *)
(*                                                                         *)
(* The whole of authenticate() is synchronous code on the event loop, so   *)
(* one verification is one step; each request it makes to the JWKS         *)
(* endpoint is answered or not, within the client's timeout.               *)
(***************************************************************************)
EXTENDS BasisLocalToken, KeyCache

CONSTANTS
    Deployments,    \* configurations, each with what startup made of it and
                    \* the name of the world it is in
    Tokens,         \* for each world, the tokens callers present
    Documents,      \* for each world, the JWKS documents its issuer publishes
    MaxNow,         \* bound: the last instant explored
    MaxRotations    \* bound: how often the issuer changes the document

\* What a JSON payload can hold, and keys that exist: nobody signs with NoKey or
\* with material no key can be read from.
WellFormedToken(tok) ==
    /\ tok.shape \in {"ok", "garbage", "payload"}
    /\ \A t \in {tok.iat, tok.nbf, tok.exp} : t.form \in TimeForms /\ t.at \in Int
    /\ tok.signer \notin {NoKey, Unparsable}
    /\ DOMAIN tok.basis = BasisIds
    /\ {tok.realm.list, tok.roles.list, tok.canonical.subject.object,
        tok.canonical.subject.roles.list} \subseteq BOOLEAN

\* Settings are texts, or unset; a verifier that is present has an issuer.
WellFormedDeployment(c) ==
    /\ {c.oidc.present, c.oidc.strict, c.env.strict} \subseteq BOOLEAN
    /\ c.oidc.present => IsText(c.oidc.issuer)
    /\ c.env.issuer \notin {Null, NotText}
    /\ \A v \in c.env.audience \cup c.env.algorithms \cup DOMAIN c.env.public_keys.of : IsText(v)
    /\ c.env.leeway \in Nat

ASSUME TokensAssumption == \A w \in DOMAIN Tokens : \A tok \in Tokens[w] : WellFormedToken(tok)
ASSUME DeploymentsAssumption ==
    \A c \in Deployments :
       WellFormedDeployment(c) /\ c.world \in DOMAIN Tokens \cap DOMAIN Documents
ASSUME BoundsAssumption == MaxNow \in Nat /\ MaxRotations \in Nat

VARIABLES
    config,     \* the deployment
    now,        \* the clock, in seconds
    published,  \* the documents published so far, each with its instant
    cache,      \* the keys the gateway holds
    last        \* history: the request authenticated last, until it is answered

vars == <<config, now, published, cache, last>>

Idle == [stage |-> "idle"]

\* The environment's trust configuration, if startup could build one.
Trust == build_basis_local_token_trust_config(config.env)
HasTrust == config.mode = "basis_local_token" /\ TrustConfigError(config.env) = "none"
HasVerifier == config.mode = "oidc" /\ config.oidc.present

Init ==
    /\ config \in Deployments
    /\ now = 0
    /\ published \in {<<[document |-> d, at |-> 0]>> : d \in Documents[config.world]}
    /\ cache = initialize(published[1].document, 0)
    /\ last = Idle

-----------------------------------------------------------------------------
(* The outcome of one request.                                             *)

\* The except clause of the base class comes first.
ReasonOfBaseClass(error) ==
    CASE error = "none" -> "none"
      [] error = "extraction" -> "missing_bearer_token"
      [] OTHER -> "invalid_token"

\* REASON_* of the except clause the error ends in: SubjectMappingError and
\* AuthNotConfiguredError have their own, every other error shares one.
ReasonOf(error) ==
    CASE error = "none" -> "none"
      [] error = "extraction" -> "missing_bearer_token"
      [] error = "not_configured" -> "verifier_not_configured"
      [] error = "mapping" -> "identity_normalization_failed"
      [] OTHER -> "invalid_token"

NoLookup == [key |-> NoKey, error |-> "none", via |-> "none", fetches |-> 0, cache |-> cache]

\* Some request to the JWKS endpoint went unanswered.
Unanswered(lookup, first, second) ==
    \/ lookup.fetches >= 1 /\ ~first
    \/ lookup.fetches = 2 /\ ~second

Verified(tok, error, identity, lookup, unanswered) ==
    [stage |-> "verified", token |-> tok, error |-> error, reason |-> ReasonOf(error),
     identity |-> identity, key |-> lookup.key, via |-> lookup.via,
     fetches |-> lookup.fetches, unanswered |-> unanswered]

\* Absent, another scheme, an empty token or one with a space in it.
HeaderFaults == {"missing", "scheme", "empty", "whitespace"}
extract_bearer_token(fault) ==
    /\ last = Idle
    /\ last' = [stage |-> "no token", fault |-> fault, error |-> "extraction",
                reason |-> ReasonOf("extraction")]
    /\ UNCHANGED <<config, now, published, cache>>

\* AuthNotConfiguredError: the mode's verifier or trust configuration is None.
authenticateUnconfigured(tok) ==
    /\ ~HasVerifier /\ ~HasTrust
    /\ last' = Verified(tok, "not_configured", Nobody, NoLookup, FALSE)
    /\ UNCHANGED <<config, now, published, cache>>

\* The key lookup is reached with a usable header, and decodes the payload first.
authenticateOidc(tok, first, second) ==
    /\ HasVerifier
    /\ LET document == published[Len(published)].document
           answer(up) == [up |-> up, document |-> document]
           header == HeaderError(tok)
           lookup == IF header # "none" \/ tok.shape = "payload" THEN NoLookup
                     ELSE get_signing_key(cache, tok.kid, answer(first), answer(second), now)
           claims == ClaimsError(tok, lookup.key, config.oidc, now)
           error == IF header # "none" THEN header
                    ELSE IF tok.shape = "payload" THEN "fetch"
                    ELSE IF lookup.error # "none" THEN lookup.error
                    ELSE IF claims # "none" THEN claims
                    ELSE IF Unmappable(tok) THEN "mapping" ELSE "none"
       IN  /\ last' = Verified(tok, error, IF error = "none" THEN map_claims(tok) ELSE Nobody,
                               lookup, Unanswered(lookup, first, second))
           /\ cache' = lookup.cache
    /\ UNCHANGED <<config, now, published>>

authenticateLocal(tok) ==
    /\ HasTrust
    /\ LET error == verify_basis_local_identity_token(tok, Trust, now)
       IN  last' = Verified(tok, error,
                      IF error = "none"
                      THEN basis_local_verification_result_to_gateway_identity(tok)
                      ELSE Nobody,
                      NoLookup, FALSE)
    /\ UNCHANGED <<config, now, published, cache>>

authenticate(tok) ==
    \/ authenticateUnconfigured(tok)
    \/ \E first, second \in BOOLEAN : authenticateOidc(tok, first, second)
    \/ authenticateLocal(tok)

\* The handler goes on with the identity, or answers 401.
Proceed ==
    /\ last # Idle
    /\ last' = Idle
    /\ UNCHANGED <<config, now, published, cache>>

-----------------------------------------------------------------------------
(* The world outside, between requests: time, and the issuer's keys.       *)

Tick ==
    /\ last = Idle
    /\ now < MaxNow
    /\ now' = now + 1
    /\ UNCHANGED <<config, published, cache, last>>

Rotate(d) ==
    /\ last = Idle
    /\ Len(published) <= MaxRotations
    /\ d # published[Len(published)].document
    /\ published' = Append(published, [document |-> d, at |-> now])
    /\ UNCHANGED <<config, now, cache, last>>

Next ==
    \/ \E fault \in HeaderFaults : extract_bearer_token(fault)
    \/ last = Idle /\ \E tok \in Tokens[config.world] : authenticate(tok)
    \/ Proceed
    \/ Tick
    \/ \E d \in Documents[config.world] : Rotate(d)

Spec == Init /\ [][Next]_vars

-----------------------------------------------------------------------------
(* History of the issuer's keys, for the properties.                       *)

Binds(i, kid, key) ==
    /\ kid \in DOMAIN published[i].document
    /\ published[i].document[kid] = key

\* Document i was the published one until this instant, the last one still is.
Until(i) == IF i = Len(published) THEN now ELSE published[i + 1].at

\* The key was published under kid at some instant from t on.
PublishedSince(t, kid, key) ==
    \E i \in DOMAIN published : Binds(i, kid, key) /\ Until(i) >= t

\* ... and at every instant from t on.
PublishedThroughout(t, kid, key) ==
    \A i \in DOMAIN published : Until(i) >= t => Binds(i, kid, key)

\* kid has named two keys.
Reused(kid) ==
    \E i, j \in DOMAIN published :
       /\ kid \in DOMAIN published[i].document \cap DOMAIN published[j].document
       /\ published[i].document[kid] # published[j].document[kid]

EmptyServedSince(t) ==
    \E i \in DOMAIN published : published[i].document = NoDocument /\ Until(i) >= t

-----------------------------------------------------------------------------
(* What a token has to be, said without an order of checks.                *)

Decided == last.stage = "verified"
Accepted == Decided /\ last.error = "none"

Readable(t, forms) == t.form \in forms \cup {"number", "text"}
NotLater(t, clock) == t.form \in {"number", "text"} => t.at <= clock
Later(t, clock) == t.form \in {"number", "text"} => t.at > clock

\* Good for a mode with this issuer, audience and leeway.
InWindow(tok, leeway) ==
    /\ Readable(tok.iat, {"absent"}) /\ NotLater(tok.iat, now + leeway)
    /\ Readable(tok.nbf, {"absent"}) /\ NotLater(tok.nbf, now + leeway)
    /\ Readable(tok.exp, {"absent", "huge", "overflow"}) /\ Later(tok.exp, now - leeway)

OidcAcceptable(tok) ==
    /\ tok.shape = "ok"
    /\ tok.kid # NotText
    /\ tok.alg \in ALLOWED_ALGORITHMS
    /\ tok.iss = config.oidc.issuer
    /\ IF config.oidc.audience \in {Absent, ""} THEN tok.aud = {}
       ELSE NotText \notin tok.aud /\ config.oidc.audience \in tok.aud
    /\ InWindow(tok, 0)
    /\ IsText(tok.sub) /\ tok.sub # ""
    /\ config.oidc.strict => tok.jti \notin {Null, NotText}

LocalAcceptable(tok) ==
    /\ tok.shape = "ok"
    /\ IsText(tok.kid) /\ Strip(tok.kid) \in DOMAIN config.env.public_keys.of
    /\ tok.signer = config.env.public_keys.of[Strip(tok.kid)]
    /\ tok.alg \notin UnsignedAlgorithms \cup SymmetricAlgorithms \cup {""}
    /\ \E a \in config.env.algorithms : tok.alg = Strip(a)
    /\ tok.iss = config.env.issuer
    /\ NotText \notin tok.aud /\ \E a \in config.env.audience : Strip(a) \in tok.aud \ {""}
    /\ InWindow(tok, config.env.leeway)
    /\ tok.iat.form = "number" /\ tok.exp.form = "number"
    /\ tok.typ = "basis-local-identity"
    /\ \A v \in {tok.sub, tok.jti} \cup {tok.basis[id] : id \in DOMAIN tok.basis} : Filled(v)
    /\ tok.canonical.form = "object"
    /\ \A k \in tok.keys : k \in AuthorizationKeys => k = "allowed_algorithms"

-----------------------------------------------------------------------------
TypeOK ==
    /\ config \in Deployments
    /\ now \in 0..MaxNow
    /\ published \in Seq([document : Documents[config.world], at : 0..MaxNow])
    /\ cache.set.held \in BOOLEAN
    /\ cache.set.document \in Documents[config.world] \cup {NoDocument}
    /\ Len(cache.resolved) <= KeyCacheSize
    /\ \A i, j \in DOMAIN cache.resolved :
          cache.resolved[i].kid = cache.resolved[j].kid => i = j
    /\ last.stage \in {"idle", "no token", "verified"}

\* verify_basis_local_identity_token: the dozen ordered checks of header,
\* signature, claims and payload, under any environment startup accepts, let in
\* exactly the tokens the environment describes; nothing a check refuses is
\* missed and no token it describes is refused by a check that came too early.
LocalVerdictExact ==
    Decided /\ HasTrust => (Accepted <=> LocalAcceptable(last.token))

\* BasisLocalTokenClaimsError is raised only after the signature was verified:
\* what it tells about a claim is never about a claim nobody signed.
ClaimsErrorsAreAboutSignedClaims ==
    Decided /\ HasTrust /\ last.error = "claims" =>
       /\ Strip(last.token.kid) \in DOMAIN config.env.public_keys.of
       /\ last.token.signer = config.env.public_keys.of[Strip(last.token.kid)]

\* OIDCVerifier.verify and map_claims: whatever the key lookup met on its way, a
\* token is accepted iff the key found is its signer's and its claims fit, and
\* that key is one the issuer has published under the token's key id.  Fitting
\* means, with no OIDC_AUDIENCE, that the token has no audience either: this is
\* PyJWT's rule, not the one of the docs (see UnsetAudienceNotValidated).
OidcVerdictExact ==
    Decided /\ HasVerifier =>
       /\ Accepted <=> OidcAcceptable(last.token) /\ last.key = last.token.signer
       /\ Accepted => PublishedSince(0, last.token.kid, last.token.signer)

\* JWKS_CACHE_TTL_SECONDS bounds the use of a withdrawn key, for a lookup that is
\* answered from the document: the key was published within the last Lifespan.
WithdrawnKeyBounded ==
    Accepted /\ last.via \in {"set", "fetch"} =>
       PublishedSince(now - Lifespan, last.token.kid, last.token.signer)

\* A rotation reaches the gateway: with the endpoint answering, a good token of a
\* published key is accepted at once, and after at most Lifespan if the issuer
\* has served an empty document.  Only a key id that has named two keys is
\* excepted.
PublishedKeyAccepted ==
    Decided /\ HasVerifier /\ ~last.unanswered /\ OidcAcceptable(last.token) =>
       LET kid == last.token.kid
           key == last.token.signer
       IN  /\ Binds(Len(published), kid, key) /\ ~Reused(kid)
           /\ \/ ~EmptyServedSince(now - Lifespan)
              \/ PublishedThroughout(now - Lifespan, kid, key)
           => Accepted

\* A refusal for want of keys has a cause outside: a request that was not
\* answered, or a document without keys within the last Lifespan.
FetchErrorHasCause ==
    Decided /\ HasVerifier /\ last.error = "fetch" /\ last.token.shape = "ok" =>
       last.unanswered \/ EmptyServedSince(now - Lifespan)

\* A key id the gateway holds, remembered or in a document that is still fresh,
\* costs no request: the event loop is not held up by the JWKS endpoint, and its
\* outage is not noticed.
KnownKeyNeedsNoFetch ==
    [][LET kid == last'.token.kid
       IN  /\ last'.stage = "verified" /\ HasVerifier
           /\ \/ \E i \in DOMAIN cache.resolved : cache.resolved[i].kid = kid
              \/ now <= cache.set.at + Lifespan /\ kid \in DOMAIN cache.set.document
           => /\ last'.fetches = 0
              /\ last'.token.shape = "ok" => last'.error # "fetch"]_vars

\* The audit record names the cause: an unconfigured verifier, a verified token
\* nobody can be made of, or no token at all are never reported as a bad token.
ReasonTellsCause ==
    /\ last.stage = "no token" => last.reason = "missing_bearer_token"
    /\ Decided =>
          /\ last.reason = "verifier_not_configured" <=> ~HasVerifier /\ ~HasTrust
          /\ last.reason = "identity_normalization_failed" <=>
                /\ HasVerifier /\ Unmappable(last.token)
                /\ last.key = last.token.signer
                /\ ClaimsError(last.token, last.key, config.oidc, now) = "none"

\* The canonical subject of the token says what its OIDC claims say.
Mirrors(tok) ==
    LET s == tok.canonical.subject
    IN  /\ s.object
        /\ s.roles = IF tok.realm.list THEN tok.realm ELSE tok.roles
        /\ s.display_name = tok.preferred_username
        /\ s.email = tok.email

\* Of the attributes, only the e-mail address.
OnlyEmail(identity) ==
    [identity EXCEPT !.attributes = [c \in {"email"} |-> identity.attributes[c]]]

\* The two adapters do not yield the same subject, although
\* docs/basis-local-token-trust.md says so: given_name, family_name and name are
\* attributes in OIDC mode only.  But for that, and for blank names and addresses
\* which one adapter keeps and the other does not, they agree: a token that carries
\* the same roles, name and address both ways has the same id, name, roles,
\* address, issuer and lifetime in either mode.
NormalisationsAgree ==
    Accepted /\ Mirrors(last.token) /\ Filled(last.token.preferred_username)
             /\ Filled(last.token.email)
       => basis_local_verification_result_to_gateway_identity(last.token)
            = OnlyEmail(map_claims(last.token))

\* docs/oidc-integration.md on OIDC_AUDIENCE: "If unset, audience is not
\* validated".  PyJWT, called with no audience, refuses a token that has one.
UnsetAudienceNotValidated ==
    Decided /\ HasVerifier /\ config.oidc.audience = Absent
            /\ OidcAcceptable([last.token EXCEPT !.aud = {}])
            /\ last.key = last.token.signer
       => Accepted

\* docs/oidc-integration.md on JWKS_CACHE_TTL_SECONDS: "Keys are held for this
\* duration".  The keys remembered by cache_keys are held beyond it.
KeysHeldForTtl ==
    Accepted /\ HasVerifier => PublishedSince(now - Lifespan, last.token.kid, last.token.signer)
=============================================================================
