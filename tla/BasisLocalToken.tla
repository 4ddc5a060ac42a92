-------------------------- MODULE BasisLocalToken --------------------------
(***************************************************************************)
(* BASIS-local identity tokens (auth/basis_local_token.py): the trust      *)
(* configuration built from the environment (auth/runtime.py), the         *)
(* verification of a token against it, and the identity it yields.         *)
(*                                                                         *)
(* A comma-separated setting is the set of its parts, {} when it is unset. *)
(* The basis claim is a record of its four ids and of canonical_identity;  *)
(* a basis claim that is not an object is one with everything absent.      *)
(* tok.keys is every key at any depth of the payload.                      *)
(***************************************************************************)
EXTENDS Tokens

CONSTANTS
    UnsignedAlgorithms,     \* the spellings of "none"
    SymmetricAlgorithms     \* the names that start with HS in any case

Padded(t) == Strip(t) # t

\* Parts as they stand between the commas.
SplitOnly(parts) == parts \ {""}
split_csv(parts) == {Strip(e) : e \in parts} \ {""}

-----------------------------------------------------------------------------
(* Building the trust configuration.                                       *)

BadEntry(kid, pem) ==
    \/ Strip(kid) = "" \/ Padded(kid)
    \/ ~Filled(pem)
    \/ pem = "(private key)"

\* The name of the refusal, "none" when the environment is accepted.
TrustConfigError(env) ==
    FirstFailure(<<
       <<env.issuer \in {Absent, ""}, "EvaluationConfigError">>,
       <<env.audience = {}, "EvaluationConfigError">>,
       <<env.public_keys.form # "object", "EvaluationConfigError">>,
       <<Strip(env.issuer) = "" \/ Padded(env.issuer), "BasisLocalTokenConfigError">>,
       <<split_csv(env.audience) = {}, "BasisLocalTokenConfigError">>,
       <<\E kid \in DOMAIN env.public_keys.of : BadEntry(kid, env.public_keys.of[kid]),
         "BasisLocalTokenConfigError">>,
       <<split_csv(env.algorithms) = {}, "BasisLocalTokenConfigError">>,
       <<split_csv(env.algorithms) \cap (UnsignedAlgorithms \cup SymmetricAlgorithms) # {},
         "BasisLocalTokenConfigError">> >>)

build_basis_local_token_trust_config(env) ==
    [issuer |-> env.issuer, audience |-> split_csv(env.audience),
     public_keys_by_id |-> env.public_keys.of,
     allowed_algorithms |-> split_csv(env.algorithms),
     leeway_seconds |-> env.leeway, strict |-> env.strict]

-----------------------------------------------------------------------------
(* verify_basis_local_identity_token, check by check.                      *)

LocalHeaderChecks(tok, trust) ==
    << <<tok.shape = "garbage" \/ tok.kid = NotText, "header">>,
       <<~Filled(tok.kid), "header">>,
       <<~Filled(tok.alg), "header">>,
       <<Strip(tok.alg) \in UnsignedAlgorithms \cup SymmetricAlgorithms, "header">>,
       <<Strip(tok.alg) \notin trust.allowed_algorithms, "header">>,
       <<Strip(tok.kid) \notin DOMAIN trust.public_keys_by_id, "header">> >>

\* The class the except clauses give each PyJWT error.
LocalErrorOf(e) ==
    CASE e \in {"none", "other"} -> e
      [] e = "MissingRequiredClaim" -> "claims"
      [] e \in {"InvalidSignature", "Decode"} -> "signature"
      [] OTHER -> "verification"

LocalDecodeError(tok, trust, now) ==
    IF Strip(tok.kid) \notin DOMAIN trust.public_keys_by_id THEN "header"
    ELSE LocalErrorOf(
           decode(tok, [key |-> trust.public_keys_by_id[Strip(tok.kid)],
                        algorithms |-> {Strip(tok.alg)}, issuer |-> trust.issuer,
                        audience |-> trust.audience, leeway |-> trust.leeway_seconds,
                        require |-> {"exp", "iss", "aud", "sub", "iat", "jti"},
                        strict |-> trust.strict], now))

BASIS_LOCAL_IDENTITY_TOKEN_TYPE == "basis-local-identity"
AUTHORIZATION_SCAN_EXEMPT_KEYS == {"allowed_algorithms"}
BasisIds == {"session_id", "provider_id", "authority_mode", "authentication_protocol"}

\* A required claim path that does not resolve, or resolves to null.  The
\* top-level paths PyJWT has already required are not repeated here.
MissingPath(tok) ==
    \/ ~Present(tok.typ)
    \/ \E id \in BasisIds : ~Present(tok.basis[id])
    \/ tok.canonical.form \in {"absent", "null"}

\* What the typed view of the claims and the verification result refuse, once
\* iat has been converted.  OverflowError, which exp can raise, is not among the
\* errors the typed view catches: it is left to the handler's last clause.
MalformedClaims(tok) ==
    \/ ~Converts(tok.exp)
    \/ tok.canonical.form # "object"
    \/ \E v \in {tok.iss, tok.sub, tok.jti, tok.typ} \cup {tok.basis[id] : id \in BasisIds} :
          ~Filled(v)

assert_no_authorization_shaped_keys(keys) ==
    keys \cap AuthorizationKeys \subseteq AUTHORIZATION_SCAN_EXEMPT_KEYS

\* Looks at the claims before it checks the signature.
ClaimsFirst(tok, trust, now) ==
    LET header == FirstFailure(LocalHeaderChecks(tok, trust))
    IN  IF header # "none" THEN header
        ELSE FirstFailure(
               << <<MissingPath(tok), "claims">>,
                  <<tok.typ # BASIS_LOCAL_IDENTITY_TOKEN_TYPE, "claims">>,
                  <<~Converts(tok.iat), "claims">>,
                  <<tok.exp.form = "overflow", "other">>,
                  <<MalformedClaims(tok), "claims">>,
                  <<LocalDecodeError(tok, trust, now) # "none", LocalDecodeError(tok, trust, now)>>,
                  <<~assert_no_authorization_shaped_keys(tok.keys), "claims">> >>)

verify_basis_local_identity_token(tok, trust, now) ==
    LET header == FirstFailure(LocalHeaderChecks(tok, trust))
        decoding == LocalDecodeError(tok, trust, now)
    IN  IF header # "none" THEN header
        ELSE IF decoding # "none" THEN decoding
        ELSE FirstFailure(
               << <<MissingPath(tok), "claims">>,
                  <<tok.typ # BASIS_LOCAL_IDENTITY_TOKEN_TYPE, "claims">>,
                  <<~Converts(tok.iat), "claims">>,
                  <<tok.exp.form = "overflow", "other">>,
                  <<MalformedClaims(tok), "claims">>,
                  <<~assert_no_authorization_shaped_keys(tok.keys), "claims">> >>)

-----------------------------------------------------------------------------
\* The identity of a verified token: roles, name and e-mail come from the
\* subject of canonical_identity if that is an object, no other attribute does.
basis_local_verification_result_to_gateway_identity(tok) ==
    LET s == tok.canonical.subject
    IN  Subject(tok.sub,
                IF s.object /\ Filled(s.display_name) THEN s.display_name ELSE tok.sub,
                IF s.object /\ s.roles.list THEN s.roles.of \ {NotText} ELSE {},
                IF s.object /\ IsText(s.email) /\ s.email # ""
                THEN [c \in {"email"} |-> s.email] ELSE <<>>,
                tok.iss, tok)
=============================================================================
