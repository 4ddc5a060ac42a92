------------------------------- MODULE Tokens -------------------------------
(***************************************************************************)
(* What the gateway accepts as a token and whom it takes the bearer for:   *)
(* auth/oidc.py (verify, without the key lookup), auth/runtime.py,         *)
(* auth/basis_local_token.py, auth/subject_mapper.py.                      *)
(*                                                                         *)
(* A text claim is a string, or one of Absent, Null (an explicit null) and *)
(* NotText (any other JSON type).  A time claim is [form, at].  aud is the *)
(* set of its entries, empty when it is absent, null or empty.  A role     *)
(* list is [list, of].  A private key signs, and key k verifies what k     *)
(* signed.  A verification is a sequence of checks, each with the error it *)
(* raises; the first that fails decides.                                   *)
(***************************************************************************)
EXTENDS Integers, Sequences, FiniteSets

CONSTANTS
    Trim,               \* str.strip() on the padded texts of an instance
    AuthorizationKeys   \* claim keys that contain a term of _FORBIDDEN_CLAIM_TERMS

Absent == "(absent)"
Null == "(null)"
NotText == "(not text)"
Unparsable == "(unparsable)"    \* key material no key can be read from

Strip(t) == IF t \in DOMAIN Trim THEN Trim[t] ELSE t
IsText(v) == v \notin {Absent, Null, NotText}
Present(v) == v \notin {Absent, Null}

\* isinstance(v, str) and v.strip()
Filled(v) == IsText(v) /\ Strip(v) # ""

\* Trim lists padded texts, and what is left of one is not padded.
ASSUME TrimAssumption ==
    /\ {"", "basis-local-identity"} \cap DOMAIN Trim = {}
    /\ \A t \in DOMAIN Trim : IsText(t) /\ IsText(Trim[t]) /\ Trim[t] \notin DOMAIN Trim

\* The error of the first check that fails, "none" when all of them pass.
FirstFailure(checks) ==
    LET failing == {i \in DOMAIN checks : checks[i][1]}
    IN  IF failing = {} THEN "none"
        ELSE checks[CHOOSE i \in failing : \A j \in failing : i <= j][2]

-----------------------------------------------------------------------------
(* Time claims.  int() reads a number and a numeric text.  "huge" and      *)
(* "overflow" are numbers after every clock: datetime.fromtimestamp raises *)
(* ValueError for the first and OverflowError, beyond the range of time_t, *)
(* for the second.  int() refuses "infinite" with an error PyJWT does not  *)
(* catch, as it does null, and "junk" with one that PyJWT catches.         *)
TimeForms == {"absent", "null", "number", "text", "huge", "overflow", "infinite", "junk"}

AfterNow(t, now) ==
    \/ t.form \in {"huge", "overflow"}
    \/ t.form \in {"number", "text"} /\ t.at > now
Escapes(t) == t.form \in {"null", "infinite"}

\* A check that lets a token live to the end of its expiry second.
NotAfterNowStrict(t, now) == t.form \in {"number", "text"} /\ t.at < now
NotAfterNow(t, now) == t.form \in {"number", "text"} /\ t.at <= now

\* datetime.fromtimestamp on a value isinstance finds to be a number
Converts(t) == t.form = "number"

-----------------------------------------------------------------------------
(* jwt.decode: the signature, then the payload, then the claims.  p holds  *)
(* the arguments of the call; strict is whether the installed PyJWT checks *)
(* the type of sub and jti (2.10 and later).                               *)
DecodeChecks(tok, p, now) ==
    << <<tok.alg \notin p.algorithms, "InvalidAlgorithm">>,
       <<p.key = Unparsable, "other">>,
       <<tok.signer # p.key, "InvalidSignature">>,
       <<tok.shape = "payload", "Decode">>,
       <<\/ "exp" \in p.require /\ tok.exp.form \in {"absent", "null"}
         \/ "iss" \in p.require /\ ~Present(tok.iss)
         \/ "aud" \in p.require /\ tok.aud = {}
         \/ "sub" \in p.require /\ ~Present(tok.sub)
         \/ "iat" \in p.require /\ tok.iat.form \in {"absent", "null"}
         \/ "jti" \in p.require /\ ~Present(tok.jti), "MissingRequiredClaim">>,
       <<Escapes(tok.iat), "other">>,
       <<tok.iat.form = "junk", "InvalidIssuedAt">>,
       <<AfterNow(tok.iat, now + p.leeway), "ImmatureSignature">>,
       <<Escapes(tok.nbf), "other">>,
       <<tok.nbf.form = "junk", "Decode">>,
       <<AfterNow(tok.nbf, now + p.leeway), "ImmatureSignature">>,
       <<Escapes(tok.exp), "other">>,
       <<tok.exp.form = "junk", "Decode">>,
       <<NotAfterNow(tok.exp, now - p.leeway), "ExpiredSignature">>,
       <<tok.iss = Absent, "MissingRequiredClaim">>,
       <<tok.iss # p.issuer, "InvalidIssuer">>,
       <<p.audience = {} /\ tok.aud # {}, "InvalidAudience">>,
       <<p.audience # {} /\ tok.aud = {}, "MissingRequiredClaim">>,
       <<p.audience # {} /\ (NotText \in tok.aud \/ tok.aud \cap p.audience = {}),
         "InvalidAudience">>,
       <<p.strict /\ {tok.sub, tok.jti} \cap {Null, NotText} # {}, "InvalidSubjectOrId">> >>

decode(tok, p, now) == FirstFailure(DecodeChecks(tok, p, now))

-----------------------------------------------------------------------------
(* OIDC: what verify does around the key lookup.                           *)

ALLOWED_ALGORITHMS == {"RS256", "RS384", "RS512", "ES256", "ES384", "ES512"}

\* Before the lookup.  A key id that is not text raises an error this mode does
\* not name.
HeaderError(tok) ==
    FirstFailure(<< <<tok.shape = "garbage", "jwt">>,
                    <<tok.kid = NotText, "other">>,
                    <<tok.alg \notin ALLOWED_ALGORITHMS, "jwt">> >>)

\* After the lookup.  An empty OIDC_AUDIENCE is none; every PyJWT error becomes
\* JWTVerificationError.
ClaimsError(tok, key, oidc, now) ==
    LET e == decode(tok, [key |-> key, algorithms |-> ALLOWED_ALGORITHMS,
                          issuer |-> oidc.issuer,
                          audience |-> {oidc.audience} \ {Absent, ""},
                          leeway |-> 0, require |-> {}, strict |-> oidc.strict], now)
    IN  IF e \in {"none", "other"} THEN e ELSE "jwt"

Subject(id, name, roles, attributes, issuer, tok) ==
    [subject_id |-> id, name |-> name, roles |-> roles, attributes |-> attributes,
     issuer |-> issuer, iat |-> tok.iat, exp |-> tok.exp]
Nobody == [subject_id |-> Absent, name |-> Absent, roles |-> {}, attributes |-> <<>>,
           issuer |-> Absent, iat |-> [form |-> "absent", at |-> 0],
           exp |-> [form |-> "absent", at |-> 0]]

ATTRIBUTE_CLAIMS == {"email", "given_name", "family_name", "name"}

\* Takes the flat claim only where the realm's list is empty too.
RolesOfEither(tok) ==
    (IF tok.realm.of # {} THEN tok.realm.of ELSE tok.roles.of) \ {NotText}

\* realm_access.roles if it is a list, else roles; entries that are not text
\* are dropped.
extract_roles(tok) ==
    (IF tok.realm.list THEN tok.realm.of ELSE IF tok.roles.list THEN tok.roles.of ELSE {})
      \ {NotText}

\* An attribute claim of any type but null is kept.
map_claims(tok) ==
    Subject(tok.sub,
            IF IsText(tok.preferred_username) /\ tok.preferred_username # ""
            THEN tok.preferred_username ELSE tok.sub,
            extract_roles(tok),
            [c \in {k \in ATTRIBUTE_CLAIMS : Present(tok[k])} |-> tok[c]],
            IF IsText(tok.iss) THEN tok.iss ELSE "", tok)

\* SubjectMappingError
Unmappable(tok) == ~IsText(tok.sub) \/ tok.sub = ""
=============================================================================
