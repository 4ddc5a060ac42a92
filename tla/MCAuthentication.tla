-------------------------- MODULE MCAuthentication --------------------------
(* Authentication for TLC: one token that fits both modes and its          *)
(* variations one or two claims at a time, an issuer with two key ids and  *)
(* three keys, and every environment one setting away from a good one.     *)
EXTENDS Authentication

MCTrim == [t \in {" ", " k1", " RS256", " i", " a"} |->
             CASE t = " " -> "" [] t = " k1" -> "k1" [] t = " RS256" -> "RS256"
               [] t = " i" -> "i" [] t = " a" -> "a"]
MCAuthorizationKeys == {"decision", "Policy_Id", "allowed_algorithms", "Allowed_Algorithms"}
MCUnsigned == {"none", "None"}
MCSymmetric == {"HS256", "hs256"}

At(n) == [form |-> "number", at |-> n]
Form(f) == [form |-> f, at |-> 0]
List(s) == [list |-> TRUE, of |-> s]
NoList == [list |-> FALSE, of |-> {}]

Good ==
    [shape |-> "ok", kid |-> "k1", alg |-> "RS256", signer |-> "a", iss |-> "i",
     aud |-> {"a"}, sub |-> "s", iat |-> At(0), nbf |-> Form("absent"), exp |-> At(9),
     jti |-> "j", typ |-> "basis-local-identity", keys |-> {"sub", "basis"},
     preferred_username |-> "n", email |-> "e", given_name |-> "g", family_name |-> Absent,
     name |-> "g f", realm |-> List({"r"}), roles |-> NoList,
     basis |-> [id \in BasisIds |-> "x"],
     canonical |-> [form |-> "object",
                    subject |-> [object |-> TRUE, roles |-> List({"r"}),
                                 display_name |-> "n", email |-> "e"]]]

\* Tokens of every key id and key some document binds, of a published key id
\* with another key, and of an unknown key id.
KeyTokens ==
    {[Good EXCEPT !.kid = t[1], !.signer = t[2]] :
        t \in {<<"k1", "a">>, <<"k1", "c">>, <<"k2", "b">>, <<"k2", "a">>, <<"k9", "a">>}}

Texts == {Absent, Null, NotText, "", " "}
Times == {At(n) : n \in 0..3} \cup {Form(f) : f \in TimeForms \ {"number"}}
           \cup {[form |-> "text", at |-> 2]}

HeaderTokens ==
    {[Good EXCEPT !.shape = s] : s \in {"garbage", "payload"}}
    \cup {[Good EXCEPT !.kid = k, !.signer = g] : k \in Texts \cup {" k1", "k9"}, g \in {"a", "b"}}
    \cup {[Good EXCEPT !.alg = l] :
             l \in Texts \cup {" RS256", "ES256", "PS256"} \cup MCUnsigned \cup MCSymmetric}

ClaimTokens ==
    {[Good EXCEPT !.iss = v] : v \in Texts \cup {"other", " i"}}
    \cup {[Good EXCEPT !.aud = v] : v \in {{}, {"b"}, {"a", "b"}, {"a", NotText}, {""}}}
    \cup {[Good EXCEPT !.sub = v, !.signer = g] : v \in Texts, g \in {"a", "b"}}
    \cup {[Good EXCEPT !.jti = v] : v \in Texts}
    \cup {[Good EXCEPT !.typ = v] : v \in Texts \cup {"other"}}
    \cup {[Good EXCEPT !.iat = t] : t \in Times}
    \cup {[Good EXCEPT !.nbf = t] : t \in Times}
    \cup {[Good EXCEPT !.exp = t] : t \in Times}
    \cup {[Good EXCEPT !.basis[id] = v] : id \in BasisIds, v \in Texts}
    \cup {[Good EXCEPT !.canonical.form = f] : f \in {"absent", "null", "junk"}}
    \cup {[Good EXCEPT !.keys = @ \cup {k}, !.signer = g] :
             k \in MCAuthorizationKeys, g \in {"a", "b"}}
    \cup {[Good EXCEPT !.typ = "other", !.signer = "b"]}

ProfileTokens ==
    {[Good EXCEPT !.realm = realm, !.roles = roles, !.canonical.subject.roles = subject] :
        realm \in {NoList, List({}), List({"r", NotText})},
        roles \in {NoList, List({"q", NotText})},
        subject \in {NoList, List({}), List({"r", NotText}), List({"q", NotText})}}
    \cup {[Good EXCEPT !.preferred_username = v, !.canonical.subject.display_name = w] :
             v \in Texts, w \in Texts}
    \cup {[Good EXCEPT !.email = v, !.canonical.subject.email = v] : v \in Texts}
    \cup {[Good EXCEPT !.given_name = v, !.name = w] : v \in Texts, w \in {Absent, "g f"}}
    \cup {[Good EXCEPT !.canonical.subject.object = FALSE]}

AnyTokens == HeaderTokens \cup ClaimTokens \cup ProfileTokens

\* The same without an audience, for a gateway with none configured.
NoAudTokens == {[t EXCEPT !.aud = {}] : t \in AnyTokens}

\* Between any two of them a key is added, withdrawn or replaced.
KeyDocuments ==
    {<<>>, [k \in {"k2"} |-> "b"], [k \in {"k1"} |-> "c"],
     [k \in {"k1", "k2"} |-> IF k = "k1" THEN "a" ELSE "b"]}

-----------------------------------------------------------------------------
GoodEnv ==
    [issuer |-> "i", audience |-> {" a", " "}, algorithms |-> {" RS256"}, leeway |-> 0,
     strict |-> TRUE,
     public_keys |-> [form |-> "object", of |-> [k \in {"k1"} |-> "a"]]]

Environments ==
    {[GoodEnv EXCEPT !.leeway = l, !.strict = s] : l \in 0..1, s \in BOOLEAN}
    \cup {[GoodEnv EXCEPT !.issuer = v] : v \in {Absent, "", " ", " i"}}
    \cup {[GoodEnv EXCEPT !.audience = v] : v \in {{}, {" "}, {"a", "b"}}}
    \cup {[GoodEnv EXCEPT !.algorithms = v] :
             v \in {{}, {" "}, {"RS256", "ES256"}, {"none"}, {"RS256", "hs256"}}}
    \cup {[GoodEnv EXCEPT !.public_keys.form = f] : f \in {"unset", "junk", "empty"}}
    \cup {[GoodEnv EXCEPT !.public_keys.of = f] :
             f \in {[k \in {"k1"} |-> "b"], [k \in {"k1", "k9"} |-> "a"],
                    [k \in {"k1"} |-> Unparsable], [k \in {"k1"} |-> NotText],
                    [k \in {"k1"} |-> "(private key)"], [k \in {" k1"} |-> "a"],
                    [k \in {" "} |-> "a"]}}

NoOidc == [present |-> FALSE, issuer |-> Absent, audience |-> Absent, strict |-> TRUE]

Oidc(p, v, s) == [present |-> p, issuer |-> "i", audience |-> v, strict |-> s]

\* Any token against a stable issuer, and any rotation under good tokens.
MCTokens == [local |-> AnyTokens, stable |-> AnyTokens \cup NoAudTokens, rotating |-> KeyTokens]
MCDocuments == [local |-> {<<>>}, stable |-> {[k \in {"k1"} |-> "a"]}, rotating |-> KeyDocuments]

MCDeployments ==
    [mode : {"basis_local_token"}, oidc : {NoOidc}, env : Environments, world : {"local"}]
    \cup [mode : {"oidc"}, env : {GoodEnv}, world : {"stable"},
          oidc : {Oidc(p, v, s) : p \in BOOLEAN, v \in {Absent, "", "a"}, s \in BOOLEAN}]
    \cup [mode : {"oidc"}, env : {GoodEnv}, world : {"rotating"}, oidc : {Oidc(TRUE, "a", TRUE)}]
=============================================================================
