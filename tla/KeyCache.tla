------------------------------ MODULE KeyCache ------------------------------
(***************************************************************************)
(* The signing keys of an OIDC issuer as the gateway holds them:           *)
(* _JWKSCache.get_signing_key (auth/oidc.py) over the PyJWKClient that     *)
(* initialize() builds with cache_keys=True, cache_jwk_set=True and        *)
(* lifespan=int(JWKS_CACHE_TTL_SECONDS).                                   *)
(*                                                                         *)
(* The client, external to the repository, holds two caches.  set is the   *)
(* last JWKS document, used for Lifespan seconds.  resolved, the lru_cache *)
(* that cache_keys puts around get_signing_key, holds the keys the last    *)
(* lookups found, most recent first, and forgets one only for room.        *)
(*                                                                         *)
(* A document maps the key ids it lists to keys; the empty one also stands *)
(* for an answer that holds no usable key.                                 *)
(***************************************************************************)
EXTENDS Integers, Sequences, SequencesExt

CONSTANTS
    Lifespan,       \* int(JWKS_CACHE_TTL_SECONDS)
    KeyCacheSize    \* max_cached_keys of PyJWKClient

ASSUME LifespanAssumption == Lifespan \in Nat \ {0}
ASSUME KeyCacheSizeAssumption == KeyCacheSize \in Nat \ {0}

NoDocument == <<>>
NoKey == "(no key)"

\* initialize(): the eager fetch fills the document and resolves nothing.
initialize(document, now) ==
    [set |-> [held |-> TRUE, document |-> document, at |-> now], resolved |-> <<>>]

\* A document is used as long as the client holds one.
FreshForEver(set, now) == set.held

Fresh(set, now) == set.held /\ now <= set.at + Lifespan

\* fetch_data: what was held is replaced by the answer, or dropped when there is
\* none.
Fetched(answer, now) ==
    IF answer.up THEN [held |-> TRUE, document |-> answer.document, at |-> now]
    ELSE [held |-> FALSE, document |-> NoDocument, at |-> now]

Remembered(resolved, kid) == SelectInSeq(resolved, LAMBDA e : e.kid = kid)

\* Every lookup leaves a pair.
RememberAll(resolved, kid, key) == <<[kid |-> kid, key |-> key]>> \o resolved

\* The pair moves to the front; the last one goes when there is no room.
Remember(resolved, kid, key) ==
    LET i == Remembered(resolved, kid)
        others == IF i = 0 THEN resolved ELSE RemoveAt(resolved, i)
    IN  SubSeq(<<[kid |-> kid, key |-> key]>> \o others, 1,
               IF Len(others) < KeyCacheSize THEN Len(others) + 1 ELSE KeyCacheSize)

\* The outcome of a lookup: the key or the error, where the key came from, how
\* many requests to the JWKS endpoint it took, and the caches it leaves.
Outcome(key, error, via, fetches, set, resolved) ==
    [key |-> key, error |-> error, via |-> via, fetches |-> fetches,
     cache |-> [set |-> set, resolved |-> resolved]]

Found(kid, via, fetches, set, resolved) ==
    Outcome(set.document[kid], "none", via, fetches, set,
            Remember(resolved, kid, set.document[kid]))

\* A lookup that takes a key id the document lacks for a failure at once.
LookupNoRefresh(set, resolved, kid, answer, n, now) ==
    IF set.held /\ kid \in DOMAIN set.document
    THEN Found(kid, IF n = 0 THEN "set" ELSE "fetch", n, set, resolved)
    ELSE Outcome(NoKey, "jwt", "none", n, set, resolved)

\* Takes every PyJWKClientError for a failed fetch.
LookupFetchErrors(set, resolved, kid, answer, n, now) ==
    LET again == Fetched(answer, now)
    IN  CASE ~set.held \/ set.document = NoDocument ->
                 Outcome(NoKey, "fetch", "none", n, set, resolved)
          [] set.held /\ kid \in DOMAIN set.document ->
                 Found(kid, IF n = 0 THEN "set" ELSE "fetch", n, set, resolved)
          [] OTHER ->
                 IF ~again.held \/ again.document = NoDocument
                 THEN Outcome(NoKey, "fetch", "none", n + 1, again, resolved)
                 ELSE IF kid \in DOMAIN again.document
                 THEN Found(kid, "fetch", n + 1, again, resolved)
                 ELSE Outcome(NoKey, "fetch", "none", n + 1, again, resolved)

\* A document is in hand after n requests.  None of it usable: no refresh.  The
\* key id not in it: one refresh, whatever its age.
LookupIn(set, resolved, kid, answer, n, now) ==
    LET again == Fetched(answer, now)
    IN  CASE ~set.held \/ set.document = NoDocument ->
                 Outcome(NoKey, "fetch", "none", n, set, resolved)
          [] set.held /\ kid \in DOMAIN set.document ->
                 Found(kid, IF n = 0 THEN "set" ELSE "fetch", n, set, resolved)
          [] OTHER ->
                 IF ~again.held \/ again.document = NoDocument
                 THEN Outcome(NoKey, "fetch", "none", n + 1, again, resolved)
                 ELSE IF kid \in DOMAIN again.document
                 THEN Found(kid, "fetch", n + 1, again, resolved)
                 ELSE Outcome(NoKey, "jwt", "none", n + 1, again, resolved)

\* Fetches the document for every lookup that is not remembered.
LookupAlwaysFetching(cache, kid, first, second, now) ==
    LET i == Remembered(cache.resolved, kid)
    IN  IF i # 0
        THEN Outcome(cache.resolved[i].key, "none", "resolved", 0, cache.set,
                     Remember(cache.resolved, kid, cache.resolved[i].key))
        ELSE LookupIn(Fetched(first, now), cache.resolved, kid, second, 1, now)

\* first and second answer the first and the second request, if they are made.
get_signing_key(cache, kid, first, second, now) ==
    LET i == Remembered(cache.resolved, kid)
    IN  IF i # 0
        THEN Outcome(cache.resolved[i].key, "none", "resolved", 0, cache.set,
                     Remember(cache.resolved, kid, cache.resolved[i].key))
        ELSE IF Fresh(cache.set, now)
        THEN LookupIn(cache.set, cache.resolved, kid, first, 0, now)
        ELSE LookupIn(Fetched(first, now), cache.resolved, kid, second, 1, now)
=============================================================================
