------------------------ MODULE AuthenticationProofs ------------------------
(***************************************************************************)
(* Proofs about authentication, for every set of well-formed tokens and    *)
(* deployments, every set of documents an issuer may publish, every        *)
(* lifespan and every size of the key cache.                               *)
(*                                                                         *)
(* Three things meet in AuthInv.  The caches hold published keys only, the *)
(* document none older than its fetch; so a lookup can say of its key      *)
(* where and when it was published (LookupFacts).  A sequence of checks    *)
(* passes iff every check does (FirstFailureForm), so each verification is *)
(* the conjunction of its conditions (OidcChecks, LocalChecks).  And the   *)
(* verdict recorded last is what these two make of the token.              *)
(***************************************************************************)
EXTENDS Authentication, SequenceTheorems, WellFoundedInduction, TLAPS

-----------------------------------------------------------------------------
(* The remembered keys.                                                    *)

\* A nonempty set of naturals has a least element.
LEMMA LeastNat ==
  ASSUME NEW T, T \subseteq Nat, T # {}
  PROVE  \E n \in T : \A m \in T : n <= m
  <1>1. PICK n \in T : \A m \in T : ~(<<m, n>> \in OpToRel(<, Nat))
    BY NatLessThanWellFounded, WFMin
  <1>2. ASSUME NEW m \in T, m < n PROVE FALSE
    <2>1. <<m, n>> \in Nat \X Nat /\ <<m, n>>[1] < <<m, n>>[2]
      BY <1>2
    <2>2. <<m, n>> \in OpToRel(<, Nat)
      BY <2>1, Zenon DEF OpToRel
    <2>3. QED
      BY <1>1, <2>2
  <1>3. \A m \in T : n <= m
    BY <1>2
  <1>4. QED
    BY <1>3

\* Remembered finds the key id wherever it is, and says 0 where it is not.
LEMMA RememberedIndex ==
  ASSUME NEW S, NEW r \in Seq(S), NEW kid
  PROVE  \/ Remembered(r, kid) = 0 /\ \A j \in 1..Len(r) : r[j].kid # kid
         \/ Remembered(r, kid) \in 1..Len(r) /\ r[Remembered(r, kid)].kid = kid
  <1> DEFINE I == {i \in 1..Len(r) : r[i].kid = kid}
  <1>1. Remembered(r, kid) = IF I # {} THEN CHOOSE x \in I : \A y \in I : x <= y ELSE 0
    BY DEF Remembered, SelectInSeq, Min
  <1>2. I # {} => \E x \in I : \A y \in I : x <= y
    <2>1. I \subseteq Nat
      OBVIOUS
    <2> HIDE DEF I
    <2>2. QED
      BY <2>1, LeastNat
  <1>3. CASE I # {}
    <2>1. Remembered(r, kid) \in I
      BY <1>1, <1>2, <1>3
    <2>2. QED
      BY <2>1
  <1>4. CASE I = {}
    BY <1>1, <1>4
  <1>5. QED
    BY <1>3, <1>4

\* RemoveAt closes the gap.
LEMMA RemoveAtForm ==
  ASSUME NEW S, NEW r \in Seq(S), NEW i \in 1..Len(r)
  PROVE  /\ RemoveAt(r, i) \in Seq(S)
         /\ Len(RemoveAt(r, i)) = Len(r) - 1
         /\ \A j \in 1..Len(r) - 1 : RemoveAt(r, i)[j] = IF j < i THEN r[j] ELSE r[j + 1]
  <1> DEFINE a == SubSeq(r, 1, i - 1)
             b == SubSeq(r, i + 1, Len(r))
             n == Len(r)
  <1>1. n \in Nat /\ i \in 1..n /\ \A j \in 1..n : r[j] \in S
    BY ElementOfSeq, LenProperties
  <1>2. /\ a \in Seq(S) /\ Len(a) = i - 1
        /\ \A j \in 1..i - 1 : a[j] = r[j]
    <2>1. \A j \in 1..i - 1 : r[j] \in S
      BY <1>1
    <2>2. /\ a \in Seq(S) /\ Len(a) = IF 1 <= i - 1 THEN (i - 1) - 1 + 1 ELSE 0
          /\ \A j \in 1..(i - 1) - 1 + 1 : a[j] = r[1 + j - 1]
      BY <1>1, <2>1, SubSeqProperties
    <2> HIDE DEF a, n
    <2>3. QED
      BY <1>1, <2>2
  <1>3. /\ b \in Seq(S) /\ Len(b) = n - i
        /\ \A j \in 1..n - i : b[j] = r[i + j]
    <2>1. \A j \in i + 1..n : r[j] \in S
      BY <1>1
    <2>2. /\ b \in Seq(S) /\ Len(b) = IF i + 1 <= n THEN n - (i + 1) + 1 ELSE 0
          /\ \A j \in 1..n - (i + 1) + 1 : b[j] = r[(i + 1) + j - 1]
      BY <1>1, <2>1, SubSeqProperties
    <2> HIDE DEF b, n
    <2>3. QED
      BY <1>1, <2>2
  <1>4. RemoveAt(r, i) = a \o b
    BY DEF RemoveAt
  <1> HIDE DEF a, b
  <1>5. /\ a \o b \in Seq(S)
        /\ Len(a \o b) = Len(a) + Len(b)
        /\ \A j \in 1..Len(a) + Len(b) :
              (a \o b)[j] = IF j <= Len(a) THEN a[j] ELSE b[j - Len(a)]
    BY <1>2, <1>3, ConcatProperties
  <1> HIDE DEF n
  <1>6. /\ a \o b \in Seq(S)
        /\ Len(a \o b) = n - 1
        /\ \A j \in 1..n - 1 :
              (a \o b)[j] = IF j <= i - 1 THEN a[j] ELSE b[j - (i - 1)]
    BY <1>1, <1>2, <1>3, <1>5
  <1>7. \A j \in 1..n - 1 : (a \o b)[j] = IF j < i THEN r[j] ELSE r[j + 1]
    <2> SUFFICES ASSUME NEW j \in 1..n - 1
                 PROVE  (a \o b)[j] = IF j < i THEN r[j] ELSE r[j + 1]
      OBVIOUS
    <2>1. CASE j < i
      BY <1>1, <1>2, <1>6, <2>1
    <2>2. CASE ~(j < i)
      <3>1. j - (i - 1) \in 1..n - i /\ i + (j - (i - 1)) = j + 1 /\ ~(j <= i - 1)
        BY <1>1, <2>2
      <3>2. QED
        BY <1>3, <1>6, <2>2, <3>1
    <2>3. QED
      BY <2>1, <2>2
  <1>8. QED
    BY <1>4, <1>6, <1>7 DEF n

\* No key id is remembered twice.
Distinct(r) == \A i, j \in 1..Len(r) : r[i].kid = r[j].kid => i = j

\* What is left when the pair of kid is taken out.
Others(r, kid) ==
    IF Remembered(r, kid) = 0 THEN r ELSE RemoveAt(r, Remembered(r, kid))

\* Taking the pair of kid out leaves no pair of kid.
LEMMA OthersForm ==
  ASSUME NEW S, NEW r \in Seq(S), Distinct(r), NEW kid
  PROVE  LET o == Others(r, kid) IN
         /\ o \in Seq(S) /\ Len(o) <= Len(r)
         /\ Distinct(o)
         /\ \A j \in 1..Len(o) : o[j].kid # kid
  <1> DEFINE p == Remembered(r, kid)
             o == Others(r, kid)
             n == Len(r)
  <1>1. n \in Nat
    BY LenProperties
  <1>2. o = IF \E i \in 1..n : r[i].kid = kid THEN RemoveAt(r, p) ELSE r
    BY <1>1, RememberedIndex DEF Others
  <1>3. CASE \E i \in 1..n : r[i].kid = kid
    <2>1. p \in 1..n /\ r[p].kid = kid
      BY <1>3, RememberedIndex
    <2> HIDE DEF p
    <2>2. /\ o \in Seq(S) /\ Len(o) = n - 1
          /\ \A j \in 1..n - 1 : o[j] = IF j < p THEN r[j] ELSE r[j + 1]
      BY <1>2, <1>3, <2>1, RemoveAtForm
    <2>3. \A i, j \in 1..n : r[i].kid = r[j].kid => i = j
      BY DEF Distinct
    <2> HIDE DEF o, n
    <2> DEFINE at(j) == IF j < p THEN j ELSE j + 1
    <2>4. \A j \in 1..n - 1 : at(j) \in 1..n /\ at(j) # p /\ o[j] = r[at(j)]
      BY <1>1, <2>1, <2>2
    <2>5. \A i, j \in 1..n - 1 : at(i) = at(j) => i = j
      BY <1>1, <2>1
    <2> HIDE DEF at
    <2>6. \A j \in 1..n - 1 : o[j].kid # kid
      BY <2>1, <2>3, <2>4
    <2>7. \A i, j \in 1..n - 1 : o[i].kid = o[j].kid => i = j
      BY <2>3, <2>4, <2>5
    <2>8. Len(o) <= n
      BY <1>1, <2>2
    <2>9. QED
      BY <2>2, <2>6, <2>7, <2>8 DEF Distinct, o, n
  <1>4. CASE ~\E i \in 1..n : r[i].kid = kid
    BY <1>1, <1>2, <1>4
  <1>5. QED
    BY <1>3, <1>4

\* Remembering keeps the cache within its size and without a key id twice, and
\* brings in nothing but the new pair.
LEMMA RememberForm ==
  ASSUME NEW S, NEW r \in Seq(S), Distinct(r),
         NEW kid, NEW key, [kid |-> kid, key |-> key] \in S
  PROVE  LET m == Remember(r, kid, key) IN
         /\ m \in Seq(S) /\ Len(m) <= KeyCacheSize
         /\ Distinct(m)
  <1> DEFINE e == [kid |-> kid, key |-> key]
             o == Others(r, kid)
             n == Len(o)
             s == <<e>> \o o
             k == IF n < KeyCacheSize THEN n + 1 ELSE KeyCacheSize
             m == Remember(r, kid, key)
  <1>1. /\ o \in Seq(S) /\ n \in Nat
        /\ Distinct(o)
        /\ \A j \in 1..n : o[j].kid # kid
    BY OthersForm, LenProperties
  <1>2. m = SubSeq(s, 1, k)
    BY DEF Remember, Others
  <1>3. k \in Nat /\ 1 <= k /\ k <= n + 1 /\ k <= KeyCacheSize
    <2> HIDE DEF n
    <2>1. QED
      BY <1>1, KeyCacheSizeAssumption
  <1>4. e.kid = kid /\ <<e>> \in Seq(S) /\ Len(<<e>>) = 1 /\ <<e>>[1] = e
    OBVIOUS
  <1> HIDE DEF e, o
  <1>5. /\ s \in Seq(S) /\ Len(s) = 1 + n
        /\ \A j \in 1..1 + n : s[j] = IF j <= 1 THEN <<e>>[j] ELSE o[j - 1]
    <2>1. /\ s \in Seq(S) /\ Len(s) = Len(<<e>>) + n
          /\ \A j \in 1..Len(<<e>>) + n :
                s[j] = IF j <= Len(<<e>>) THEN <<e>>[j] ELSE o[j - Len(<<e>>)]
      BY <1>1, <1>4, ConcatProperties
    <2>2. QED
      BY <1>4, <2>1
  <1> HIDE DEF s, n
  <1>6. s[1] = e /\ \A j \in 2..n + 1 : s[j] = o[j - 1]
    BY <1>1, <1>4, <1>5
  <1>7. \A j \in 1..n + 1 : s[j] \in S
    BY <1>1, <1>5, ElementOfSeq
  <1> HIDE DEF k, m
  <1>8. m \in Seq(S) /\ Len(m) = k /\ \A j \in 1..k : m[j] = s[j]
    <2>1. \A j \in 1..k : s[j] \in S
      BY <1>1, <1>3, <1>7
    <2>2. /\ SubSeq(s, 1, k) \in Seq(S)
          /\ Len(SubSeq(s, 1, k)) = IF 1 <= k THEN k - 1 + 1 ELSE 0
          /\ \A j \in 1..k - 1 + 1 : SubSeq(s, 1, k)[j] = s[1 + j - 1]
      BY <1>3, <2>1, SubSeqProperties
    <2>3. QED
      BY <1>2, <1>3, <2>2
  <1>9. \A i, j \in 1..n : o[i].kid = o[j].kid => i = j
    BY <1>1 DEF Distinct, n
  <1>10. \A i, j \in 1..k : m[i].kid = m[j].kid => i = j
    <2> SUFFICES ASSUME NEW i \in 1..k, NEW j \in 1..k, m[i].kid = m[j].kid, i # j
                 PROVE  FALSE
      BY Zenon
    <2>1. s[i].kid = s[j].kid
      BY <1>8
    <2>2. CASE i = 1
      <3>1. j \in 2..n + 1 /\ j - 1 \in 1..n
        BY <1>1, <1>3, <2>2
      <3>2. QED
        BY <1>1, <1>4, <1>6, <2>1, <2>2, <3>1
    <2>3. CASE j = 1
      <3>1. i \in 2..n + 1 /\ i - 1 \in 1..n
        BY <1>1, <1>3, <2>3
      <3>2. QED
        BY <1>1, <1>4, <1>6, <2>1, <2>3, <3>1
    <2>4. CASE i # 1 /\ j # 1
      <3>1. /\ i \in 2..n + 1 /\ i - 1 \in 1..n /\ j \in 2..n + 1 /\ j - 1 \in 1..n
            /\ i - 1 # j - 1
        BY <1>1, <1>3, <2>4
      <3>2. QED
        BY <1>6, <1>9, <2>1, <3>1
    <2>5. QED
      BY <2>2, <2>3, <2>4
  <1>11. QED
    BY <1>3, <1>8, <1>10 DEF Distinct, m

-----------------------------------------------------------------------------
(* The key lookup.                                                         *)

Current == published[Len(published)].document
Answer(up) == [up |-> up, document |-> Current]
HeldNow == [held |-> TRUE, document |-> Current, at |-> now]
Dropped == [held |-> FALSE, document |-> NoDocument, at |-> now]

Lookup(kid, first, second) == get_signing_key(cache, kid, Answer(first), Answer(second), now)

\* A lookup that finds a document in hand.
LEMMA LookupInCases ==
  ASSUME NEW set, set.held \in BOOLEAN, NEW resolved, NEW kid, NEW up \in BOOLEAN, NEW n,
         NEW L, L = LookupIn(set, resolved, kid, Answer(up), n, now)
  PROVE  \/ /\ ~set.held \/ set.document = NoDocument
            /\ L = Outcome(NoKey, "fetch", "none", n, set, resolved)
         \/ /\ set.held /\ kid \in DOMAIN set.document
            /\ L = Found(kid, IF n = 0 THEN "set" ELSE "fetch", n, set, resolved)
         \/ /\ set.held /\ set.document # NoDocument /\ kid \notin DOMAIN set.document
            /\ \/ ~up /\ L = Outcome(NoKey, "fetch", "none", n + 1, Dropped, resolved)
               \/ /\ up /\ Current = NoDocument
                  /\ L = Outcome(NoKey, "fetch", "none", n + 1, HeldNow, resolved)
               \/ /\ up /\ kid \in DOMAIN Current
                  /\ L = Found(kid, "fetch", n + 1, HeldNow, resolved)
               \/ /\ up /\ kid \notin DOMAIN Current
                  /\ L = Outcome(NoKey, "jwt", "none", n + 1, HeldNow, resolved)
  <1>1. DOMAIN NoDocument = {}
    BY DEF NoDocument
  <1>2. CASE ~set.held \/ set.document = NoDocument
    BY <1>1, <1>2 DEF LookupIn
  <1>3. CASE set.held /\ kid \in DOMAIN set.document
    BY <1>1, <1>3 DEF LookupIn
  <1>4. CASE set.held /\ set.document # NoDocument /\ kid \notin DOMAIN set.document
    <2> DEFINE again == Fetched(Answer(up), now)
    <2>1. again = IF up THEN HeldNow ELSE Dropped
      BY DEF Fetched, Answer, HeldNow, Dropped
    <2>2. /\ HeldNow.held = TRUE /\ HeldNow.document = Current
          /\ Dropped.held = FALSE
      BY DEF HeldNow, Dropped
    <2>3. L = IF ~again.held \/ again.document = NoDocument
              THEN Outcome(NoKey, "fetch", "none", n + 1, again, resolved)
              ELSE IF kid \in DOMAIN again.document
              THEN Found(kid, "fetch", n + 1, again, resolved)
              ELSE Outcome(NoKey, "jwt", "none", n + 1, again, resolved)
      BY <1>4 DEF LookupIn
    <2> HIDE DEF again
    <2>4. CASE ~up
      BY <1>4, <2>1, <2>2, <2>3, <2>4
    <2>5. CASE up
      BY <1>4, <2>1, <2>2, <2>3, <2>5
    <2>6. QED
      BY <2>4, <2>5
  <1>5. QED
    BY <1>2, <1>3, <1>4

\* The documents and keys the issuer has published.
Publications == [document : Documents[config.world], at : 0..MaxNow]
Bindings ==
    UNION {{[kid |-> k, key |-> published[i].document[k]] : k \in DOMAIN published[i].document}
             : i \in DOMAIN published}

WorldInv ==
    /\ config \in Deployments
    /\ now \in 0..MaxNow
    /\ published \in Seq(Publications) /\ Len(published) >= 1
    /\ \A i \in 1..Len(published) : published[i].at <= now

\* A document in hand was the published one when it was fetched, or later.
SetInv(set) ==
    /\ set.held \in BOOLEAN
    /\ set.at \in Nat /\ set.at <= now
    /\ IF set.held
       THEN \E i \in DOMAIN published :
               set.document = published[i].document /\ Until(i) >= set.at
       ELSE set.document = NoDocument

CacheInv(c) ==
    /\ SetInv(c.set)
    /\ c.resolved \in Seq(Bindings)
    /\ Len(c.resolved) <= KeyCacheSize
    /\ Distinct(c.resolved)

\* The gateway holds the key id, remembered or in a fresh document.
Known(kid) ==
    \/ \E i \in DOMAIN cache.resolved : cache.resolved[i].kid = kid
    \/ now <= cache.set.at + Lifespan /\ kid \in DOMAIN cache.set.document

\* The ways a lookup ends: remembered, in the document in hand, or after one or
\* two requests, answered or not.
Remembers(L, kid) ==
    \E i \in 1..Len(cache.resolved) :
       /\ cache.resolved[i].kid = kid
       /\ L = Outcome(cache.resolved[i].key, "none", "resolved", 0, cache.set,
                      Remember(cache.resolved, kid, cache.resolved[i].key))
InHand(L, kid) ==
    /\ Fresh(cache.set, now) /\ kid \in DOMAIN cache.set.document
    /\ L = Found(kid, "set", 0, cache.set, cache.resolved)
EmptyInHand(L, kid) ==
    /\ ~Known(kid) /\ Fresh(cache.set, now) /\ cache.set.document = NoDocument
    /\ L = Outcome(NoKey, "fetch", "none", 0, cache.set, cache.resolved)
Fetches(L, kid, first, second, n) ==
    /\ ~Known(kid)
    /\ \/ kid \in DOMAIN Current /\ L = Found(kid, "fetch", n, HeldNow, cache.resolved)
       \/ /\ ~first \/ (n = 2 /\ ~second)
          /\ L = Outcome(NoKey, "fetch", "none", n, Dropped, cache.resolved)
       \/ /\ Current = NoDocument
          /\ L = Outcome(NoKey, "fetch", "none", n, HeldNow, cache.resolved)
       \/ /\ kid \notin DOMAIN Current
          /\ L = Outcome(NoKey, "jwt", "none", n, HeldNow, cache.resolved)

\* get_signing_key ends in one of these ways.
LEMMA LookupCases ==
  ASSUME CacheInv(cache), NEW kid, NEW first \in BOOLEAN, NEW second \in BOOLEAN,
         NEW L, L = Lookup(kid, first, second)
  PROVE  \/ Remembers(L, kid)
         \/ InHand(L, kid)
         \/ EmptyInHand(L, kid)
         \/ Fetches(L, kid, first, second, 1)
         \/ Fetches(L, kid, first, second, 2)
  <1> DEFINE p == Remembered(cache.resolved, kid)
  <1>1. /\ cache.resolved \in Seq(Bindings) /\ cache.set.held \in BOOLEAN
        /\ DOMAIN cache.resolved = 1..Len(cache.resolved)
        /\ ~cache.set.held => cache.set.document = NoDocument
    BY LenProperties DEF CacheInv, SetInv
  <1>2. DOMAIN NoDocument = {}
    BY DEF NoDocument
  <1>3. \/ p = 0 /\ \A j \in 1..Len(cache.resolved) : cache.resolved[j].kid # kid
        \/ p \in 1..Len(cache.resolved) /\ cache.resolved[p].kid = kid
    BY <1>1, RememberedIndex
  <1>4. L = IF p # 0
            THEN Outcome(cache.resolved[p].key, "none", "resolved", 0, cache.set,
                         Remember(cache.resolved, kid, cache.resolved[p].key))
            ELSE IF Fresh(cache.set, now)
            THEN LookupIn(cache.set, cache.resolved, kid, Answer(first), 0, now)
            ELSE LookupIn(Fetched(Answer(first), now), cache.resolved, kid, Answer(second), 1, now)
    BY DEF Lookup, get_signing_key
  <1> HIDE DEF p
  <1>5. CASE p # 0
    BY <1>3, <1>4, <1>5 DEF Remembers
  <1>6. CASE p = 0 /\ Fresh(cache.set, now)
    <2>1. \A j \in 1..Len(cache.resolved) : cache.resolved[j].kid # kid
      BY <1>3, <1>6
    <2>2. L = LookupIn(cache.set, cache.resolved, kid, Answer(first), 0, now)
      BY <1>4, <1>6
    <2>3. cache.set.held
      BY <1>6 DEF Fresh
    <2>4. kid \notin DOMAIN cache.set.document => ~Known(kid)
      BY <1>1, <2>1 DEF Known
    <2>5. \/ /\ cache.set.document = NoDocument
             /\ L = Outcome(NoKey, "fetch", "none", 0, cache.set, cache.resolved)
          \/ /\ kid \in DOMAIN cache.set.document
             /\ L = Found(kid, "set", 0, cache.set, cache.resolved)
          \/ /\ kid \notin DOMAIN cache.set.document
             /\ \/ ~first /\ L = Outcome(NoKey, "fetch", "none", 1, Dropped, cache.resolved)
                \/ /\ Current = NoDocument
                   /\ L = Outcome(NoKey, "fetch", "none", 1, HeldNow, cache.resolved)
                \/ /\ kid \in DOMAIN Current
                   /\ L = Found(kid, "fetch", 1, HeldNow, cache.resolved)
                \/ /\ kid \notin DOMAIN Current
                   /\ L = Outcome(NoKey, "jwt", "none", 1, HeldNow, cache.resolved)
      <3>1. 0 + 1 = 1
        OBVIOUS
      <3>2. \/ /\ ~cache.set.held \/ cache.set.document = NoDocument
               /\ L = Outcome(NoKey, "fetch", "none", 0, cache.set, cache.resolved)
            \/ /\ cache.set.held /\ kid \in DOMAIN cache.set.document
               /\ L = Found(kid, IF 0 = 0 THEN "set" ELSE "fetch", 0, cache.set, cache.resolved)
            \/ /\ cache.set.held /\ cache.set.document # NoDocument
               /\ kid \notin DOMAIN cache.set.document
               /\ \/ ~first /\ L = Outcome(NoKey, "fetch", "none", 0 + 1, Dropped, cache.resolved)
                  \/ /\ first /\ Current = NoDocument
                     /\ L = Outcome(NoKey, "fetch", "none", 0 + 1, HeldNow, cache.resolved)
                  \/ /\ first /\ kid \in DOMAIN Current
                     /\ L = Found(kid, "fetch", 0 + 1, HeldNow, cache.resolved)
                  \/ /\ first /\ kid \notin DOMAIN Current
                     /\ L = Outcome(NoKey, "jwt", "none", 0 + 1, HeldNow, cache.resolved)
        BY <1>1, <2>2, LookupInCases
      <3>3. QED
        BY <2>3, <3>1, <3>2
    <2>6. QED
      BY <1>2, <1>6, <2>4, <2>5 DEF InHand, EmptyInHand, Fetches
  <1>7. CASE p = 0 /\ ~Fresh(cache.set, now)
    <2>1. \A j \in 1..Len(cache.resolved) : cache.resolved[j].kid # kid
      BY <1>3, <1>7
    <2> DEFINE set == Fetched(Answer(first), now)
    <2>2. L = LookupIn(set, cache.resolved, kid, Answer(second), 1, now)
      BY <1>4, <1>7
    <2>3. ~Known(kid)
      BY <1>1, <1>2, <1>7, <2>1 DEF Known, Fresh
    <2>4. set = IF first THEN HeldNow ELSE Dropped
      BY DEF Fetched, Answer, HeldNow, Dropped
    <2>5. /\ HeldNow.held = TRUE /\ HeldNow.document = Current
          /\ Dropped.held = FALSE
      BY DEF HeldNow, Dropped
    <2> HIDE DEF set
    <2>6. 1 + 1 = 2 /\ 1 # 0
      OBVIOUS
    <2>7. CASE first
      <3>1. set = HeldNow /\ set.held \in BOOLEAN
        BY <2>4, <2>5, <2>7
      <3>2. \/ /\ Current = NoDocument
               /\ L = Outcome(NoKey, "fetch", "none", 1, HeldNow, cache.resolved)
            \/ /\ kid \in DOMAIN Current
               /\ L = Found(kid, "fetch", 1, HeldNow, cache.resolved)
            \/ /\ kid \notin DOMAIN Current
               /\ \/ ~second /\ L = Outcome(NoKey, "fetch", "none", 2, Dropped, cache.resolved)
                  \/ /\ Current = NoDocument
                     /\ L = Outcome(NoKey, "fetch", "none", 2, HeldNow, cache.resolved)
                  \/ L = Outcome(NoKey, "jwt", "none", 2, HeldNow, cache.resolved)
        BY <2>2, <2>5, <2>6, <3>1, LookupInCases
      <3>3. QED
        BY <2>3, <3>2 DEF Fetches
    <2>8. CASE ~first
      <3>1. set = Dropped /\ set.held = FALSE /\ set.held \in BOOLEAN
        BY <2>4, <2>5, <2>8
      <3>2. L = Outcome(NoKey, "fetch", "none", 1, set, cache.resolved)
        BY <2>2, <3>1 DEF LookupIn
      <3>3. QED
        BY <2>3, <2>8, <3>1, <3>2 DEF Fetches
    <2>9. QED
      BY <2>7, <2>8
  <1>8. QED
    BY <1>5, <1>6, <1>7

\* What the bounds and types say of clock and publications.
LEMMA WorldFacts ==
  ASSUME WorldInv
  PROVE  /\ now \in Nat /\ Len(published) \in Nat /\ Len(published) \in DOMAIN published
         /\ DOMAIN published = 1..Len(published)
         /\ Until(Len(published)) = now
         /\ \A i \in DOMAIN published : Until(i) \in Nat /\ Until(i) <= now
         /\ Current \in Documents[config.world]
  <1> DEFINE n == Len(published)
  <1>1. /\ n \in Nat /\ DOMAIN published = 1..n /\ n >= 1
        /\ \A i \in 1..n : published[i] \in Publications
    BY LenProperties, ElementOfSeq DEF WorldInv
  <1>2. now \in Nat /\ \A i \in 1..n : published[i].at \in Nat /\ published[i].at <= now
    BY <1>1, BoundsAssumption DEF WorldInv, Publications
  <1>3. \A i : Until(i) = IF i = n THEN now ELSE published[i + 1].at
    BY DEF Until
  <1>4. Current = published[n].document
    BY DEF Current
  <1> HIDE DEF n
  <1>5. n \in 1..n
    BY <1>1
  <1>6. \A i \in 1..n : i = n \/ i + 1 \in 1..n
    BY <1>1
  <1>7. \A i \in 1..n : Until(i) \in Nat /\ Until(i) <= now
    BY <1>2, <1>3, <1>6
  <1>8. Current \in Documents[config.world]
    BY <1>1, <1>4, <1>5 DEF Publications
  <1>9. QED
    BY <1>1, <1>2, <1>3, <1>5, <1>7, <1>8 DEF n

\* A pair is a binding when some published document makes it.
LEMMA BindingForm ==
  ASSUME NEW kid, NEW key
  PROVE  [kid |-> kid, key |-> key] \in Bindings <=> \E i \in DOMAIN published : Binds(i, kid, key)
  <1>1. ASSUME [kid |-> kid, key |-> key] \in Bindings
        PROVE  \E i \in DOMAIN published : Binds(i, kid, key)
    <2>1. PICK i \in DOMAIN published :
             [kid |-> kid, key |-> key] \in
                {[kid |-> k, key |-> published[i].document[k]] : k \in DOMAIN published[i].document}
      BY <1>1, Zenon DEF Bindings
    <2>2. PICK k \in DOMAIN published[i].document :
             [kid |-> kid, key |-> key] = [kid |-> k, key |-> published[i].document[k]]
      BY <2>1
    <2>3. kid = k /\ key = published[i].document[k]
      BY <2>2
    <2>4. QED
      BY <2>2, <2>3 DEF Binds
  <1>2. ASSUME NEW i \in DOMAIN published, Binds(i, kid, key)
        PROVE  [kid |-> kid, key |-> key] \in Bindings
    <2>1. kid \in DOMAIN published[i].document /\ published[i].document[kid] = key
      BY <1>2 DEF Binds
    <2>2. QED
      BY <2>1 DEF Bindings
  <1>3. QED
    BY <1>1, <1>2

\* Every remembered pair is a binding of its own key id.
LEMMA RememberedBinding ==
  ASSUME CacheInv(cache), NEW i \in 1..Len(cache.resolved)
  PROVE  [kid |-> cache.resolved[i].kid, key |-> cache.resolved[i].key] \in Bindings
  <1>1. cache.resolved[i] \in Bindings
    BY ElementOfSeq DEF CacheInv
  <1>2. QED
    BY <1>1 DEF Bindings

\* A lookup leaves the caches sound, whatever it met.
LEMMA LookupCache ==
  ASSUME WorldInv, CacheInv(cache), NEW kid, NEW first \in BOOLEAN, NEW second \in BOOLEAN,
         NEW L, L = Lookup(kid, first, second)
  PROVE  CacheInv(L.cache)
  <1>1. /\ SetInv(cache.set) /\ cache.resolved \in Seq(Bindings)
        /\ Len(cache.resolved) <= KeyCacheSize /\ Distinct(cache.resolved)
    BY DEF CacheInv
  <1>2. SetInv(HeldNow)
    <2>1. HeldNow.held = TRUE /\ HeldNow.document = Current /\ HeldNow.at = now
      BY DEF HeldNow
    <2>2. /\ Len(published) \in DOMAIN published
          /\ Until(Len(published)) = now /\ now \in Nat
      BY WorldFacts
    <2>3. /\ HeldNow.document = published[Len(published)].document
          /\ Until(Len(published)) >= HeldNow.at
      BY <2>1, <2>2 DEF Current
    <2>4. HeldNow.at \in Nat /\ HeldNow.at <= now
      BY <2>1, <2>2
    <2>5. QED
      BY <2>1, <2>2, <2>3, <2>4, Zenon DEF SetInv
  <1>3. SetInv(Dropped)
    <2>1. Dropped.held = FALSE /\ Dropped.document = NoDocument /\ Dropped.at = now
      BY DEF Dropped
    <2>2. QED
      BY <2>1, WorldFacts DEF SetInv
  <1>4. ASSUME NEW key, [kid |-> kid, key |-> key] \in Bindings
        PROVE  /\ Remember(cache.resolved, kid, key) \in Seq(Bindings)
               /\ Len(Remember(cache.resolved, kid, key)) <= KeyCacheSize
               /\ Distinct(Remember(cache.resolved, kid, key))
    BY <1>1, <1>4, RememberForm
  <1>5. ASSUME NEW set, SetInv(set), NEW resolved, resolved \in Seq(Bindings),
               Len(resolved) <= KeyCacheSize, Distinct(resolved),
               L.cache = [set |-> set, resolved |-> resolved]
        PROVE  CacheInv(L.cache)
    BY <1>5 DEF CacheInv
  <1>6. ASSUME NEW set, SetInv(set), set.held, kid \in DOMAIN set.document,
               L.cache = [set |-> set,
                          resolved |-> Remember(cache.resolved, kid, set.document[kid])]
        PROVE  CacheInv(L.cache)
    <2>1. [kid |-> kid, key |-> set.document[kid]] \in Bindings
      BY <1>6, BindingForm DEF SetInv, Binds
    <2>2. QED
      BY <1>4, <1>5, <1>6, <2>1
  <1>7. CASE Remembers(L, kid)
    <2>1. PICK i \in 1..Len(cache.resolved) :
             /\ cache.resolved[i].kid = kid
             /\ L = Outcome(cache.resolved[i].key, "none", "resolved", 0, cache.set,
                            Remember(cache.resolved, kid, cache.resolved[i].key))
      BY <1>7 DEF Remembers
    <2>2. [kid |-> kid, key |-> cache.resolved[i].key] \in Bindings
      BY <2>1, RememberedBinding
    <2>3. L.cache = [set |-> cache.set,
                     resolved |-> Remember(cache.resolved, kid, cache.resolved[i].key)]
      BY <2>1 DEF Outcome
    <2>4. QED
      BY <1>1, <1>4, <1>5, <2>2, <2>3
  <1>8. CASE InHand(L, kid)
    <2>1. cache.set.held /\ kid \in DOMAIN cache.set.document
      BY <1>8 DEF InHand, Fresh
    <2>2. L.cache = [set |-> cache.set,
                     resolved |-> Remember(cache.resolved, kid, cache.set.document[kid])]
      BY <1>8 DEF InHand, Found, Outcome
    <2>3. QED
      BY <1>1, <1>6, <2>1, <2>2
  <1>9. ASSUME NEW error, NEW n, NEW set, SetInv(set),
               L = Outcome(NoKey, error, "none", n, set, cache.resolved)
        PROVE  CacheInv(L.cache)
    <2>1. L.cache = [set |-> set, resolved |-> cache.resolved]
      BY <1>9 DEF Outcome
    <2>2. QED
      BY <1>1, <1>5, <1>9, <2>1
  <1>10. CASE EmptyInHand(L, kid)
    BY <1>1, <1>9, <1>10 DEF EmptyInHand
  <1>11. ASSUME NEW n, Fetches(L, kid, first, second, n) PROVE CacheInv(L.cache)
    <2>1. CASE kid \in DOMAIN Current /\ L = Found(kid, "fetch", n, HeldNow, cache.resolved)
      <3>1. HeldNow.held = TRUE /\ HeldNow.document = Current
        BY DEF HeldNow
      <3>2. L.cache = [set |-> HeldNow,
                       resolved |-> Remember(cache.resolved, kid, HeldNow.document[kid])]
        BY <2>1 DEF Found, Outcome
      <3>3. QED
        BY <1>2, <1>6, <2>1, <3>1, <3>2
    <2>2. QED
      BY <1>2, <1>3, <1>9, <1>11, <2>1 DEF Fetches
  <1>12. QED
    BY <1>7, <1>8, <1>10, <1>11, LookupCases

\* What a lookup tells: where its key was published, and why it found none.
LookupSound(L, kid, first, second) ==
    /\ L.error \in {"none", "jwt", "fetch"}
    /\ L.error # "none" => L.key = NoKey /\ L.via = "none"
    /\ L.error = "none" => PublishedSince(0, kid, L.key)
    /\ L.via \in {"set", "fetch"} => PublishedSince(now - Lifespan, kid, L.key)
    /\ Known(kid) => L.fetches = 0 /\ L.error = "none"
    /\ L.error = "fetch" => Unanswered(L, first, second) \/ EmptyServedSince(now - Lifespan)
    /\ L.error = "jwt" => kid \notin DOMAIN Current

\* Every lookup tells the truth about where its key came from.
LEMMA LookupFacts ==
  ASSUME WorldInv, CacheInv(cache), NEW kid, NEW first \in BOOLEAN, NEW second \in BOOLEAN,
         NEW L, L = Lookup(kid, first, second)
  PROVE  LookupSound(L, kid, first, second)
  <1>1. /\ now \in Nat /\ Lifespan \in Nat /\ Len(published) \in DOMAIN published
        /\ Until(Len(published)) = now
        /\ \A i \in DOMAIN published : Until(i) \in Nat
    BY WorldFacts, LifespanAssumption
  <1>2. ASSUME NEW key, NEW i \in DOMAIN published, Binds(i, kid, key)
        PROVE  PublishedSince(0, kid, key)
    <2>1. Until(i) >= 0
      BY <1>1
    <2>2. QED
      BY <1>2, <2>1 DEF PublishedSince
  <1>3. kid \in DOMAIN Current =>
           /\ PublishedSince(0, kid, Current[kid])
           /\ PublishedSince(now - Lifespan, kid, Current[kid])
    <2>1. kid \in DOMAIN Current => Binds(Len(published), kid, Current[kid])
      BY DEF Binds, Current
    <2>2. Until(Len(published)) >= now - Lifespan
      BY <1>1
    <2>3. QED
      BY <1>1, <1>2, <2>1, <2>2 DEF PublishedSince
  <1>4. Fresh(cache.set, now) =>
           \E i \in DOMAIN published :
              cache.set.document = published[i].document /\ Until(i) >= now - Lifespan
    <2> SUFFICES ASSUME Fresh(cache.set, now)
                 PROVE  \E i \in DOMAIN published :
                           cache.set.document = published[i].document
                           /\ Until(i) >= now - Lifespan
      OBVIOUS
    <2>1. PICK i \in DOMAIN published :
             cache.set.document = published[i].document /\ Until(i) >= cache.set.at
      BY DEF CacheInv, SetInv, Fresh
    <2>2. cache.set.at \in Nat /\ now <= cache.set.at + Lifespan
      BY DEF CacheInv, SetInv, Fresh
    <2>3. Until(i) >= now - Lifespan
      <3>1. \A u, a \in Nat : u >= a /\ now <= a + Lifespan => u >= now - Lifespan
        BY <1>1
      <3>2. QED
        BY <1>1, <2>1, <2>2, <3>1
    <2>4. QED
      BY <2>1, <2>3
  <1>5. CASE Remembers(L, kid)
    <2>1. PICK i \in 1..Len(cache.resolved) :
             /\ cache.resolved[i].kid = kid
             /\ L = Outcome(cache.resolved[i].key, "none", "resolved", 0, cache.set,
                            Remember(cache.resolved, kid, cache.resolved[i].key))
      BY <1>5 DEF Remembers
    <2>2. /\ L.key = cache.resolved[i].key /\ L.error = "none" /\ L.via = "resolved"
          /\ L.fetches = 0
      BY <2>1 DEF Outcome
    <2>3. PublishedSince(0, kid, L.key)
      BY <1>2, <2>1, <2>2, RememberedBinding, BindingForm
    <2>4. QED
      BY <2>2, <2>3 DEF LookupSound
  <1>6. CASE InHand(L, kid)
    <2>1. /\ L.key = cache.set.document[kid] /\ L.error = "none" /\ L.via = "set"
          /\ L.fetches = 0
      BY <1>6 DEF InHand, Found, Outcome
    <2>2. PICK i \in DOMAIN published :
             cache.set.document = published[i].document /\ Until(i) >= now - Lifespan
      BY <1>4, <1>6 DEF InHand
    <2>3. Binds(i, kid, L.key)
      BY <1>6, <2>1, <2>2 DEF InHand, Binds
    <2>4. PublishedSince(0, kid, L.key) /\ PublishedSince(now - Lifespan, kid, L.key)
      BY <1>2, <2>2, <2>3 DEF PublishedSince
    <2>5. QED
      BY <2>1, <2>4 DEF LookupSound
  <1>7. CASE EmptyInHand(L, kid)
    <2>1. L.key = NoKey /\ L.error = "fetch" /\ L.via = "none"
      BY <1>7 DEF EmptyInHand, Outcome
    <2>2. EmptyServedSince(now - Lifespan)
      BY <1>4, <1>7 DEF EmptyInHand, EmptyServedSince
    <2>3. QED
      BY <1>7, <2>1, <2>2 DEF LookupSound, EmptyInHand
  <1>8. ASSUME NEW n \in {1, 2}, Fetches(L, kid, first, second, n)
        PROVE  LookupSound(L, kid, first, second)
    <2>1. ~Known(kid)
      BY <1>8 DEF Fetches
    <2>2. CASE kid \in DOMAIN Current /\ L = Found(kid, "fetch", n, HeldNow, cache.resolved)
      <3>1. L.key = Current[kid] /\ L.error = "none" /\ L.via = "fetch"
        BY <2>2 DEF Found, Outcome, HeldNow
      <3>2. QED
        BY <1>3, <2>1, <2>2, <3>1 DEF LookupSound
    <2>3. CASE /\ ~first \/ (n = 2 /\ ~second)
               /\ L = Outcome(NoKey, "fetch", "none", n, Dropped, cache.resolved)
      <3>1. L.key = NoKey /\ L.error = "fetch" /\ L.via = "none" /\ L.fetches = n
        BY <2>3 DEF Outcome
      <3>2. Unanswered(L, first, second)
        BY <1>8, <2>3, <3>1 DEF Unanswered
      <3>3. QED
        BY <2>1, <3>1, <3>2 DEF LookupSound
    <2>4. CASE /\ Current = NoDocument
               /\ L = Outcome(NoKey, "fetch", "none", n, HeldNow, cache.resolved)
      <3>1. L.key = NoKey /\ L.error = "fetch" /\ L.via = "none"
        BY <2>4 DEF Outcome
      <3>2. Until(Len(published)) >= now - Lifespan
        BY <1>1
      <3>3. EmptyServedSince(now - Lifespan)
        BY <1>1, <2>4, <3>2 DEF EmptyServedSince, Current
      <3>4. QED
        BY <2>1, <3>1, <3>3 DEF LookupSound
    <2>5. CASE /\ kid \notin DOMAIN Current
               /\ L = Outcome(NoKey, "jwt", "none", n, HeldNow, cache.resolved)
      <3>1. L.key = NoKey /\ L.error = "jwt" /\ L.via = "none"
        BY <2>5 DEF Outcome
      <3>2. QED
        BY <2>1, <2>5, <3>1 DEF LookupSound
    <2>6. QED
      BY <1>8, <2>2, <2>3, <2>4, <2>5 DEF Fetches
  <1>9. QED
    BY <1>5, <1>6, <1>7, <1>8, LookupCases

-----------------------------------------------------------------------------
(* Verifications: sequences of checks.                                     *)

\* All checks pass, or the first that fails decides.
LEMMA FirstFailureForm ==
  ASSUME NEW n \in Nat, NEW checks, DOMAIN checks = 1..n
  PROVE  \/ (\A i \in 1..n : ~checks[i][1]) /\ FirstFailure(checks) = "none"
         \/ \E i \in 1..n :
               /\ checks[i][1] /\ FirstFailure(checks) = checks[i][2]
               /\ \A j \in 1..n : checks[j][1] => i <= j
  <1> DEFINE F == {i \in 1..n : checks[i][1]}
             i == CHOOSE x \in F : \A y \in F : x <= y
  <1>1. FirstFailure(checks) = IF F = {} THEN "none" ELSE checks[i][2]
    BY DEF FirstFailure
  <1>2. F # {} => i \in F /\ \A y \in F : i <= y
    <2>1. F \subseteq Nat
      OBVIOUS
    <2>2. F # {} => \E x \in F : \A y \in F : x <= y
      <3> HIDE DEF F
      <3>1. QED
        BY <2>1, LeastNat
    <2> HIDE DEF F
    <2>3. QED
      BY <2>2
  <1> HIDE DEF i
  <1>3. CASE F = {}
    BY <1>1, <1>3
  <1>4. CASE F # {}
    <2>1. i \in 1..n /\ checks[i][1]
      BY <1>2, <1>4
    <2>2. \A j \in 1..n : checks[j][1] => i <= j
      BY <1>2, <1>4
    <2>3. QED
      BY <1>1, <1>4, <2>1, <2>2
  <1>5. QED
    BY <1>3, <1>4

\* Where no check raises "none", the verdict is "none" exactly if all pass.
LEMMA AllPass ==
  ASSUME NEW n \in Nat, NEW checks, DOMAIN checks = 1..n, \A i \in 1..n : checks[i][2] # "none"
  PROVE  FirstFailure(checks) = "none" <=> \A i \in 1..n : ~checks[i][1]
  BY FirstFailureForm

\* The verdict is "none" or an error some check raises.
LEMMA ErrorOfCheck ==
  ASSUME NEW n \in Nat, NEW checks, DOMAIN checks = 1..n,
         NEW E, \A i \in 1..n : checks[i][2] \in E
  PROVE  FirstFailure(checks) = "none" \/ FirstFailure(checks) \in E
  BY FirstFailureForm

\* HeaderError lets through what can be read and names an allowed algorithm.
LEMMA HeaderErrorForm ==
  ASSUME NEW tok
  PROVE  /\ HeaderError(tok) \in {"none", "jwt", "other"}
         /\ HeaderError(tok) = "none" <=>
               tok.shape # "garbage" /\ tok.kid # NotText /\ tok.alg \in ALLOWED_ALGORITHMS
  <1> DEFINE c == << <<tok.shape = "garbage", "jwt">>,
                     <<tok.kid = NotText, "other">>,
                     <<tok.alg \notin ALLOWED_ALGORITHMS, "jwt">> >>
  <1>1. HeaderError(tok) = FirstFailure(c)
    BY DEF HeaderError
  <1>2. /\ DOMAIN c = 1..3
        /\ c[1] = <<tok.shape = "garbage", "jwt">>
        /\ c[2] = <<tok.kid = NotText, "other">>
        /\ c[3] = <<tok.alg \notin ALLOWED_ALGORITHMS, "jwt">>
    OBVIOUS
  <1> HIDE DEF c
  <1>3. /\ c[1][1] <=> tok.shape = "garbage"
        /\ c[2][1] <=> tok.kid = NotText
        /\ c[3][1] <=> tok.alg \notin ALLOWED_ALGORITHMS
    <2>1. /\ c[1][1] = (tok.shape = "garbage")
          /\ c[2][1] = (tok.kid = NotText)
          /\ c[3][1] = (tok.alg \notin ALLOWED_ALGORITHMS)
      BY <1>2
    <2>2. QED
      BY <2>1, Zenon
  <1>4. c[1][2] = "jwt" /\ c[2][2] = "other" /\ c[3][2] = "jwt"
    BY <1>2
  <1>5. \A i \in 1..3 : c[i][2] \in {"jwt", "other"}
    BY <1>4
  <1>6. FirstFailure(c) = "none" <=> \A i \in 1..3 : ~c[i][1]
    BY <1>2, <1>5, AllPass
  <1>7. FirstFailure(c) \in {"none", "jwt", "other"}
    <2>1. FirstFailure(c) = "none" \/ FirstFailure(c) \in {"jwt", "other"}
      BY <1>2, <1>5, ErrorOfCheck
    <2>2. QED
      BY <2>1
  <1>8. (\A i \in 1..3 : ~c[i][1]) <=> ~c[1][1] /\ ~c[2][1] /\ ~c[3][1]
    OBVIOUS
  <1>9. QED
    BY <1>1, <1>3, <1>6, <1>7, <1>8

\* A claim the call requires is absent.
Lacking(tok, p) ==
    \/ "exp" \in p.require /\ tok.exp.form \in {"absent", "null"}
    \/ "iss" \in p.require /\ ~Present(tok.iss)
    \/ "aud" \in p.require /\ tok.aud = {}
    \/ "sub" \in p.require /\ ~Present(tok.sub)
    \/ "iat" \in p.require /\ tok.iat.form \in {"absent", "null"}
    \/ "jti" \in p.require /\ ~Present(tok.jti)

\* What a token is that jwt.decode returns the claims of.
Decoded(tok, p, clock) ==
    /\ tok.alg \in p.algorithms /\ p.key # Unparsable /\ tok.signer = p.key
    /\ tok.shape # "payload"
    /\ ~Lacking(tok, p)
    /\ ~Escapes(tok.iat) /\ tok.iat.form # "junk" /\ ~AfterNow(tok.iat, clock + p.leeway)
    /\ ~Escapes(tok.nbf) /\ tok.nbf.form # "junk" /\ ~AfterNow(tok.nbf, clock + p.leeway)
    /\ ~Escapes(tok.exp) /\ tok.exp.form # "junk" /\ ~NotAfterNow(tok.exp, clock - p.leeway)
    /\ tok.iss # Absent /\ tok.iss = p.issuer
    /\ ~(p.audience = {} /\ tok.aud # {})
    /\ ~(p.audience # {} /\ tok.aud = {})
    /\ ~(p.audience # {} /\ (NotText \in tok.aud \/ tok.aud \cap p.audience = {}))
    /\ ~(p.strict /\ {tok.sub, tok.jti} \cap {Null, NotText} # {})

\* The twenty checks of jwt.decode; a claim is missed only in a token whose
\* signature was verified.
LEMMA DecodeForm ==
  ASSUME NEW tok, NEW p, NEW clock
  PROVE  /\ decode(tok, p, clock) = "none" <=> Decoded(tok, p, clock)
         /\ decode(tok, p, clock) = "MissingRequiredClaim" => tok.signer = p.key
  <1> DEFINE c == DecodeChecks(tok, p, clock)
  <1>1. decode(tok, p, clock) = FirstFailure(c) /\ DOMAIN c = 1..20
    BY DEF decode, DecodeChecks
  <1>2. /\ c[1][1] = (tok.alg \notin p.algorithms)
        /\ c[2][1] = (p.key = Unparsable)
        /\ c[3][1] = (tok.signer # p.key)
        /\ c[4][1] = (tok.shape = "payload")
        /\ c[5][1] = (Lacking(tok, p))
        /\ c[6][1] = (Escapes(tok.iat))
        /\ c[7][1] = (tok.iat.form = "junk")
        /\ c[8][1] = (AfterNow(tok.iat, clock + p.leeway))
        /\ c[9][1] = (Escapes(tok.nbf))
        /\ c[10][1] = (tok.nbf.form = "junk")
        /\ c[11][1] = (AfterNow(tok.nbf, clock + p.leeway))
        /\ c[12][1] = (Escapes(tok.exp))
        /\ c[13][1] = (tok.exp.form = "junk")
        /\ c[14][1] = (NotAfterNow(tok.exp, clock - p.leeway))
        /\ c[15][1] = (tok.iss = Absent)
        /\ c[16][1] = (tok.iss # p.issuer)
        /\ c[17][1] = (p.audience = {} /\ tok.aud # {})
        /\ c[18][1] = (p.audience # {} /\ tok.aud = {})
        /\ c[19][1] = (p.audience # {} /\ (NotText \in tok.aud \/ tok.aud \cap p.audience = {}))
        /\ c[20][1] = (p.strict /\ {tok.sub, tok.jti} \cap {Null, NotText} # {})
    BY DEF DecodeChecks, Lacking
  <1>3. /\ c[1][2] = "InvalidAlgorithm" /\ c[2][2] = "other"
        /\ c[3][2] = "InvalidSignature" /\ c[4][2] = "Decode"
        /\ c[5][2] = "MissingRequiredClaim" /\ c[6][2] = "other"
        /\ c[7][2] = "InvalidIssuedAt" /\ c[8][2] = "ImmatureSignature"
        /\ c[9][2] = "other" /\ c[10][2] = "Decode"
        /\ c[11][2] = "ImmatureSignature" /\ c[12][2] = "other"
        /\ c[13][2] = "Decode" /\ c[14][2] = "ExpiredSignature"
        /\ c[15][2] = "MissingRequiredClaim" /\ c[16][2] = "InvalidIssuer"
        /\ c[17][2] = "InvalidAudience" /\ c[18][2] = "MissingRequiredClaim"
        /\ c[19][2] = "InvalidAudience" /\ c[20][2] = "InvalidSubjectOrId"
    BY DEF DecodeChecks
  <1> HIDE DEF c
  <1>4. \A i \in 1..20 : c[i][2] # "none"
    BY <1>3
  <1>5. FirstFailure(c) = "none" <=> \A i \in 1..20 : ~c[i][1]
    BY <1>1, <1>4, AllPass
  <1>6. (\A i \in 1..20 : ~c[i][1]) <=>
           /\ ~c[1][1] /\ ~c[2][1] /\ ~c[3][1] /\ ~c[4][1] /\ ~c[5][1]
           /\ ~c[6][1] /\ ~c[7][1] /\ ~c[8][1] /\ ~c[9][1] /\ ~c[10][1]
           /\ ~c[11][1] /\ ~c[12][1] /\ ~c[13][1] /\ ~c[14][1] /\ ~c[15][1]
           /\ ~c[16][1] /\ ~c[17][1] /\ ~c[18][1] /\ ~c[19][1] /\ ~c[20][1]
    OBVIOUS
  <1>7. /\ (c[1][1] <=> tok.alg \notin p.algorithms)
        /\ (c[2][1] <=> p.key = Unparsable)
        /\ (c[3][1] <=> tok.signer # p.key)
        /\ (c[4][1] <=> tok.shape = "payload")
        /\ (c[5][1] <=> Lacking(tok, p))
        /\ (c[6][1] <=> Escapes(tok.iat))
        /\ (c[7][1] <=> tok.iat.form = "junk")
        /\ (c[8][1] <=> AfterNow(tok.iat, clock + p.leeway))
        /\ (c[9][1] <=> Escapes(tok.nbf))
        /\ (c[10][1] <=> tok.nbf.form = "junk")
        /\ (c[11][1] <=> AfterNow(tok.nbf, clock + p.leeway))
        /\ (c[12][1] <=> Escapes(tok.exp))
        /\ (c[13][1] <=> tok.exp.form = "junk")
        /\ (c[14][1] <=> NotAfterNow(tok.exp, clock - p.leeway))
        /\ (c[15][1] <=> tok.iss = Absent)
        /\ (c[16][1] <=> tok.iss # p.issuer)
        /\ (c[17][1] <=> (p.audience = {} /\ tok.aud # {}))
        /\ (c[18][1] <=> (p.audience # {} /\ tok.aud = {}))
        /\ (c[19][1] <=> (p.audience # {} /\ (NotText \in tok.aud \/ tok.aud \cap p.audience = {})))
        /\ (c[20][1] <=> (p.strict /\ {tok.sub, tok.jti} \cap {Null, NotText} # {}))
    BY <1>2, Zenon
  <1>8. decode(tok, p, clock) = "none" <=> Decoded(tok, p, clock)
    BY <1>1, <1>5, <1>6, <1>7, Zenon DEF Decoded
  <1>9. ASSUME FirstFailure(c) = "MissingRequiredClaim" PROVE tok.signer = p.key
    <2>1. PICK i \in 1..20 :
             /\ FirstFailure(c) = c[i][2]
             /\ \A j \in 1..20 : c[j][1] => i <= j
      BY <1>1, <1>9, FirstFailureForm
    <2>2. i # 1 /\ i # 2 /\ i # 3
      BY <1>3, <1>9, <2>1
    <2>3. ~(i <= 3)
      BY <2>2
    <2>4. ~c[3][1]
      BY <2>1, <2>3
    <2>5. QED
      BY <1>7, <2>4
  <1>10. QED
    BY <1>1, <1>8, <1>9

\* The time claims, check by check and without an order.
LEMMA WindowForm ==
  ASSUME now \in Nat, NEW leeway \in Nat, NEW tok, WellFormedToken(tok)
  PROVE  InWindow(tok, leeway) <=>
            /\ ~Escapes(tok.iat) /\ tok.iat.form # "junk" /\ ~AfterNow(tok.iat, now + leeway)
            /\ ~Escapes(tok.nbf) /\ tok.nbf.form # "junk" /\ ~AfterNow(tok.nbf, now + leeway)
            /\ ~Escapes(tok.exp) /\ tok.exp.form # "junk" /\ ~NotAfterNow(tok.exp, now - leeway)
  <1>1. now + leeway \in Int /\ now - leeway \in Int
    OBVIOUS
  <1>2. ASSUME NEW t, t.form \in TimeForms, t.at \in Int, NEW clock \in Int
        PROVE  /\ (Readable(t, {"absent"}) /\ NotLater(t, clock)) <=>
                     (~Escapes(t) /\ t.form # "junk" /\ ~AfterNow(t, clock))
               /\ (Readable(t, {"absent", "huge", "overflow"}) /\ Later(t, clock)) <=>
                     (~Escapes(t) /\ t.form # "junk" /\ ~NotAfterNow(t, clock))
    BY <1>2 DEF TimeForms, Readable, NotLater, Later, Escapes, AfterNow, NotAfterNow
  <1>3. /\ tok.iat.form \in TimeForms /\ tok.iat.at \in Int
        /\ tok.nbf.form \in TimeForms /\ tok.nbf.at \in Int
        /\ tok.exp.form \in TimeForms /\ tok.exp.at \in Int
    BY DEF WellFormedToken
  <1>4. (Readable(tok.iat, {"absent"}) /\ NotLater(tok.iat, now + leeway)) <=>
           (~Escapes(tok.iat) /\ tok.iat.form # "junk" /\ ~AfterNow(tok.iat, now + leeway))
    BY <1>1, <1>2, <1>3
  <1>5. (Readable(tok.nbf, {"absent"}) /\ NotLater(tok.nbf, now + leeway)) <=>
           (~Escapes(tok.nbf) /\ tok.nbf.form # "junk" /\ ~AfterNow(tok.nbf, now + leeway))
    BY <1>1, <1>2, <1>3
  <1>6. (Readable(tok.exp, {"absent", "huge", "overflow"}) /\ Later(tok.exp, now - leeway)) <=>
           (~Escapes(tok.exp) /\ tok.exp.form # "junk" /\ ~NotAfterNow(tok.exp, now - leeway))
    BY <1>1, <1>2, <1>3
  <1>7. QED
    BY <1>4, <1>5, <1>6, Zenon DEF InWindow

-----------------------------------------------------------------------------
(* OIDC.                                                                   *)

\* ClaimsError is what decode says of the claims.
OidcCall(key) ==
    [key |-> key, algorithms |-> ALLOWED_ALGORITHMS, issuer |-> config.oidc.issuer,
     audience |-> {config.oidc.audience} \ {Absent, ""}, leeway |-> 0, require |-> {},
     strict |-> config.oidc.strict]

\* ClaimsError is the verdict of that call, every PyJWT error one.
LEMMA ClaimsErrorForm ==
  ASSUME NEW tok, NEW key
  PROVE  /\ ClaimsError(tok, key, config.oidc, now) \in {"none", "other", "jwt"}
         /\ ClaimsError(tok, key, config.oidc, now) = "none" <=>
               Decoded(tok, OidcCall(key), now)
  <1> DEFINE e == decode(tok, OidcCall(key), now)
  <1>1. ClaimsError(tok, key, config.oidc, now) = IF e \in {"none", "other"} THEN e ELSE "jwt"
    BY DEF ClaimsError, OidcCall
  <1>2. e = "none" <=> Decoded(tok, OidcCall(key), now)
    BY DecodeForm
  <1> HIDE DEF e
  <1>3. QED
    BY <1>1, <1>2

\* The checks around the lookup, whatever key it returned, let in exactly the
\* acceptable tokens that key signed.
LEMMA OidcChecks ==
  ASSUME now \in Nat, config \in Deployments, HasVerifier, NEW tok, WellFormedToken(tok), NEW key
  PROVE  OidcAcceptable(tok) /\ key = tok.signer <=>
            /\ HeaderError(tok) = "none" /\ tok.shape # "payload"
            /\ ClaimsError(tok, key, config.oidc, now) = "none"
            /\ ~Unmappable(tok)
  <1> DEFINE p == OidcCall(key)
  <1>1. HeaderError(tok) = "none" <=>
           tok.shape # "garbage" /\ tok.kid # NotText /\ tok.alg \in ALLOWED_ALGORITHMS
    BY HeaderErrorForm
  <1>2. ClaimsError(tok, key, config.oidc, now) = "none" <=> Decoded(tok, p, now)
    BY ClaimsErrorForm
  <1>3. /\ p.key = key /\ p.algorithms = ALLOWED_ALGORITHMS /\ p.issuer = config.oidc.issuer
        /\ p.audience = {config.oidc.audience} \ {Absent, ""} /\ p.leeway = 0
        /\ p.require = {} /\ p.strict = config.oidc.strict
    BY DEF OidcCall
  <1> HIDE DEF p
  <1>4. /\ tok.shape \in {"ok", "garbage", "payload"}
        /\ tok.signer # Unparsable
    BY DEF WellFormedToken
  <1>5. /\ config.oidc.strict \in BOOLEAN
        /\ config.oidc.issuer # Absent
    BY DeploymentsAssumption DEF WellFormedDeployment, HasVerifier, IsText
  <1>6. InWindow(tok, 0) <=>
            /\ ~Escapes(tok.iat) /\ tok.iat.form # "junk" /\ ~AfterNow(tok.iat, now + p.leeway)
            /\ ~Escapes(tok.nbf) /\ tok.nbf.form # "junk" /\ ~AfterNow(tok.nbf, now + p.leeway)
            /\ ~Escapes(tok.exp) /\ tok.exp.form # "junk" /\ ~NotAfterNow(tok.exp, now - p.leeway)
    <2>1. p.leeway = 0 /\ p.leeway \in Nat
      <3>1. \A n : n = 0 => n \in Nat
        OBVIOUS
      <3>2. QED
        BY <1>3, <3>1, Zenon
    <2>2. InWindow(tok, p.leeway) <=>
            /\ ~Escapes(tok.iat) /\ tok.iat.form # "junk" /\ ~AfterNow(tok.iat, now + p.leeway)
            /\ ~Escapes(tok.nbf) /\ tok.nbf.form # "junk" /\ ~AfterNow(tok.nbf, now + p.leeway)
            /\ ~Escapes(tok.exp) /\ tok.exp.form # "junk" /\ ~NotAfterNow(tok.exp, now - p.leeway)
      BY <2>1, WindowForm, Zenon
    <2>3. QED
      BY <2>1, <2>2, Zenon
  <1>7. ~Lacking(tok, p)
    BY <1>3 DEF Lacking
  <1>8. (IF config.oidc.audience \in {Absent, ""} THEN tok.aud = {}
         ELSE NotText \notin tok.aud /\ config.oidc.audience \in tok.aud) <=>
            /\ ~(p.audience = {} /\ tok.aud # {})
            /\ ~(p.audience # {} /\ tok.aud = {})
            /\ ~(p.audience # {} /\ (NotText \in tok.aud \/ tok.aud \cap p.audience = {}))
    <2>1. CASE config.oidc.audience \in {Absent, ""}
      <3>1. p.audience = {}
        BY <1>3, <2>1
      <3>2. QED
        BY <2>1, <3>1
    <2>2. CASE config.oidc.audience \notin {Absent, ""}
      <3>1. p.audience = {config.oidc.audience}
        BY <1>3, <2>2
      <3>2. QED
        BY <2>2, <3>1
    <2>3. QED
      BY <2>1, <2>2
  <1>9. ~Unmappable(tok) =>
           (~(p.strict /\ {tok.sub, tok.jti} \cap {Null, NotText} # {}) <=>
            (config.oidc.strict => tok.jti \notin {Null, NotText}))
    BY <1>3, <1>5 DEF Unmappable, IsText
  <1>10. ~Unmappable(tok) <=> IsText(tok.sub) /\ tok.sub # ""
    BY DEF Unmappable
  <1>11. Decoded(tok, p, now) <=>
            /\ tok.alg \in ALLOWED_ALGORITHMS /\ key # Unparsable /\ tok.signer = key
            /\ tok.shape # "payload"
            /\ InWindow(tok, 0)
            /\ tok.iss = config.oidc.issuer
            /\ IF config.oidc.audience \in {Absent, ""} THEN tok.aud = {}
               ELSE NotText \notin tok.aud /\ config.oidc.audience \in tok.aud
            /\ ~(p.strict /\ {tok.sub, tok.jti} \cap {Null, NotText} # {})
    <2>1. /\ p.key = key /\ p.algorithms = ALLOWED_ALGORITHMS /\ p.issuer = config.oidc.issuer
      BY <1>3
    <2>2. tok.iss # Absent /\ tok.iss = p.issuer <=> tok.iss = config.oidc.issuer
      BY <1>5, <2>1
    <2>3. QED
      BY <1>6, <1>7, <1>8, <2>1, <2>2, Zenon DEF Decoded
  <1>12. QED
    BY <1>1, <1>2, <1>4, <1>9, <1>10, <1>11 DEF OidcAcceptable

-----------------------------------------------------------------------------
(* BASIS-local tokens.                                                     *)

\* Stripping twice is stripping once, and leaves a text a text.
LEMMA StripFacts ==
  ASSUME NEW t
  PROVE  /\ Strip(Strip(t)) = Strip(t)
         /\ IsText(t) => IsText(Strip(t))
         /\ Strip("") = ""
  BY TrimAssumption DEF Strip

\* What startup has checked of an environment it accepts.
LEMMA TrustConfigForm ==
  ASSUME NEW env, TrustConfigError(env) = "none"
  PROVE  /\ env.issuer \notin {Absent, ""} /\ Strip(env.issuer) = env.issuer
         /\ split_csv(env.audience) # {}
         /\ \A kid \in DOMAIN env.public_keys.of : Strip(kid) # ""
         /\ split_csv(env.algorithms) \cap (UnsignedAlgorithms \cup SymmetricAlgorithms) = {}
  <1> DEFINE c == << <<env.issuer \in {Absent, ""}, "EvaluationConfigError">>,
                  <<env.audience = {}, "EvaluationConfigError">>,
                  <<env.public_keys.form # "object", "EvaluationConfigError">>,
                  <<Strip(env.issuer) = "" \/ Padded(env.issuer), "BasisLocalTokenConfigError">>,
                  <<split_csv(env.audience) = {}, "BasisLocalTokenConfigError">>,
                  <<\E kid \in DOMAIN env.public_keys.of : BadEntry(kid, env.public_keys.of[kid]),
                    "BasisLocalTokenConfigError">>,
                  <<split_csv(env.algorithms) = {}, "BasisLocalTokenConfigError">>,
                  <<split_csv(env.algorithms)
                      \cap (UnsignedAlgorithms \cup SymmetricAlgorithms) # {},
                    "BasisLocalTokenConfigError">> >>
  <1>1. TrustConfigError(env) = FirstFailure(c)
    BY DEF TrustConfigError
  <1>2. DOMAIN c = 1..8
    OBVIOUS
  <1>3. /\ c[1][1] = (env.issuer \in {Absent, ""})
        /\ c[2][1] = (env.audience = {})
        /\ c[3][1] = (env.public_keys.form # "object")
        /\ c[4][1] = (Strip(env.issuer) = "" \/ Padded(env.issuer))
        /\ c[5][1] = (split_csv(env.audience) = {})
        /\ c[6][1] = (\E kid \in DOMAIN env.public_keys.of : BadEntry(kid, env.public_keys.of[kid]))
        /\ c[7][1] = (split_csv(env.algorithms) = {})
        /\ c[8][1] = (split_csv(env.algorithms)
                       \cap (UnsignedAlgorithms \cup SymmetricAlgorithms) # {})
    OBVIOUS
  <1>4. /\ c[1][2] = "EvaluationConfigError" /\ c[2][2] = "EvaluationConfigError"
        /\ c[3][2] = "EvaluationConfigError" /\ c[4][2] = "BasisLocalTokenConfigError"
        /\ c[5][2] = "BasisLocalTokenConfigError" /\ c[6][2] = "BasisLocalTokenConfigError"
        /\ c[7][2] = "BasisLocalTokenConfigError" /\ c[8][2] = "BasisLocalTokenConfigError"
    OBVIOUS
  <1> HIDE DEF c
  <1>5. FirstFailure(c) = "none" <=> \A i \in 1..8 : ~c[i][1]
    <2>1. \A i \in 1..8 : c[i][2] # "none"
      BY <1>4
    <2>2. QED
      BY <1>2, <2>1, AllPass
  <1>6. (\A i \in 1..8 : ~c[i][1]) <=>
           ~c[1][1] /\ ~c[2][1] /\ ~c[3][1] /\ ~c[4][1]
           /\ ~c[5][1] /\ ~c[6][1] /\ ~c[7][1] /\ ~c[8][1]
    OBVIOUS
  <1>7. /\ (c[1][1] <=> (env.issuer \in {Absent, ""}))
        /\ (c[2][1] <=> (env.audience = {}))
        /\ (c[3][1] <=> (env.public_keys.form # "object"))
        /\ (c[4][1] <=> (Strip(env.issuer) = "" \/ Padded(env.issuer)))
        /\ (c[5][1] <=> (split_csv(env.audience) = {}))
        /\ (c[6][1] <=> (\E kid \in DOMAIN env.public_keys.of :
                            BadEntry(kid, env.public_keys.of[kid])))
        /\ (c[7][1] <=> (split_csv(env.algorithms) = {}))
        /\ (c[8][1] <=> (split_csv(env.algorithms)
                            \cap (UnsignedAlgorithms \cup SymmetricAlgorithms) # {}))
    BY <1>3, Zenon
  <1>8. QED
    BY <1>1, <1>5, <1>6, <1>7 DEF BadEntry, Padded

\* The header checks, in any order.
LEMMA LocalHeaderForm ==
  ASSUME NEW tok, NEW trust
  PROVE  LET e == FirstFailure(LocalHeaderChecks(tok, trust)) IN
         /\ e \in {"none", "header"}
         /\ e = "none" <=>
               /\ tok.shape # "garbage" /\ tok.kid # NotText
               /\ Filled(tok.kid) /\ Filled(tok.alg)
               /\ Strip(tok.alg) \notin UnsignedAlgorithms \cup SymmetricAlgorithms
               /\ Strip(tok.alg) \in trust.allowed_algorithms
               /\ Strip(tok.kid) \in DOMAIN trust.public_keys_by_id
  <1> DEFINE c == LocalHeaderChecks(tok, trust)
  <1>1. DOMAIN c = 1..6
    BY DEF LocalHeaderChecks
  <1>2. /\ c[1][1] = (tok.shape = "garbage" \/ tok.kid = NotText)
        /\ c[2][1] = (~Filled(tok.kid))
        /\ c[3][1] = (~Filled(tok.alg))
        /\ c[4][1] = (Strip(tok.alg) \in UnsignedAlgorithms \cup SymmetricAlgorithms)
        /\ c[5][1] = (Strip(tok.alg) \notin trust.allowed_algorithms)
        /\ c[6][1] = (Strip(tok.kid) \notin DOMAIN trust.public_keys_by_id)
    BY DEF LocalHeaderChecks
  <1>3. /\ c[1][2] = "header" /\ c[2][2] = "header"
        /\ c[3][2] = "header" /\ c[4][2] = "header"
        /\ c[5][2] = "header" /\ c[6][2] = "header"
    BY DEF LocalHeaderChecks
  <1> HIDE DEF c
  <1>4. FirstFailure(c) = "none" <=> \A i \in 1..6 : ~c[i][1]
    <2>1. \A i \in 1..6 : c[i][2] # "none"
      BY <1>3
    <2>2. QED
      BY <1>1, <2>1, AllPass
  <1>5. (\A i \in 1..6 : ~c[i][1]) <=>
           ~c[1][1] /\ ~c[2][1] /\ ~c[3][1] /\ ~c[4][1] /\ ~c[5][1] /\ ~c[6][1]
    OBVIOUS
  <1>6. /\ (c[1][1] <=> (tok.shape = "garbage" \/ tok.kid = NotText))
        /\ (c[2][1] <=> (~Filled(tok.kid)))
        /\ (c[3][1] <=> (~Filled(tok.alg)))
        /\ (c[4][1] <=> (Strip(tok.alg) \in UnsignedAlgorithms \cup SymmetricAlgorithms))
        /\ (c[5][1] <=> (Strip(tok.alg) \notin trust.allowed_algorithms))
        /\ (c[6][1] <=> (Strip(tok.kid) \notin DOMAIN trust.public_keys_by_id))
    BY <1>2, Zenon
  <1>7. FirstFailure(c) = "none" \/ FirstFailure(c) \in {"header"}
    <2>1. \A i \in 1..6 : c[i][2] \in {"header"}
      BY <1>3
    <2>2. QED
      BY <1>1, <2>1, ErrorOfCheck
  <1>8. QED
    BY <1>4, <1>5, <1>6, <1>7 DEF c

\* The checks of the payload, in any order.
LEMMA PayloadForm ==
  ASSUME NEW tok
  PROVE  LET e == FirstFailure(
                << <<MissingPath(tok), "claims">>,
                   <<tok.typ # BASIS_LOCAL_IDENTITY_TOKEN_TYPE, "claims">>,
                   <<~Converts(tok.iat), "claims">>,
                   <<tok.exp.form = "overflow", "other">>,
                   <<MalformedClaims(tok), "claims">>,
                   <<~assert_no_authorization_shaped_keys(tok.keys), "claims">> >>) IN
         /\ e \in {"none", "claims", "other"}
         /\ e = "none" <=>
               /\ ~MissingPath(tok) /\ tok.typ = BASIS_LOCAL_IDENTITY_TOKEN_TYPE
               /\ Converts(tok.iat) /\ tok.exp.form # "overflow"
               /\ ~MalformedClaims(tok) /\ assert_no_authorization_shaped_keys(tok.keys)
  <1> DEFINE c == << <<MissingPath(tok), "claims">>,
                  <<tok.typ # BASIS_LOCAL_IDENTITY_TOKEN_TYPE, "claims">>,
                  <<~Converts(tok.iat), "claims">>,
                  <<tok.exp.form = "overflow", "other">>,
                  <<MalformedClaims(tok), "claims">>,
                  <<~assert_no_authorization_shaped_keys(tok.keys), "claims">> >>
  <1>1. DOMAIN c = 1..6
    OBVIOUS
  <1>2. /\ c[1][1] = (MissingPath(tok))
        /\ c[2][1] = (tok.typ # BASIS_LOCAL_IDENTITY_TOKEN_TYPE)
        /\ c[3][1] = (~Converts(tok.iat))
        /\ c[4][1] = (tok.exp.form = "overflow")
        /\ c[5][1] = (MalformedClaims(tok))
        /\ c[6][1] = (~assert_no_authorization_shaped_keys(tok.keys))
    OBVIOUS
  <1>3. /\ c[1][2] = "claims" /\ c[2][2] = "claims"
        /\ c[3][2] = "claims" /\ c[4][2] = "other"
        /\ c[5][2] = "claims" /\ c[6][2] = "claims"
    OBVIOUS
  <1> HIDE DEF c
  <1>4. FirstFailure(c) = "none" <=> \A i \in 1..6 : ~c[i][1]
    <2>1. \A i \in 1..6 : c[i][2] # "none"
      BY <1>3
    <2>2. QED
      BY <1>1, <2>1, AllPass
  <1>5. (\A i \in 1..6 : ~c[i][1]) <=>
           ~c[1][1] /\ ~c[2][1] /\ ~c[3][1] /\ ~c[4][1] /\ ~c[5][1] /\ ~c[6][1]
    OBVIOUS
  <1>6. /\ (c[1][1] <=> (MissingPath(tok)))
        /\ (c[2][1] <=> (tok.typ # BASIS_LOCAL_IDENTITY_TOKEN_TYPE))
        /\ (c[3][1] <=> (~Converts(tok.iat)))
        /\ (c[4][1] <=> (tok.exp.form = "overflow"))
        /\ (c[5][1] <=> (MalformedClaims(tok)))
        /\ (c[6][1] <=> (~assert_no_authorization_shaped_keys(tok.keys)))
    BY <1>2, Zenon
  <1>7. FirstFailure(c) = "none" \/ FirstFailure(c) \in {"claims", "other"}
    <2>1. \A i \in 1..6 : c[i][2] \in {"claims", "other"}
      BY <1>3
    <2>2. QED
      BY <1>1, <2>1, ErrorOfCheck
  <1>8. QED
    BY <1>4, <1>5, <1>6, <1>7, Zenon DEF c

\* The call of jwt.decode for a token whose key id is configured.
LocalCall(tok) ==
    [key |-> config.env.public_keys.of[Strip(tok.kid)], algorithms |-> {Strip(tok.alg)},
     issuer |-> config.env.issuer, audience |-> split_csv(config.env.audience),
     leeway |-> config.env.leeway, require |-> {"exp", "iss", "aud", "sub", "iat", "jti"},
     strict |-> config.env.strict]

\* The trust configuration, field by field.
LEMMA TrustForm ==
  /\ Trust.issuer = config.env.issuer /\ Trust.audience = split_csv(config.env.audience)
  /\ Trust.public_keys_by_id = config.env.public_keys.of
  /\ Trust.allowed_algorithms = split_csv(config.env.algorithms)
  /\ Trust.leeway_seconds = config.env.leeway /\ Trust.strict = config.env.strict
  BY DEF Trust, build_basis_local_token_trust_config

\* The error of decode as the except clauses name it.
LEMMA LocalDecodeForm ==
  ASSUME NEW tok
  PROVE  LET e == LocalDecodeError(tok, Trust, now)
             configured == Strip(tok.kid) \in DOMAIN config.env.public_keys.of
         IN
         /\ e \in {"none", "header", "other", "claims", "signature", "verification"}
         /\ e = "none" <=> configured /\ Decoded(tok, LocalCall(tok), now)
         /\ e = "claims" =>
               configured /\ tok.signer = config.env.public_keys.of[Strip(tok.kid)]
  <1> DEFINE e == LocalDecodeError(tok, Trust, now)
             d == decode(tok, LocalCall(tok), now)
             configured == Strip(tok.kid) \in DOMAIN config.env.public_keys.of
  <1>1. e = IF configured THEN LocalErrorOf(d) ELSE "header"
    BY TrustForm DEF LocalDecodeError, LocalCall
  <1>2. d = "none" <=> Decoded(tok, LocalCall(tok), now)
    BY DecodeForm
  <1>3. d = "MissingRequiredClaim" => tok.signer = config.env.public_keys.of[Strip(tok.kid)]
    <2>1. LocalCall(tok).key = config.env.public_keys.of[Strip(tok.kid)]
      BY DEF LocalCall
    <2>2. QED
      BY <2>1, DecodeForm
  <1> HIDE DEF d
  <1>4. /\ LocalErrorOf(d) \in {"none", "other", "claims", "signature", "verification"}
        /\ LocalErrorOf(d) = "none" <=> d = "none"
        /\ LocalErrorOf(d) = "claims" => d = "MissingRequiredClaim"
    BY DEF LocalErrorOf
  <1> HIDE DEF e
  <1>5. QED
    BY <1>1, <1>2, <1>3, <1>4 DEF e

\* What verify_basis_local_identity_token returns.
LEMMA VerifyForm ==
  ASSUME NEW tok
  PROVE  LET v == verify_basis_local_identity_token(tok, Trust, now)
             key == config.env.public_keys.of[Strip(tok.kid)]
             configured == Strip(tok.kid) \in DOMAIN config.env.public_keys.of
         IN
         /\ v \in {"none", "header", "other", "claims", "signature", "verification"}
         /\ v = "none" <=>
               /\ tok.shape # "garbage" /\ tok.kid # NotText
               /\ Filled(tok.kid) /\ Filled(tok.alg)
               /\ Strip(tok.alg) \notin UnsignedAlgorithms \cup SymmetricAlgorithms
               /\ Strip(tok.alg) \in split_csv(config.env.algorithms)
               /\ configured
               /\ Decoded(tok, LocalCall(tok), now)
               /\ ~MissingPath(tok) /\ tok.typ = BASIS_LOCAL_IDENTITY_TOKEN_TYPE
               /\ Converts(tok.iat) /\ tok.exp.form # "overflow"
               /\ ~MalformedClaims(tok) /\ assert_no_authorization_shaped_keys(tok.keys)
         /\ v = "claims" => configured /\ tok.signer = key
  <1> DEFINE v == verify_basis_local_identity_token(tok, Trust, now)
             key == config.env.public_keys.of[Strip(tok.kid)]
             configured == Strip(tok.kid) \in DOMAIN config.env.public_keys.of
             h == FirstFailure(LocalHeaderChecks(tok, Trust))
             d == LocalDecodeError(tok, Trust, now)
             m == FirstFailure(
                     << <<MissingPath(tok), "claims">>,
                        <<tok.typ # BASIS_LOCAL_IDENTITY_TOKEN_TYPE, "claims">>,
                        <<~Converts(tok.iat), "claims">>,
                        <<tok.exp.form = "overflow", "other">>,
                        <<MalformedClaims(tok), "claims">>,
                        <<~assert_no_authorization_shaped_keys(tok.keys), "claims">> >>)
  <1>1. v = IF h # "none" THEN h ELSE IF d # "none" THEN d ELSE m
    BY DEF verify_basis_local_identity_token
  <1>2. /\ h \in {"none", "header"}
        /\ h = "none" <=>
              /\ tok.shape # "garbage" /\ tok.kid # NotText
              /\ Filled(tok.kid) /\ Filled(tok.alg)
              /\ Strip(tok.alg) \notin UnsignedAlgorithms \cup SymmetricAlgorithms
              /\ Strip(tok.alg) \in split_csv(config.env.algorithms)
              /\ configured
    BY LocalHeaderForm, TrustForm
  <1>3. /\ d \in {"none", "header", "other", "claims", "signature", "verification"}
        /\ d = "none" <=> configured /\ Decoded(tok, LocalCall(tok), now)
        /\ d = "claims" => configured /\ tok.signer = key
    BY LocalDecodeForm
  <1>4. /\ m \in {"none", "claims", "other"}
        /\ m = "none" <=>
              /\ ~MissingPath(tok) /\ tok.typ = BASIS_LOCAL_IDENTITY_TOKEN_TYPE
              /\ Converts(tok.iat) /\ tok.exp.form # "overflow"
              /\ ~MalformedClaims(tok) /\ assert_no_authorization_shaped_keys(tok.keys)
    BY PayloadForm
  <1>5. configured /\ Decoded(tok, LocalCall(tok), now) => tok.signer = key
    BY DEF Decoded, LocalCall
  <1> HIDE DEF v, h, d, m, configured, key
  <1>6. v \in {"none", "header", "other", "claims", "signature", "verification"}
    BY <1>1, <1>2, <1>3, <1>4
  <1>7. v = "none" <=>
           /\ tok.shape # "garbage" /\ tok.kid # NotText
           /\ Filled(tok.kid) /\ Filled(tok.alg)
           /\ Strip(tok.alg) \notin UnsignedAlgorithms \cup SymmetricAlgorithms
           /\ Strip(tok.alg) \in split_csv(config.env.algorithms)
           /\ configured
           /\ Decoded(tok, LocalCall(tok), now)
           /\ ~MissingPath(tok) /\ tok.typ = BASIS_LOCAL_IDENTITY_TOKEN_TYPE
           /\ Converts(tok.iat) /\ tok.exp.form # "overflow"
           /\ ~MalformedClaims(tok) /\ assert_no_authorization_shaped_keys(tok.keys)
    BY <1>1, <1>2, <1>3, <1>4
  <1>8. v = "claims" => configured /\ tok.signer = key
    BY <1>1, <1>2, <1>3, <1>4, <1>5
  <1>9. QED
    BY <1>6, <1>7, <1>8, Zenon DEF v, configured, key

\* What holds of the environment of a deployment that has a trust configuration.
LEMMA EnvironmentFacts ==
  ASSUME config \in Deployments, HasTrust
  PROVE  /\ IsText(config.env.issuer) /\ Filled(config.env.issuer)
         /\ split_csv(config.env.audience) # {}
         /\ \A kid \in DOMAIN config.env.public_keys.of : Strip(kid) # ""
         /\ \A a \in config.env.algorithms : IsText(a)
         /\ config.env.leeway \in Nat /\ config.env.strict \in BOOLEAN
  <1>1. TrustConfigError(config.env) = "none"
    BY DEF HasTrust
  <1>2. /\ config.env.issuer \notin {Absent, ""} /\ Strip(config.env.issuer) = config.env.issuer
        /\ split_csv(config.env.audience) # {}
        /\ \A kid \in DOMAIN config.env.public_keys.of : Strip(kid) # ""
    BY <1>1, TrustConfigForm
  <1>3. /\ config.env.issuer \notin {Null, NotText}
        /\ \A a \in config.env.algorithms : IsText(a)
        /\ config.env.leeway \in Nat /\ config.env.strict \in BOOLEAN
    BY DeploymentsAssumption DEF WellFormedDeployment
  <1>4. IsText(config.env.issuer) /\ Filled(config.env.issuer)
    BY <1>2, <1>3 DEF IsText, Filled
  <1>5. QED
    BY <1>2, <1>3, <1>4

\* An algorithm passes the checks iff it is a configured one, as it stands.
LEMMA AlgorithmForm ==
  ASSUME config \in Deployments, HasTrust, NEW alg
  PROVE  (/\ Filled(alg) /\ Strip(alg) \notin UnsignedAlgorithms \cup SymmetricAlgorithms
          /\ Strip(alg) \in split_csv(config.env.algorithms) /\ alg = Strip(alg)) <=>
         (/\ alg \notin UnsignedAlgorithms \cup SymmetricAlgorithms \cup {""}
          /\ \E a \in config.env.algorithms : alg = Strip(a))
  <1>1. ASSUME Filled(alg), Strip(alg) \in split_csv(config.env.algorithms), alg = Strip(alg)
        PROVE  alg # "" /\ \E a \in config.env.algorithms : alg = Strip(a)
    BY <1>1 DEF Filled, split_csv
  <1>2. ASSUME alg # "", NEW a \in config.env.algorithms, alg = Strip(a)
        PROVE  Filled(alg) /\ Strip(alg) \in split_csv(config.env.algorithms) /\ alg = Strip(alg)
    <2>1. IsText(alg) /\ Strip(alg) = alg
      BY <1>2, StripFacts, EnvironmentFacts
    <2>2. QED
      BY <1>2, <2>1 DEF Filled, split_csv
  <1>3. QED
    BY <1>1, <1>2

\* The claims of an accepted payload.
LEMMA PayloadClaims ==
  ASSUME NEW tok, WellFormedToken(tok), Filled(tok.iss)
  PROVE  (/\ ~MissingPath(tok) /\ tok.typ = BASIS_LOCAL_IDENTITY_TOKEN_TYPE
          /\ Converts(tok.iat) /\ tok.exp.form # "overflow"
          /\ ~MalformedClaims(tok) /\ assert_no_authorization_shaped_keys(tok.keys)) <=>
         (/\ tok.iat.form = "number" /\ tok.exp.form = "number"
          /\ tok.typ = "basis-local-identity"
          /\ \A v \in {tok.sub, tok.jti} \cup {tok.basis[id] : id \in DOMAIN tok.basis} : Filled(v)
          /\ tok.canonical.form = "object"
          /\ \A k \in tok.keys : k \in AuthorizationKeys => k = "allowed_algorithms")
  <1>1. DOMAIN tok.basis = BasisIds
    BY DEF WellFormedToken
  <1>2. Filled("basis-local-identity")
    BY TrimAssumption DEF Filled, IsText, Strip, Absent, Null, NotText
  <1>3. assert_no_authorization_shaped_keys(tok.keys) <=>
           \A k \in tok.keys : k \in AuthorizationKeys => k = "allowed_algorithms"
    BY DEF assert_no_authorization_shaped_keys, AUTHORIZATION_SCAN_EXEMPT_KEYS
  <1>4. QED
    BY <1>1, <1>2, <1>3
    DEF MissingPath, MalformedClaims, Converts, BASIS_LOCAL_IDENTITY_TOKEN_TYPE, Filled, IsText,
        Present

\* The dozen ordered checks let in exactly the tokens the environment describes.
LEMMA LocalChecks ==
  ASSUME now \in Nat, config \in Deployments, HasTrust, NEW tok, WellFormedToken(tok)
  PROVE  verify_basis_local_identity_token(tok, Trust, now) = "none" <=> LocalAcceptable(tok)
  <1> DEFINE p == LocalCall(tok)
             key == config.env.public_keys.of[Strip(tok.kid)]
             configured == Strip(tok.kid) \in DOMAIN config.env.public_keys.of
             window == InWindow(tok, config.env.leeway)
             claims == /\ ~MissingPath(tok) /\ tok.typ = BASIS_LOCAL_IDENTITY_TOKEN_TYPE
                       /\ Converts(tok.iat) /\ tok.exp.form # "overflow"
                       /\ ~MalformedClaims(tok) /\ assert_no_authorization_shaped_keys(tok.keys)
             audience == /\ NotText \notin tok.aud
                         /\ \E a \in config.env.audience : Strip(a) \in tok.aud \ {""}
  <1>1. /\ Filled(config.env.issuer) /\ split_csv(config.env.audience) # {}
        /\ \A kid \in DOMAIN config.env.public_keys.of : Strip(kid) # ""
        /\ config.env.leeway \in Nat /\ config.env.strict \in BOOLEAN
    BY EnvironmentFacts
  <1>2. /\ p.key = key /\ p.algorithms = {Strip(tok.alg)} /\ p.issuer = config.env.issuer
        /\ p.audience = split_csv(config.env.audience) /\ p.leeway = config.env.leeway
        /\ p.require = {"exp", "iss", "aud", "sub", "iat", "jti"}
        /\ p.strict = config.env.strict
    BY DEF LocalCall
  <1>3. tok.shape \in {"ok", "garbage", "payload"} /\ tok.signer # Unparsable
    BY DEF WellFormedToken
  <1>4. configured /\ IsText(tok.kid) <=> configured /\ Filled(tok.kid) /\ tok.kid # NotText
    BY <1>1, StripFacts DEF Filled, IsText
  <1>5. audience <=>
           /\ ~(p.audience = {} /\ tok.aud # {})
           /\ ~(p.audience # {} /\ tok.aud = {})
           /\ ~(p.audience # {} /\ (NotText \in tok.aud \/ tok.aud \cap p.audience = {}))
    <2>1. p.audience # {} /\ p.audience = {Strip(e) : e \in config.env.audience} \ {""}
      BY <1>1, <1>2 DEF split_csv
    <2>2. (\E a \in config.env.audience : Strip(a) \in tok.aud \ {""}) <=>
             tok.aud \cap p.audience # {}
      BY <2>1
    <2>3. tok.aud \cap p.audience # {} => tok.aud # {}
      OBVIOUS
    <2>4. QED
      BY <2>1, <2>2, <2>3
  <1>6. window <=>
            /\ ~Escapes(tok.iat) /\ tok.iat.form # "junk" /\ ~AfterNow(tok.iat, now + p.leeway)
            /\ ~Escapes(tok.nbf) /\ tok.nbf.form # "junk" /\ ~AfterNow(tok.nbf, now + p.leeway)
            /\ ~Escapes(tok.exp) /\ tok.exp.form # "junk" /\ ~NotAfterNow(tok.exp, now - p.leeway)
    <2>1. p.leeway = config.env.leeway
      BY <1>2
    <2>2. window <=>
            /\ ~Escapes(tok.iat) /\ tok.iat.form # "junk"
            /\ ~AfterNow(tok.iat, now + config.env.leeway)
            /\ ~Escapes(tok.nbf) /\ tok.nbf.form # "junk"
            /\ ~AfterNow(tok.nbf, now + config.env.leeway)
            /\ ~Escapes(tok.exp) /\ tok.exp.form # "junk"
            /\ ~NotAfterNow(tok.exp, now - config.env.leeway)
      BY <1>1, WindowForm, Zenon
    <2>3. QED
      BY <2>1, <2>2, Zenon
  <1>7. tok.iss # Absent /\ tok.iss = p.issuer <=> tok.iss = config.env.issuer
    BY <1>1, <1>2 DEF Filled, IsText
  <1>8. tok.iss = config.env.issuer =>
           (claims <=>
              /\ tok.iat.form = "number" /\ tok.exp.form = "number"
              /\ tok.typ = "basis-local-identity"
              /\ \A v \in {tok.sub, tok.jti} \cup {tok.basis[id] : id \in DOMAIN tok.basis} :
                    Filled(v)
              /\ tok.canonical.form = "object"
              /\ \A k \in tok.keys : k \in AuthorizationKeys => k = "allowed_algorithms")
    <2>1. tok.iss = config.env.issuer => Filled(tok.iss)
      BY <1>1
    <2>2. QED
      BY <2>1, PayloadClaims
  <1>9. tok.iss = config.env.issuer /\ claims /\ audience =>
           /\ ~Lacking(tok, p)
           /\ ~(p.strict /\ {tok.sub, tok.jti} \cap {Null, NotText} # {})
    <2> SUFFICES ASSUME tok.iss = config.env.issuer, claims, audience
                 PROVE  /\ ~Lacking(tok, p)
                        /\ ~(p.strict /\ {tok.sub, tok.jti} \cap {Null, NotText} # {})
      OBVIOUS
    <2>1. Filled(tok.sub) /\ Filled(tok.jti) /\ Filled(tok.iss)
      BY <1>1, <1>8
    <2>2. tok.iat.form = "number" /\ tok.exp.form = "number" /\ tok.aud # {}
      BY <1>8
    <2>3. /\ Present(tok.sub) /\ Present(tok.jti) /\ Present(tok.iss)
          /\ {tok.sub, tok.jti} \cap {Null, NotText} = {}
      BY <2>1 DEF Filled, IsText, Present
    <2> HIDE DEF p
    <2>4. QED
      BY <2>2, <2>3 DEF Lacking
  <1>10. /\ tok.alg \in p.algorithms <=> tok.alg = Strip(tok.alg)
         /\ tok.signer = p.key <=> tok.signer = key
         /\ tok.signer = key => p.key # Unparsable
    BY <1>2, <1>3
  <1>11. (/\ Filled(tok.alg) /\ Strip(tok.alg) \notin UnsignedAlgorithms \cup SymmetricAlgorithms
          /\ Strip(tok.alg) \in split_csv(config.env.algorithms) /\ tok.alg = Strip(tok.alg)) <=>
         (/\ tok.alg \notin UnsignedAlgorithms \cup SymmetricAlgorithms \cup {""}
          /\ \E a \in config.env.algorithms : tok.alg = Strip(a))
    BY AlgorithmForm
  <1>12. LocalAcceptable(tok) <=>
            /\ tok.shape = "ok" /\ IsText(tok.kid) /\ configured /\ tok.signer = key
            /\ tok.alg \notin UnsignedAlgorithms \cup SymmetricAlgorithms \cup {""}
            /\ \E a \in config.env.algorithms : tok.alg = Strip(a)
            /\ tok.iss = config.env.issuer /\ audience /\ window
            /\ claims
    BY <1>8, Zenon DEF LocalAcceptable
  <1>13. verify_basis_local_identity_token(tok, Trust, now) = "none" <=>
            /\ tok.shape # "garbage" /\ tok.kid # NotText
            /\ Filled(tok.kid) /\ Filled(tok.alg)
            /\ Strip(tok.alg) \notin UnsignedAlgorithms \cup SymmetricAlgorithms
            /\ Strip(tok.alg) \in split_csv(config.env.algorithms)
            /\ configured
            /\ Decoded(tok, p, now)
            /\ claims
    BY VerifyForm
  <1>14. Decoded(tok, p, now) <=>
            /\ tok.alg = Strip(tok.alg) /\ tok.signer = key
            /\ tok.shape # "payload"
            /\ ~Lacking(tok, p)
            /\ window
            /\ tok.iss = config.env.issuer
            /\ audience
            /\ ~(p.strict /\ {tok.sub, tok.jti} \cap {Null, NotText} # {})
    <2> HIDE DEF p, window, audience, key
    <2>1. QED
      BY <1>5, <1>6, <1>7, <1>10, Zenon DEF Decoded
  <1> HIDE DEF p, window, audience, key, claims, configured
  <1>15. QED
    BY <1>3, <1>4, <1>9, <1>11, <1>12, <1>13, <1>14

-----------------------------------------------------------------------------
(* The inductive invariant.                                                *)

\* What a verdict under OIDC rests on: the checks before the lookup, the lookup
\* and where its key comes from, the checks after it.
OidcVerdict(v) ==
    IF HeaderError(v.token) # "none" \/ v.token.shape = "payload"
    THEN /\ v.key = NoKey /\ v.via = "none"
         /\ v.error = IF HeaderError(v.token) # "none" THEN HeaderError(v.token) ELSE "fetch"
    ELSE /\ v.via \in {"set", "fetch"} => PublishedSince(now - Lifespan, v.token.kid, v.key)
         /\ \/ /\ PublishedSince(0, v.token.kid, v.key)
               /\ v.error = IF ClaimsError(v.token, v.key, config.oidc, now) # "none"
                            THEN ClaimsError(v.token, v.key, config.oidc, now)
                            ELSE IF Unmappable(v.token) THEN "mapping" ELSE "none"
            \/ /\ v.key = NoKey /\ v.via = "none"
               /\ \/ /\ v.error = "jwt" /\ v.token.kid \notin DOMAIN Current
                  \/ /\ v.error = "fetch"
                     /\ v.unanswered \/ EmptyServedSince(now - Lifespan)

VerdictInv(v) ==
    /\ v.stage \in {"idle", "no token", "verified"}
    /\ v.stage = "no token" => v.reason = "missing_bearer_token"
    /\ v.stage = "verified" =>
          /\ WellFormedToken(v.token)
          /\ v.reason = ReasonOf(v.error)
          /\ HasVerifier => OidcVerdict(v)
          /\ HasTrust => /\ v.error = verify_basis_local_identity_token(v.token, Trust, now)
                         /\ v.via = "none" /\ v.key = NoKey
          /\ ~HasVerifier /\ ~HasTrust =>
                v.error = "not_configured" /\ v.via = "none" /\ v.key = NoKey

AuthInv == WorldInv /\ CacheInv(cache) /\ VerdictInv(last)

\* initialize() leaves the document published first, and nothing resolved.
LEMMA InitAuth == Init => AuthInv
  <1> SUFFICES ASSUME Init PROVE AuthInv
    OBVIOUS
  <1>1. PICK d \in Documents[config.world] : published = <<[document |-> d, at |-> 0]>>
    BY DEF Init
  <1> DEFINE e == [document |-> d, at |-> 0]
  <1>2. published = <<e>> /\ e.document = d /\ e.at = 0 /\ now = 0 /\ config \in Deployments
    BY <1>1 DEF Init
  <1>3. 0 \in 0..MaxNow /\ e \in Publications
    BY <1>1, BoundsAssumption DEF Publications
  <1> HIDE DEF e
  <1>4. /\ published \in Seq(Publications) /\ Len(published) = 1 /\ DOMAIN published = {1}
        /\ published[1] = e
    BY <1>2, <1>3
  <1>5. WorldInv
    BY <1>2, <1>3, <1>4 DEF WorldInv
  <1>6. /\ cache.set.held = TRUE /\ cache.set.document = d /\ cache.set.at = 0
        /\ cache.resolved = <<>>
    BY <1>2, <1>4 DEF Init, initialize
  <1>7. SetInv(cache.set)
    <2>1. Until(1) = 0
      BY <1>2, <1>4 DEF Until
    <2>2. /\ cache.set.document = published[1].document /\ Until(1) >= cache.set.at
          /\ cache.set.at \in Nat /\ cache.set.at <= now
      BY <1>2, <1>4, <1>6, <2>1
    <2>3. QED
      BY <1>4, <1>6, <2>2, Zenon DEF SetInv
  <1>8. CacheInv(cache)
    <2>1. cache.resolved \in Seq(Bindings) /\ Len(cache.resolved) = 0
      BY <1>6, EmptySeq
    <2>2. Len(cache.resolved) <= KeyCacheSize
      BY <2>1, KeyCacheSizeAssumption
    <2>3. Distinct(cache.resolved)
      BY <2>1 DEF Distinct
    <2>4. QED
      BY <1>7, <2>1, <2>2, <2>3 DEF CacheInv
  <1>9. VerdictInv(last)
    BY DEF Init, Idle, VerdictInv
  <1>10. QED
    BY <1>5, <1>8, <1>9 DEF AuthInv

\* A step that leaves the world alone keeps what is said of it.
LEMMA SameWorld ==
  ASSUME UNCHANGED <<config, now, published>>
  PROVE  /\ WorldInv => WorldInv'
         /\ CacheInv(cache') => CacheInv(cache)'
         /\ VerdictInv(last') => VerdictInv(last)'
  <1>1. WorldInv => WorldInv'
    BY DEF WorldInv, Publications
  <1>2. CacheInv(cache') => CacheInv(cache)'
    BY DEF CacheInv, SetInv, Bindings, Until, Distinct
  <1>3. VerdictInv(last') => VerdictInv(last)'
    BY DEF VerdictInv, OidcVerdict, HasVerifier, HasTrust, Trust, PublishedSince, Binds, Until,
           Current, EmptyServedSince
  <1>4. QED
    BY <1>1, <1>2, <1>3

\* The record of a verification, field by field.
LEMMA VerifiedForm ==
  ASSUME NEW tok, NEW error, NEW identity, NEW lookup, NEW unanswered,
         NEW v, v = Verified(tok, error, identity, lookup, unanswered)
  PROVE  /\ v.stage = "verified" /\ v.token = tok /\ v.error = error
         /\ v.reason = ReasonOf(error) /\ v.identity = identity /\ v.key = lookup.key
         /\ v.via = lookup.via /\ v.fetches = lookup.fetches /\ v.unanswered = unanswered
  BY DEF Verified

\* The record of a verification that looks no key up, field by field.
LEMMA NoLookupForm ==
  /\ NoLookup.key = NoKey /\ NoLookup.error = "none" /\ NoLookup.via = "none"
  /\ NoLookup.fetches = 0 /\ NoLookup.cache = cache
  BY DEF NoLookup

\* A request without a token is refused before anything is looked at.
LEMMA ExtractInv ==
  ASSUME AuthInv, NEW fault, extract_bearer_token(fault)
  PROVE  AuthInv'
  <1>1. UNCHANGED <<config, now, published, cache>>
    BY DEF extract_bearer_token
  <1>2. last'.stage = "no token" /\ last'.reason = "missing_bearer_token"
    BY DEF extract_bearer_token, ReasonOf
  <1>3. VerdictInv(last')
    BY <1>2 DEF VerdictInv
  <1>4. QED
    BY <1>1, <1>3, SameWorld DEF AuthInv

\* A gateway without verifier refuses every token.
LEMMA UnconfiguredInv ==
  ASSUME AuthInv, NEW tok, WellFormedToken(tok), authenticateUnconfigured(tok)
  PROVE  AuthInv'
  <1>1. UNCHANGED <<config, now, published, cache>> /\ ~HasVerifier /\ ~HasTrust
    BY DEF authenticateUnconfigured
  <1>2. last' = Verified(tok, "not_configured", Nobody, NoLookup, FALSE)
    BY DEF authenticateUnconfigured
  <1>3. /\ last'.stage = "verified" /\ last'.token = tok /\ last'.error = "not_configured"
        /\ last'.reason = ReasonOf("not_configured")
        /\ last'.key = NoLookup.key /\ last'.via = NoLookup.via
    BY <1>2 DEF Verified
  <1>4. VerdictInv(last')
    BY <1>1, <1>3, NoLookupForm DEF VerdictInv
  <1>5. QED
    BY <1>1, <1>4, SameWorld DEF AuthInv

\* A BASIS-local verification leaves the key caches alone.
LEMMA LocalInv ==
  ASSUME AuthInv, NEW tok, WellFormedToken(tok), authenticateLocal(tok)
  PROVE  AuthInv'
  <1> DEFINE error == verify_basis_local_identity_token(tok, Trust, now)
             identity == IF error = "none"
                         THEN basis_local_verification_result_to_gateway_identity(tok)
                         ELSE Nobody
  <1>1. UNCHANGED <<config, now, published, cache>> /\ HasTrust
    BY DEF authenticateLocal
  <1>2. last' = Verified(tok, error, identity, NoLookup, FALSE)
    BY DEF authenticateLocal
  <1> HIDE DEF identity
  <1>3. /\ last'.stage = "verified" /\ last'.token = tok /\ last'.error = error
        /\ last'.reason = ReasonOf(error) /\ last'.key = NoKey /\ last'.via = "none"
    <2> HIDE DEF error
    <2>1. /\ last'.stage = "verified" /\ last'.token = tok /\ last'.error = error
          /\ last'.reason = ReasonOf(error)
          /\ last'.key = NoLookup.key /\ last'.via = NoLookup.via
      BY <1>2 DEF Verified
    <2>2. QED
      BY <2>1, NoLookupForm
  <1>4. ~HasVerifier
    BY <1>1 DEF HasVerifier, HasTrust
  <1>5. VerdictInv(last')
    BY <1>1, <1>3, <1>4 DEF VerdictInv
  <1>6. QED
    BY <1>1, <1>5, SameWorld DEF AuthInv

\* A step of the OIDC mode, with its lookup and its error named.
OidcLookup(tok, first, second) ==
    IF HeaderError(tok) # "none" \/ tok.shape = "payload" THEN NoLookup
    ELSE Lookup(tok.kid, first, second)

OidcError(tok, L) ==
    IF HeaderError(tok) # "none" THEN HeaderError(tok)
    ELSE IF tok.shape = "payload" THEN "fetch"
    ELSE IF L.error # "none" THEN L.error
    ELSE IF ClaimsError(tok, L.key, config.oidc, now) # "none"
    THEN ClaimsError(tok, L.key, config.oidc, now)
    ELSE IF Unmappable(tok) THEN "mapping" ELSE "none"

\* authenticateOidc in these terms.
LEMMA OidcStep ==
  ASSUME NEW tok, NEW first, NEW second, authenticateOidc(tok, first, second)
  PROVE  LET L == OidcLookup(tok, first, second)
             error == OidcError(tok, L)
         IN
         /\ HasVerifier /\ UNCHANGED <<config, now, published>>
         /\ last' = Verified(tok, error, IF error = "none" THEN map_claims(tok) ELSE Nobody,
                             L, Unanswered(L, first, second))
         /\ cache' = L.cache
  BY DEF authenticateOidc, OidcLookup, OidcError, Lookup, Answer, Current

\* An OIDC verification: the lookup keeps the caches sound, its key the verdict.
LEMMA OidcInv ==
  ASSUME AuthInv, NEW tok, WellFormedToken(tok), NEW first \in BOOLEAN, NEW second \in BOOLEAN,
         authenticateOidc(tok, first, second)
  PROVE  AuthInv'
  <1> DEFINE L == OidcLookup(tok, first, second)
             error == OidcError(tok, L)
             identity == IF error = "none" THEN map_claims(tok) ELSE Nobody
             unanswered == Unanswered(L, first, second)
  <1>1. /\ HasVerifier /\ UNCHANGED <<config, now, published>>
        /\ last' = Verified(tok, error, identity, L, unanswered)
        /\ cache' = L.cache
    BY OidcStep
  <1>2. WorldInv /\ CacheInv(cache)
    BY DEF AuthInv
  <1>3. ~HasTrust
    BY <1>1 DEF HasVerifier, HasTrust
  <1> HIDE DEF identity, unanswered
  <1>4. /\ last'.stage = "verified" /\ last'.token = tok /\ last'.error = error
        /\ last'.reason = ReasonOf(error) /\ last'.key = L.key /\ last'.via = L.via
        /\ last'.unanswered = unanswered
    BY <1>1, VerifiedForm
  <1>5. CASE HeaderError(tok) # "none" \/ tok.shape = "payload"
    <2>1. L = NoLookup
      BY <1>5 DEF OidcLookup
    <2>2. cache' = cache /\ L.key = NoKey /\ L.via = "none"
      BY <1>1, <2>1, NoLookupForm
    <2>3. error = IF HeaderError(tok) # "none" THEN HeaderError(tok) ELSE "fetch"
      BY <1>5 DEF OidcError
    <2> HIDE DEF L, error
    <2>4. OidcVerdict(last')
      BY <1>4, <1>5, <2>2, <2>3 DEF OidcVerdict
    <2>5. VerdictInv(last')
      BY <1>1, <1>3, <1>4, <2>4 DEF VerdictInv
    <2>6. CacheInv(cache')
      BY <1>2, <2>2
    <2>7. QED
      BY <1>1, <1>2, <2>5, <2>6, SameWorld DEF AuthInv
  <1>6. CASE ~(HeaderError(tok) # "none" \/ tok.shape = "payload")
    <2>1. L = Lookup(tok.kid, first, second)
      BY <1>6 DEF OidcLookup
    <2>2. CacheInv(L.cache) /\ LookupSound(L, tok.kid, first, second)
      BY <1>2, <2>1, LookupCache, LookupFacts
    <2>3. error = IF L.error # "none" THEN L.error
                  ELSE IF ClaimsError(tok, L.key, config.oidc, now) # "none"
                  THEN ClaimsError(tok, L.key, config.oidc, now)
                  ELSE IF Unmappable(tok) THEN "mapping" ELSE "none"
      BY <1>6 DEF OidcError
    <2> HIDE DEF L, error
    <2>4. OidcVerdict(last')
      <3>1. CASE L.error = "none"
        BY <1>4, <1>6, <2>2, <2>3, <3>1 DEF OidcVerdict, LookupSound
      <3>2. CASE L.error # "none"
        BY <1>4, <1>6, <2>2, <2>3, <3>2 DEF OidcVerdict, LookupSound, unanswered
      <3>3. QED
        BY <3>1, <3>2
    <2>5. VerdictInv(last')
      BY <1>1, <1>3, <1>4, <2>4 DEF VerdictInv
    <2>6. CacheInv(cache')
      BY <1>1, <2>2
    <2>7. QED
      BY <1>1, <1>2, <2>5, <2>6, SameWorld DEF AuthInv
  <1>7. QED
    BY <1>5, <1>6

\* The request is answered.
LEMMA ProceedInv ==
  ASSUME AuthInv, Proceed
  PROVE  AuthInv'
  <1>1. UNCHANGED <<config, now, published, cache>> /\ last' = Idle
    BY DEF Proceed
  <1>2. VerdictInv(last')
    BY <1>1 DEF VerdictInv, Idle
  <1>3. QED
    BY <1>1, <1>2, SameWorld DEF AuthInv

\* Time passes: what was current stays published for longer.
LEMMA TickInv ==
  ASSUME AuthInv, Tick
  PROVE  AuthInv'
  <1>1. /\ UNCHANGED <<config, published, cache, last>> /\ last = Idle
        /\ now' = now + 1 /\ now < MaxNow
    BY DEF Tick
  <1>2. /\ WorldInv /\ CacheInv(cache) /\ now \in Nat /\ DOMAIN published = 1..Len(published)
        /\ \A i \in DOMAIN published : Until(i) \in Nat
        /\ \A i \in 1..Len(published) : published[i].at \in Nat
    <2>1. WorldInv /\ CacheInv(cache)
      BY DEF AuthInv
    <2>2. /\ now \in Nat /\ DOMAIN published = 1..Len(published)
          /\ \A i \in DOMAIN published : Until(i) \in Nat
      BY <2>1, WorldFacts
    <2>3. \A i \in 1..Len(published) : published[i] \in Publications
      BY <2>1, ElementOfSeq DEF WorldInv
    <2>4. QED
      BY <2>1, <2>2, <2>3, BoundsAssumption DEF Publications
  <1>3. WorldInv'
    <2>1. now' \in 0..MaxNow /\ \A n \in Nat : n <= now => n <= now'
      BY <1>1, <1>2, BoundsAssumption
    <2>2. QED
      BY <1>1, <1>2, <2>1 DEF WorldInv, Publications
  <1>4. \A i \in DOMAIN published : Until(i)' >= Until(i)
    <2>1. \A i : Until(i) = IF i = Len(published) THEN now ELSE published[i + 1].at
      BY DEF Until
    <2>2. \A i : Until(i)' = IF i = Len(published) THEN now + 1 ELSE published[i + 1].at
      BY <1>1 DEF Until
    <2>3. \A i \in DOMAIN published :
             \/ i = Len(published) /\ Until(i)' = now + 1 /\ Until(i) = now
             \/ Until(i)' = Until(i)
      BY <2>1, <2>2
    <2>4. QED
      BY <1>2, <2>3
  <1>5. SetInv(cache.set)'
    <2>1. cache.set.at \in Nat /\ cache.set.at <= now'
      BY <1>1, <1>2 DEF CacheInv, SetInv
    <2>2. CASE cache.set.held
      <3>1. PICK i \in DOMAIN published :
               cache.set.document = published[i].document /\ Until(i) >= cache.set.at
        BY <1>2, <2>2 DEF CacheInv, SetInv
      <3>2. Until(i)' >= cache.set.at
        <4>1. Until(i)' = Until(i) \/ Until(i)' = now + 1
          BY <1>1 DEF Until
        <4>2. QED
          BY <1>2, <1>4, <2>1, <3>1, <4>1
      <3>3. QED
        BY <1>1, <1>2, <2>1, <2>2, <3>1, <3>2 DEF CacheInv, SetInv
    <2>3. CASE ~cache.set.held
      BY <1>1, <1>2, <2>1, <2>3 DEF CacheInv, SetInv
    <2>4. QED
      BY <2>2, <2>3
  <1>6. CacheInv(cache)'
    BY <1>1, <1>2, <1>5 DEF CacheInv, Bindings, Distinct
  <1>7. VerdictInv(last)'
    BY <1>1 DEF VerdictInv, Idle
  <1>8. QED
    BY <1>3, <1>6, <1>7 DEF AuthInv

\* A new document is published: what was published stays in the history.
LEMMA RotateInv ==
  ASSUME AuthInv, NEW d \in Documents[config.world], Rotate(d)
  PROVE  AuthInv'
  <1> DEFINE e == [document |-> d, at |-> now]
             n == Len(published)
  <1>1. /\ UNCHANGED <<config, now, cache, last>> /\ last = Idle
        /\ published' = Append(published, e)
    BY DEF Rotate
  <1>2. /\ WorldInv /\ CacheInv(cache) /\ now \in 0..MaxNow /\ n \in Nat /\ n >= 1
        /\ published \in Seq(Publications) /\ DOMAIN published = 1..n
    BY WorldFacts DEF AuthInv, WorldInv
  <1>3. e \in Publications /\ e.at = now
    BY <1>2 DEF Publications
  <1> HIDE DEF e, n
  <1>4. /\ published' \in Seq(Publications) /\ Len(published') = n + 1
        /\ DOMAIN published' = 1..n + 1
        /\ \A i \in 1..n : published'[i] = published[i]
        /\ published'[n + 1] = e
    <2>1. /\ Append(published, e) \in Seq(Publications)
          /\ Len(Append(published, e)) = Len(published) + 1
          /\ \A i \in 1..Len(published) : Append(published, e)[i] = published[i]
          /\ Append(published, e)[Len(published) + 1] = e
      BY <1>2, <1>3, AppendProperties
    <2>2. DOMAIN published' = 1..Len(published')
      BY <1>1, <2>1, LenProperties
    <2>3. QED
      BY <1>1, <2>1, <2>2 DEF n
  <1>5. \A i \in 1..n + 1 : i \in 1..n \/ i = n + 1
    BY <1>2
  <1>6. WorldInv'
    <2>1. \A i \in 1..n + 1 : published'[i].at <= now
      BY <1>2, <1>3, <1>4, <1>5 DEF WorldInv, n
    <2>2. n + 1 >= 1
      BY <1>2
    <2>3. Publications' = Publications
      BY <1>1 DEF Publications
    <2>4. QED
      BY <1>1, <1>2, <1>4, <2>1, <2>2, <2>3 DEF WorldInv
  <1>7. \A i \in 1..n : i \in DOMAIN published' /\ Until(i)' = Until(i)
    <2> SUFFICES ASSUME NEW i \in 1..n PROVE i \in DOMAIN published' /\ Until(i)' = Until(i)
      OBVIOUS
    <2>1. i \in 1..n + 1 /\ i # n + 1
      BY <1>2
    <2>2. Until(i)' = published'[i + 1].at
      BY <1>4, <2>1 DEF Until
    <2>3. CASE i = n
      BY <1>3, <1>4, <2>1, <2>2, <2>3 DEF Until, n
    <2>4. CASE i # n
      <3>1. i + 1 \in 1..n
        BY <1>2, <2>4
      <3>2. QED
        BY <1>4, <2>1, <2>2, <2>4, <3>1 DEF Until, n
    <2>5. QED
      BY <2>3, <2>4
  <1>8. SetInv(cache.set)'
    <2>1. cache.set.at \in Nat /\ cache.set.at <= now' /\ cache.set.held \in BOOLEAN
      BY <1>1, <1>2 DEF CacheInv, SetInv
    <2>2. CASE cache.set.held
      <3>1. PICK i \in DOMAIN published :
               cache.set.document = published[i].document /\ Until(i) >= cache.set.at
        BY <1>2, <2>2 DEF CacheInv, SetInv
      <3>2. /\ i \in DOMAIN published' /\ Until(i)' >= cache.set.at
            /\ cache.set.document = published'[i].document
        BY <1>2, <1>4, <1>7, <3>1
      <3>3. QED
        BY <1>1, <2>1, <2>2, <3>2 DEF SetInv
    <2>3. CASE ~cache.set.held
      BY <1>1, <1>2, <2>1, <2>3 DEF CacheInv, SetInv
    <2>4. QED
      BY <2>1, <2>2, <2>3
  <1>9. cache.resolved \in Seq(Bindings')
    <2>1. Bindings \subseteq Bindings'
      <3> SUFFICES ASSUME NEW b \in Bindings PROVE b \in Bindings'
        OBVIOUS
      <3>1. PICK i \in DOMAIN published :
               b \in {[kid |-> k, key |-> published[i].document[k]] :
                        k \in DOMAIN published[i].document}
        BY Zenon DEF Bindings
      <3>2. i \in DOMAIN published' /\ published'[i] = published[i]
        BY <1>2, <1>4, <1>7
      <3>3. QED
        BY <3>1, <3>2 DEF Bindings
    <2>2. QED
      BY <1>2, <2>1, SeqMonotonic DEF CacheInv
  <1>10. CacheInv(cache)'
    BY <1>1, <1>2, <1>8, <1>9 DEF CacheInv, Distinct
  <1>11. VerdictInv(last)'
    BY <1>1 DEF VerdictInv, Idle
  <1>12. QED
    BY <1>6, <1>10, <1>11 DEF AuthInv

\* Every step keeps the invariant.
LEMMA NextAuth == AuthInv /\ [Next]_vars => AuthInv'
  <1> SUFFICES ASSUME AuthInv, [Next]_vars PROVE AuthInv'
    OBVIOUS
  <1>1. ASSUME NEW fault \in HeaderFaults, extract_bearer_token(fault) PROVE AuthInv'
    BY <1>1, ExtractInv
  <1>2. ASSUME NEW tok \in Tokens[config.world], authenticate(tok) PROVE AuthInv'
    <2>1. WellFormedToken(tok)
      BY <1>2, TokensAssumption, DeploymentsAssumption DEF AuthInv, WorldInv
    <2>2. QED
      BY <1>2, <2>1, UnconfiguredInv, OidcInv, LocalInv DEF authenticate
  <1>3. CASE Proceed
    BY <1>3, ProceedInv
  <1>4. CASE Tick
    BY <1>4, TickInv
  <1>5. ASSUME NEW d \in Documents[config.world], Rotate(d) PROVE AuthInv'
    BY <1>5, RotateInv
  <1>6. CASE UNCHANGED vars
    <2>1. UNCHANGED <<config, now, published>> /\ cache' = cache /\ last' = last
      BY <1>6 DEF vars
    <2>2. CacheInv(cache') /\ VerdictInv(last')
      BY <2>1 DEF AuthInv
    <2>3. QED
      BY <2>1, <2>2, SameWorld DEF AuthInv
  <1>7. QED
    BY <1>1, <1>2, <1>3, <1>4, <1>5, <1>6 DEF Next

\* Whatever the issuer publishes and callers present, the caches hold nothing
\* but published keys and a verdict is what the checks make of token and key.
THEOREM AuthInvariant == Spec => []AuthInv
  BY InitAuth, NextAuth, PTL DEF Spec

-----------------------------------------------------------------------------
(* The properties.                                                         *)

\* The caches stay within their size and hold no key id twice.
LEMMA TypeState == AuthInv => TypeOK
  <1> SUFFICES ASSUME AuthInv PROVE TypeOK
    OBVIOUS
  <1>1. WorldInv /\ CacheInv(cache) /\ VerdictInv(last)
    BY DEF AuthInv
  <1>2. cache.set.document \in Documents[config.world] \cup {NoDocument}
    <2>1. CASE cache.set.held
      <3>1. PICK i \in DOMAIN published : cache.set.document = published[i].document
        BY <1>1, <2>1 DEF CacheInv, SetInv
      <3>2. published[i] \in Publications
        BY <1>1, ElementOfSeq, WorldFacts DEF WorldInv
      <3>3. QED
        BY <3>1, <3>2 DEF Publications
    <2>2. CASE ~cache.set.held
      BY <1>1, <2>2 DEF CacheInv, SetInv
    <2>3. QED
      BY <2>1, <2>2
  <1>3. DOMAIN cache.resolved = 1..Len(cache.resolved)
    BY <1>1, LenProperties DEF CacheInv
  <1>4. \A i, j \in DOMAIN cache.resolved :
           cache.resolved[i].kid = cache.resolved[j].kid => i = j
    BY <1>1, <1>3 DEF CacheInv, Distinct
  <1>5. published \in Seq([document : Documents[config.world], at : 0..MaxNow])
    BY <1>1 DEF WorldInv, Publications
  <1>6. cache.set.held \in BOOLEAN /\ Len(cache.resolved) <= KeyCacheSize
    BY <1>1 DEF CacheInv, SetInv
  <1>7. QED
    BY <1>1, <1>2, <1>4, <1>5, <1>6 DEF TypeOK, WorldInv, VerdictInv

\* A deployment is in one mode.
LEMMA OneMode == ~(HasVerifier /\ HasTrust)
  BY DEF HasVerifier, HasTrust

\* The verdicts on BASIS-local tokens.
LEMMA LocalState == AuthInv => LocalVerdictExact /\ ClaimsErrorsAreAboutSignedClaims
  <1> SUFFICES ASSUME AuthInv, Decided, HasTrust
               PROVE  /\ Accepted <=> LocalAcceptable(last.token)
                      /\ last.error = "claims" =>
                            /\ Strip(last.token.kid) \in DOMAIN config.env.public_keys.of
                            /\ last.token.signer = config.env.public_keys.of[Strip(last.token.kid)]
    BY DEF LocalVerdictExact, ClaimsErrorsAreAboutSignedClaims
  <1> DEFINE tok == last.token
  <1>1. /\ WellFormedToken(tok)
        /\ last.error = verify_basis_local_identity_token(tok, Trust, now)
    BY DEF AuthInv, VerdictInv, Decided
  <1>2. now \in Nat /\ config \in Deployments
    BY WorldFacts DEF AuthInv, WorldInv
  <1> HIDE DEF tok
  <1>3. last.error = "none" <=> LocalAcceptable(tok)
    BY <1>1, <1>2, LocalChecks
  <1>4. last.error = "claims" =>
           /\ Strip(tok.kid) \in DOMAIN config.env.public_keys.of
           /\ tok.signer = config.env.public_keys.of[Strip(tok.kid)]
    BY <1>1, VerifyForm
  <1>5. QED
    BY <1>3, <1>4 DEF Accepted, tok

\* The invariant of a verdict under OIDC, by how the lookup ended.
LEMMA OidcCases ==
  ASSUME AuthInv, Decided, HasVerifier
  PROVE  /\ WellFormedToken(last.token) /\ last.token.signer \notin {NoKey, Unparsable}
         /\ now \in Nat /\ config \in Deployments
         /\ last.error = "none" <=>
               OidcAcceptable(last.token) /\ last.key = last.token.signer
         /\ \/ /\ HeaderError(last.token) # "none" \/ last.token.shape = "payload"
               /\ last.key = NoKey /\ last.via = "none"
               /\ last.error = IF HeaderError(last.token) # "none" THEN HeaderError(last.token)
                               ELSE "fetch"
            \/ /\ HeaderError(last.token) = "none" /\ last.token.shape # "payload"
               /\ last.via \in {"set", "fetch"} =>
                     PublishedSince(now - Lifespan, last.token.kid, last.key)
               /\ PublishedSince(0, last.token.kid, last.key)
               /\ last.error = IF ClaimsError(last.token, last.key, config.oidc, now) # "none"
                               THEN ClaimsError(last.token, last.key, config.oidc, now)
                               ELSE IF Unmappable(last.token) THEN "mapping" ELSE "none"
            \/ /\ HeaderError(last.token) = "none" /\ last.token.shape # "payload"
               /\ last.key = NoKey /\ last.via = "none"
               /\ \/ last.error = "jwt" /\ last.token.kid \notin DOMAIN Current
                  \/ /\ last.error = "fetch"
                     /\ last.unanswered \/ EmptyServedSince(now - Lifespan)
  <1> DEFINE tok == last.token
             C == ClaimsError(tok, last.key, config.oidc, now)
  <1>1. WellFormedToken(tok) /\ OidcVerdict(last)
    BY DEF AuthInv, VerdictInv, Decided
  <1>2. now \in Nat /\ config \in Deployments
    BY WorldFacts DEF AuthInv, WorldInv
  <1>3. tok.signer \notin {NoKey, Unparsable}
    BY <1>1 DEF WellFormedToken
  <1>4. OidcAcceptable(tok) /\ last.key = tok.signer <=>
           /\ HeaderError(tok) = "none" /\ tok.shape # "payload"
           /\ C = "none"
           /\ ~Unmappable(tok)
    BY <1>1, <1>2, OidcChecks
  <1>5. C \in {"none", "other", "jwt"}
    BY ClaimsErrorForm
  <1>6. HeaderError(tok) \in {"none", "jwt", "other"}
    BY HeaderErrorForm
  <1>7. CASE HeaderError(tok) # "none" \/ tok.shape = "payload"
    <2>1. /\ last.key = NoKey /\ last.via = "none"
          /\ last.error = IF HeaderError(tok) # "none" THEN HeaderError(tok) ELSE "fetch"
      BY <1>1, <1>7 DEF OidcVerdict
    <2>2. last.error # "none"
      BY <2>1
    <2> HIDE DEF C
    <2>3. QED
      BY <1>1, <1>2, <1>3, <1>4, <1>7, <2>1, <2>2
  <1>8. CASE HeaderError(tok) = "none" /\ tok.shape # "payload"
    <2>1. \/ /\ last.via \in {"set", "fetch"} => PublishedSince(now - Lifespan, tok.kid, last.key)
             /\ PublishedSince(0, tok.kid, last.key)
             /\ last.error = IF C # "none" THEN C
                             ELSE IF Unmappable(tok) THEN "mapping" ELSE "none"
          \/ /\ last.key = NoKey /\ last.via = "none"
             /\ \/ last.error = "jwt" /\ tok.kid \notin DOMAIN Current
                \/ last.error = "fetch" /\ (last.unanswered \/ EmptyServedSince(now - Lifespan))
      BY <1>1, <1>8 DEF OidcVerdict
    <2>2. CASE /\ last.via \in {"set", "fetch"} => PublishedSince(now - Lifespan, tok.kid, last.key)
               /\ PublishedSince(0, tok.kid, last.key)
               /\ last.error = IF C # "none" THEN C
                               ELSE IF Unmappable(tok) THEN "mapping" ELSE "none"
      <3>1. last.error = "none" <=> C = "none" /\ ~Unmappable(tok)
        BY <2>2
      <3>2. last.error = "none" <=> OidcAcceptable(tok) /\ last.key = tok.signer
        BY <1>4, <1>8, <3>1
      <3>3. QED
        BY <1>1, <1>2, <1>3, <1>8, <2>2, <3>2
    <2>3. CASE /\ last.key = NoKey /\ last.via = "none"
               /\ \/ last.error = "jwt" /\ tok.kid \notin DOMAIN Current
                  \/ /\ last.error = "fetch"
                     /\ last.unanswered \/ EmptyServedSince(now - Lifespan)
      <3>1. last.error # "none" /\ last.key # tok.signer
        BY <1>3, <2>3
      <3>2. QED
        BY <1>1, <1>2, <1>3, <1>8, <2>3, <3>1
    <2>4. QED
      BY <2>1, <2>2, <2>3
  <1>9. QED
    BY <1>7, <1>8

\* The verdicts under OIDC, and where the accepted key comes from.
LEMMA OidcState == AuthInv => OidcVerdictExact /\ WithdrawnKeyBounded /\ FetchErrorHasCause
  <1> SUFFICES ASSUME AuthInv PROVE OidcVerdictExact /\ WithdrawnKeyBounded /\ FetchErrorHasCause
    OBVIOUS
  <1>1. ASSUME Decided, HasVerifier, last.error = "none"
        PROVE  /\ PublishedSince(0, last.token.kid, last.token.signer)
               /\ last.via \in {"set", "fetch"} =>
                     PublishedSince(now - Lifespan, last.token.kid, last.token.signer)
    <2>1. last.key = last.token.signer /\ last.key # NoKey
      BY <1>1, OidcCases
    <2>2. QED
      BY <1>1, <2>1, OidcCases
  <1>2. OidcVerdictExact
    BY <1>1, OidcCases DEF OidcVerdictExact, Accepted
  <1>3. WithdrawnKeyBounded
    <2> SUFFICES ASSUME Decided, last.error = "none", last.via \in {"set", "fetch"}
                 PROVE  PublishedSince(now - Lifespan, last.token.kid, last.token.signer)
      BY DEF WithdrawnKeyBounded, Accepted
    <2>1. HasVerifier
      BY DEF AuthInv, VerdictInv, Decided
    <2>2. QED
      BY <1>1, <2>1
  <1>4. FetchErrorHasCause
    <2> SUFFICES ASSUME Decided, HasVerifier, last.error = "fetch", last.token.shape = "ok"
                 PROVE  last.unanswered \/ EmptyServedSince(now - Lifespan)
      BY DEF FetchErrorHasCause
    <2>1. /\ HeaderError(last.token) \in {"none", "jwt", "other"}
          /\ ClaimsError(last.token, last.key, config.oidc, now) \in {"none", "other", "jwt"}
      BY HeaderErrorForm, ClaimsErrorForm
    <2>2. QED
      BY <2>1, OidcCases
  <1>5. QED
    BY <1>2, <1>3, <1>4

\* A published key that never named another one is found by every lookup that
\* is answered, unless a document without keys is still in use.
LEMMA PublishedKeyState == AuthInv => PublishedKeyAccepted
  <1> DEFINE kid == last.token.kid
             key == last.token.signer
  <1> SUFFICES ASSUME AuthInv, Decided, HasVerifier, ~last.unanswered, OidcAcceptable(last.token),
                      Binds(Len(published), kid, key), ~Reused(kid),
                      \/ ~EmptyServedSince(now - Lifespan)
                      \/ PublishedThroughout(now - Lifespan, kid, key)
               PROVE  Accepted
    BY DEF PublishedKeyAccepted
  <1>1. HeaderError(last.token) = "none" /\ last.token.shape # "payload"
    <2>1. /\ last.token.shape = "ok" /\ last.token.kid # NotText
          /\ last.token.alg \in ALLOWED_ALGORITHMS
      BY DEF OidcAcceptable
    <2>2. QED
      BY <2>1, HeaderErrorForm
  <1>2. kid \in DOMAIN Current
    BY DEF Binds, Current
  <1>3. ~EmptyServedSince(now - Lifespan)
    <2> SUFFICES ASSUME EmptyServedSince(now - Lifespan),
                        PublishedThroughout(now - Lifespan, kid, key)
                 PROVE  FALSE
      OBVIOUS
    <2>1. PICK i \in DOMAIN published :
             published[i].document = NoDocument /\ Until(i) >= now - Lifespan
      BY DEF EmptyServedSince
    <2>2. kid \in DOMAIN published[i].document
      BY <2>1 DEF PublishedThroughout, Binds
    <2>3. DOMAIN NoDocument = {}
      BY DEF NoDocument
    <2>4. QED
      BY <2>1, <2>2, <2>3
  <1>4. PublishedSince(0, kid, last.key)
    BY <1>1, <1>2, <1>3, OidcCases
  <1>5. last.key = key
    <2>1. PICK i \in DOMAIN published : Binds(i, kid, last.key)
      BY <1>4 DEF PublishedSince
    <2>2. Len(published) \in DOMAIN published
      BY WorldFacts DEF AuthInv
    <2>3. QED
      BY <2>1, <2>2 DEF Reused, Binds
  <1>6. QED
    BY <1>5, OidcCases DEF Accepted

\* The clauses the errors end in.
LEMMA ReasonForm ==
  /\ ReasonOf("not_configured") = "verifier_not_configured"
  /\ ReasonOf("mapping") = "identity_normalization_failed"
  /\ \A e \in {"none", "header", "other", "claims", "signature", "verification", "jwt", "fetch"} :
        ReasonOf(e) \notin {"verifier_not_configured", "identity_normalization_failed"}
  BY DEF ReasonOf

\* The reasons, mode by mode.
LEMMA ReasonState == AuthInv => ReasonTellsCause
  <1> DEFINE mapped == /\ HasVerifier /\ Unmappable(last.token)
                       /\ last.key = last.token.signer
                       /\ ClaimsError(last.token, last.key, config.oidc, now) = "none"
  <1> SUFFICES ASSUME AuthInv, Decided
               PROVE  /\ last.reason = "verifier_not_configured" <=> ~HasVerifier /\ ~HasTrust
                      /\ last.reason = "identity_normalization_failed" <=> mapped
    BY DEF ReasonTellsCause, AuthInv, VerdictInv
  <1>1. last.reason = ReasonOf(last.error)
    BY DEF AuthInv, VerdictInv, Decided
  <1>2. CASE HasVerifier
    <2> DEFINE C == ClaimsError(last.token, last.key, config.oidc, now)
    <2>1. /\ HeaderError(last.token) \in {"none", "jwt", "other"}
          /\ C \in {"none", "other", "jwt"}
      BY HeaderErrorForm, ClaimsErrorForm
    <2>2. last.error = "mapping" <=> mapped
      <3>1. CASE last.key = NoKey /\ last.error # "mapping"
        BY <1>2, <3>1, OidcCases
      <3>2. CASE /\ HeaderError(last.token) = "none" /\ last.token.shape # "payload"
                 /\ last.error = IF C # "none" THEN C
                                 ELSE IF Unmappable(last.token) THEN "mapping" ELSE "none"
        <4>1. C = "none" => last.key = last.token.signer
          BY ClaimsErrorForm DEF Decoded, OidcCall
        <4>2. QED
          BY <1>2, <2>1, <3>2, <4>1
      <3>3. QED
        BY <1>2, <2>1, <3>1, <3>2, OidcCases
    <2>3. last.error \in {"none", "jwt", "other", "fetch", "mapping"}
      BY <1>2, <2>1, OidcCases
    <2> HIDE DEF C, mapped
    <2>4. QED
      BY <1>1, <1>2, <2>2, <2>3, ReasonForm
  <1>3. CASE HasTrust
    <2>1. last.error \in {"none", "header", "other", "claims", "signature", "verification"}
      BY <1>3, VerifyForm DEF AuthInv, VerdictInv, Decided
    <2>2. ~mapped
      BY <1>3, OneMode
    <2> HIDE DEF mapped
    <2>3. QED
      BY <1>1, <1>3, <2>1, <2>2, ReasonForm
  <1>4. CASE ~HasVerifier /\ ~HasTrust
    <2>1. last.error = "not_configured"
      BY <1>4 DEF AuthInv, VerdictInv, Decided
    <2>2. ~mapped
      BY <1>4
    <2> HIDE DEF mapped
    <2>3. QED
      BY <1>1, <1>4, <2>1, <2>2, ReasonForm
  <1>5. QED
    BY <1>2, <1>3, <1>4

\* The two adapters, claim by claim.
LEMMA NormalisationState == AuthInv => NormalisationsAgree
  <1> DEFINE tok == last.token
             s == tok.canonical.subject
             email == [c \in {"email"} |-> tok.email]
             attributes == [c \in {k \in ATTRIBUTE_CLAIMS : Present(tok[k])} |-> tok[c]]
  <1> SUFFICES ASSUME AuthInv, Accepted, Mirrors(tok), Filled(tok.preferred_username),
                      Filled(tok.email)
               PROVE  basis_local_verification_result_to_gateway_identity(tok)
                        = OnlyEmail(map_claims(tok))
    BY DEF NormalisationsAgree
  <1>1. IsText(tok.iss)
    <2>1. config \in Deployments
      BY DEF AuthInv, WorldInv
    <2>2. CASE HasVerifier
      <3>1. OidcAcceptable(tok)
        BY <2>2, OidcCases DEF Accepted
      <3>2. QED
        BY <2>1, <2>2, <3>1, DeploymentsAssumption
           DEF OidcAcceptable, WellFormedDeployment, HasVerifier
    <2>3. CASE HasTrust
      <3>1. LocalAcceptable(tok)
        BY <2>3, LocalState DEF Accepted, LocalVerdictExact
      <3>2. QED
        BY <2>1, <2>3, <3>1, EnvironmentFacts DEF LocalAcceptable
    <2>4. HasVerifier \/ HasTrust
      BY DEF AuthInv, VerdictInv, Accepted, Decided
    <2>5. QED
      BY <2>2, <2>3, <2>4
  <1>2. tok.realm.list \in BOOLEAN /\ tok.roles.list \in BOOLEAN
    BY DEF AuthInv, VerdictInv, WellFormedToken, Accepted, Decided
  <1>3. /\ s.object /\ s.display_name = tok.preferred_username /\ s.email = tok.email
        /\ s.roles = IF tok.realm.list THEN tok.realm ELSE tok.roles
    BY DEF Mirrors
  <1>4. \A v : Filled(v) => IsText(v) /\ Present(v) /\ v # ""
    BY StripFacts DEF Filled, IsText, Present
  <1> HIDE DEF tok, s
  <1>5. extract_roles(tok) = IF s.object /\ s.roles.list THEN s.roles.of \ {NotText} ELSE {}
    BY <1>2, <1>3 DEF extract_roles
  <1>6. /\ (IF IsText(tok.preferred_username) /\ tok.preferred_username # ""
            THEN tok.preferred_username ELSE tok.sub) = tok.preferred_username
        /\ (IF s.object /\ Filled(s.display_name) THEN s.display_name ELSE tok.sub)
              = tok.preferred_username
        /\ (IF s.object /\ IsText(s.email) /\ s.email # ""
            THEN [c \in {"email"} |-> s.email] ELSE <<>>) = email
        /\ (IF IsText(tok.iss) THEN tok.iss ELSE "") = tok.iss
    BY <1>1, <1>3, <1>4
  <1>7. map_claims(tok) = Subject(tok.sub, tok.preferred_username, extract_roles(tok), attributes,
                                  tok.iss, tok)
    BY <1>6 DEF map_claims
  <1>8. attributes["email"] = tok.email
    BY <1>4 DEF ATTRIBUTE_CLAIMS
  <1> HIDE DEF attributes
  <1>9. OnlyEmail(map_claims(tok))
           = Subject(tok.sub, tok.preferred_username, extract_roles(tok), email, tok.iss, tok)
    BY <1>7, <1>8 DEF OnlyEmail, Subject
  <1>10. basis_local_verification_result_to_gateway_identity(tok)
           = Subject(tok.sub, tok.preferred_username, extract_roles(tok), email, tok.iss, tok)
    BY <1>5, <1>6 DEF basis_local_verification_result_to_gateway_identity, s
  <1>11. QED
    BY <1>9, <1>10

\* Only a verification under OIDC looks a key up.
NeedsNoFetch ==
    LET kid == last'.token.kid
    IN  /\ last'.stage = "verified" /\ HasVerifier
        /\ \/ \E i \in DOMAIN cache.resolved : cache.resolved[i].kid = kid
           \/ now <= cache.set.at + Lifespan /\ kid \in DOMAIN cache.set.document
        => /\ last'.fetches = 0
           /\ last'.token.shape = "ok" => last'.error # "fetch"

\* A known key id is found without a request.
LEMMA FetchStep == AuthInv /\ [Next]_vars => [NeedsNoFetch]_vars
  <1> SUFFICES ASSUME AuthInv, Next, last'.stage = "verified", HasVerifier,
                      Known(last'.token.kid)
               PROVE  /\ last'.fetches = 0
                      /\ last'.token.shape = "ok" => last'.error # "fetch"
    BY DEF NeedsNoFetch, Known
  <1>1. ASSUME NEW tok \in Tokens[config.world], NEW first \in BOOLEAN, NEW second \in BOOLEAN,
               authenticateOidc(tok, first, second)
        PROVE  /\ last'.fetches = 0
               /\ last'.token.shape = "ok" => last'.error # "fetch"
    <2> DEFINE L == OidcLookup(tok, first, second)
               error == OidcError(tok, L)
    <2>1. last' = Verified(tok, error, IF error = "none" THEN map_claims(tok) ELSE Nobody,
                           L, Unanswered(L, first, second))
      BY <1>1, OidcStep
    <2>2. last'.token = tok /\ last'.error = error /\ last'.fetches = L.fetches
      <3> HIDE DEF L, error
      <3>1. QED
        BY <2>1, VerifiedForm
    <2>3. HeaderError(tok) \in {"none", "jwt", "other"}
      BY HeaderErrorForm
    <2>4. CASE HeaderError(tok) # "none" \/ tok.shape = "payload"
      <3>1. L = NoLookup
        BY <2>4 DEF OidcLookup
      <3>2. error = IF HeaderError(tok) # "none" THEN HeaderError(tok) ELSE "fetch"
        BY <2>4 DEF OidcError
      <3>3. tok.shape = "ok" => error # "fetch"
        BY <2>3, <2>4, <3>2
      <3> HIDE DEF L, error
      <3>4. QED
        BY <2>2, <3>1, <3>3, NoLookupForm
    <2>5. CASE HeaderError(tok) = "none" /\ tok.shape # "payload"
      <3>1. L = Lookup(tok.kid, first, second)
        BY <2>5 DEF OidcLookup
      <3>2. WorldInv /\ CacheInv(cache)
        BY DEF AuthInv
      <3> HIDE DEF L
      <3>3. LookupSound(L, tok.kid, first, second)
        BY <3>1, <3>2, LookupFacts
      <3>4. L.fetches = 0 /\ L.error = "none"
        BY <2>2, <3>3 DEF LookupSound
      <3>5. ClaimsError(tok, L.key, config.oidc, now) \in {"none", "other", "jwt"}
        BY ClaimsErrorForm
      <3>6. error # "fetch"
        BY <2>5, <3>4, <3>5 DEF OidcError
      <3>7. QED
        BY <2>2, <3>4, <3>6
    <2>6. QED
      BY <2>4, <2>5
  <1>2. ASSUME NEW fault \in HeaderFaults, extract_bearer_token(fault) PROVE FALSE
    BY <1>2 DEF extract_bearer_token
  <1>3. CASE Proceed
    BY <1>3 DEF Proceed, Idle
  <1>4. CASE Tick
    BY <1>4 DEF Tick, Idle
  <1>5. ASSUME NEW d \in Documents[config.world], Rotate(d) PROVE FALSE
    BY <1>5 DEF Rotate, Idle
  <1>6. ASSUME NEW tok \in Tokens[config.world], authenticate(tok)
        PROVE  \E first, second \in BOOLEAN : authenticateOidc(tok, first, second)
    BY <1>6, OneMode DEF authenticate, authenticateUnconfigured, authenticateLocal
  <1>7. QED
    BY <1>1, <1>2, <1>3, <1>4, <1>5, <1>6 DEF Next

\* The caches never outgrow their size and never hold a key id twice, however
\* often keys rotate and lookups move a pair to the front (cache_keys).
THEOREM AuthTypeCorrect == Spec => []TypeOK
  BY AuthInvariant, TypeState, PTL

\* verify_basis_local_identity_token lets in exactly the tokens the environment
\* describes, for every environment startup accepts.
THEOREM LocalExact == Spec => []LocalVerdictExact
  BY AuthInvariant, LocalState, PTL

\* BasisLocalTokenClaimsError tells of no claim whose signature was not verified.
THEOREM ClaimsErrorsSigned == Spec => []ClaimsErrorsAreAboutSignedClaims
  BY AuthInvariant, LocalState, PTL

\* OIDCVerifier.verify accepts exactly the acceptable tokens whose signer's key
\* was found, and that key is one the issuer has published.
THEOREM OidcExact == Spec => []OidcVerdictExact
  BY AuthInvariant, OidcState, PTL

\* A token accepted from the document was signed with a key published within
\* the last Lifespan seconds.
THEOREM WithdrawnBounded == Spec => []WithdrawnKeyBounded
  BY AuthInvariant, OidcState, PTL

\* With the JWKS endpoint answering, a good token of a published key gets in.
THEOREM RotationReaches == Spec => []PublishedKeyAccepted
  BY AuthInvariant, PublishedKeyState, PTL

\* A refusal for want of keys has a cause at the JWKS endpoint.
THEOREM FetchErrorCaused == Spec => []FetchErrorHasCause
  BY AuthInvariant, OidcState, PTL

\* The reason in the audit record names the cause of a refusal.
THEOREM ReasonHonest == Spec => []ReasonTellsCause
  BY AuthInvariant, ReasonState, PTL

\* Of a token that says the same both ways, both identity adapters make the same
\* id, name, roles, address, issuer and lifetime; the local one drops every other
\* attribute.
THEOREM AdaptersAgree == Spec => []NormalisationsAgree
  BY AuthInvariant, NormalisationState, PTL

\* A key id the gateway holds costs no request to the JWKS endpoint, and its
\* outage is not noticed.
THEOREM NoFetchWhenKnown == Spec => KnownKeyNeedsNoFetch
  BY AuthInvariant, FetchStep, PTL DEF Spec, KnownKeyNeedsNoFetch, NeedsNoFetch
=============================================================================
