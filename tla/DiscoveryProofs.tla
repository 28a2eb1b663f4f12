--------------------------- MODULE DiscoveryProofs ----------------------------
(***************************************************************************)
(* Proofs about Discovery, for every set of peers, groups and messages,    *)
(* every max_age and prune interval and every combination of faults.       *)
(***************************************************************************)
EXTENDS Discovery, FiniteSetTheorems, SequenceTheorems, TLAPS

-----------------------------------------------------------------------------
(* Cached lists.                                                           *)

\* No peer is in the list twice.
Distinct(s) == \A i, j \in 1..Len(s) : i # j => s[i] # s[j]

\* A sequence that names nobody twice is as long as the set it names.
LEMMA LengthOfDistinct ==
  ASSUME NEW s \in Seq(Peers), Distinct(s)
  PROVE  IsFiniteSet(Range(s)) /\ Cardinality(Range(s)) = Len(s)
<1>1. Len(s) \in Nat /\ DOMAIN s = 1..Len(s) /\ s \in [1..Len(s) -> Peers]
  BY LenProperties
<1>2. s \in Bijection(1..Len(s), Range(s))
  BY <1>1 DEF Distinct, Range, Bijection, Injection, IsInjective, Surjection
<1>3. ExistsBijection(1..Len(s), Range(s))
  BY <1>2 DEF ExistsBijection
<1>4. QED BY <1>1, <1>3, FS_CountingElements, FS_NatBijection

\* The lists of the cache are the sequences of peers without repetition.
LEMMA ListingIs == \A s : s \in Listings <=> s \in Seq(Peers) /\ Distinct(s)
<1>1. ASSUME NEW s \in Listings PROVE s \in Seq(Peers) /\ Distinct(s)
  <2>1. PICK S \in SUBSET Peers : s \in SetToSeqs(S)
    BY DEF Listings, SetToAllKPermutations
  <2>2. Cardinality(S) \in Nat
    BY PeersAssumption, FS_Subset, FS_CardinalityType
  <2>3. /\ s \in [1..Cardinality(S) -> S]
        /\ \A i, j \in 1..Cardinality(S) : i # j => s[i] # s[j]
    BY <2>1 DEF SetToSeqs
  <2>4. s \in Seq(S)
    BY <2>2, <2>3, SeqDef
  <2>5. s \in Seq(Peers)
    BY <2>4, SeqMonotonic
  <2>6. Len(s) = Cardinality(S)
    BY <2>2, <2>3, <2>4, LenProperties
  <2>7. QED BY <2>3, <2>5, <2>6 DEF Distinct
<1>2. ASSUME NEW s \in Seq(Peers), Distinct(s) PROVE s \in Listings
  <2>1. Cardinality(Range(s)) = Len(s)
    BY <1>2, LengthOfDistinct
  <2>2. Range(s) \in SUBSET Peers /\ s \in [1..Len(s) -> Range(s)]
    <3>1. s \in [1..Len(s) -> Peers]
      BY LenProperties
    <3>2. QED BY <3>1 DEF Range
  <2>3. s \in SetToSeqs(Range(s))
    BY <1>2, <2>1, <2>2 DEF SetToSeqs, Distinct
  <2>4. QED BY <2>2, <2>3 DEF Listings, SetToAllKPermutations
<1>3. QED BY <1>1, <1>2

\* An empty list names nobody.
LEMMA EmptyListing == <<>> \in Listings /\ Range(<<>>) = {}
<1>1. Distinct(<<>>) /\ <<>> \in Seq(Peers)
  BY EmptySeq DEF Distinct
<1>2. <<>> \in Listings
  BY <1>1, ListingIs
<1>3. Range(<<>>) = {}
  BY DEF Range
<1>4. QED BY <1>2, <1>3

\* What a list names are peers.
LEMMA RangeOfListing == \A s \in Listings : Range(s) \subseteq Peers
  BY ListingIs, RangeOfSeq

\* upsert_peer lists the peer once, and takes nobody out.
LEMMA ListedIs ==
  ASSUME NEW s \in Listings, NEW p \in Peers
  PROVE  Listed(s, p) \in Listings /\ Range(Listed(s, p)) = Range(s) \cup {p}
<1>1. CASE p \in Range(s)
  BY <1>1 DEF Listed
<1>2. CASE p \notin Range(s)
  <2> DEFINE t == Append(s, p)
  <2>1. s \in Seq(Peers) /\ Distinct(s)
    BY ListingIs
  <2>2. /\ t \in Seq(Peers) /\ Len(s) \in Nat /\ Len(t) = Len(s) + 1
        /\ \A i \in 1..Len(s) : t[i] = s[i]
        /\ t[Len(s) + 1] = p
        /\ DOMAIN s = 1..Len(s)
    BY <2>1, AppendProperties, LenProperties
  <2>3. DOMAIN t = 1..(Len(s) + 1)
    BY <2>2, LenProperties
  <2> HIDE DEF t
  <2>4. \A i \in 1..Len(s) : s[i] # p
    BY <1>2, <2>2 DEF Range
  <2>5. \A i \in 1..(Len(s) + 1) : i \in 1..Len(s) \/ i = Len(s) + 1
    BY <2>2
  <2>6. Distinct(t)
    BY <2>1, <2>2, <2>4, <2>5 DEF Distinct
  <2>7. Range(t) = Range(s) \cup {p}
    <3>1. \A i \in 1..Len(s) : i \in 1..(Len(s) + 1)
      BY <2>2
    <3>2. Len(s) + 1 \in 1..(Len(s) + 1)
      BY <2>2
    <3>3. Range(t) \subseteq Range(s) \cup {p}
      BY <2>2, <2>3, <2>5 DEF Range
    <3>4. Range(s) \cup {p} \subseteq Range(t)
      BY <2>2, <2>3, <3>1, <3>2 DEF Range
    <3>5. QED BY <3>3, <3>4
  <2>8. Listed(s, p) = t
    BY <1>2 DEF Listed, t
  <2>9. QED BY <2>2, <2>6, <2>7, <2>8, ListingIs
<1>3. QED BY <1>1, <1>2

\* mark_offline takes the peer out of the list and nobody else.
LEMMA RemovedIs ==
  ASSUME NEW s \in Listings, NEW p
  PROVE  RemoveFirst(s, p) \in Listings /\ Range(RemoveFirst(s, p)) = Range(s) \ {p}
<1>1. s \in Seq(Peers) /\ Distinct(s) /\ Len(s) \in Nat /\ DOMAIN s = 1..Len(s)
  BY ListingIs, LenProperties
<1>2. CASE \A i \in 1..Len(s) : s[i] # p
  <2>1. RemoveFirst(s, p) = s
    BY <1>2 DEF RemoveFirst
  <2>2. p \notin Range(s)
    BY <1>1, <1>2 DEF Range
  <2>3. QED BY <2>1, <2>2
<1>3. ASSUME NEW k \in 1..Len(s), s[k] = p
      PROVE  RemoveFirst(s, p) \in Listings /\ Range(RemoveFirst(s, p)) = Range(s) \ {p}
  <2> DEFINE I == {i \in 1..Len(s) : s[i] = p}
             a == SubSeq(s, 1, k - 1)
             b == SubSeq(s, k + 1, Len(s))
             t == a \o b
  <2>1. RemoveFirst(s, p) = t
    <3>1. I = {k}
      BY <1>1, <1>3 DEF Distinct
    <3>2. Min(I) = k
      BY <1>1, <3>1 DEF Min
    <3>3. SelectInSeq(s, LAMBDA v : v = p) = k
      BY <3>1, <3>2 DEF SelectInSeq
    <3>4. QED BY <1>3, <3>3 DEF RemoveFirst, RemoveAt
  <2>2. /\ a \in Seq(Peers) /\ Len(a) = k - 1 /\ \A i \in 1..(k - 1) : a[i] = s[i]
        /\ b \in Seq(Peers) /\ Len(b) = Len(s) - k /\ \A i \in 1..(Len(s) - k) : b[i] = s[k + i]
    <3>1. \A i \in 1..Len(s) : s[i] \in Peers
      BY <1>1, ElementOfSeq
    <3>2. /\ k \in Nat /\ k - 1 \in Int /\ k + 1 \in Int /\ 1 \in Int /\ Len(s) \in Int
          /\ \A i \in 1..(k - 1) : i \in 1..Len(s)
          /\ \A i \in (k + 1)..Len(s) : i \in 1..Len(s)
      BY <1>1
    <3>3. /\ a \in Seq(Peers)
          /\ Len(a) = IF 1 <= k - 1 THEN (k - 1) - 1 + 1 ELSE 0
          /\ \A i \in 1..((k - 1) - 1 + 1) : a[i] = s[1 + i - 1]
      BY <3>1, <3>2, SubSeqProperties
    <3>4. /\ b \in Seq(Peers)
          /\ Len(b) = IF k + 1 <= Len(s) THEN Len(s) - (k + 1) + 1 ELSE 0
          /\ \A i \in 1..(Len(s) - (k + 1) + 1) : b[i] = s[(k + 1) + i - 1]
      BY <3>1, <3>2, SubSeqProperties
    <3> HIDE DEF a, b
    <3>5. Len(a) = k - 1 /\ \A i \in 1..(k - 1) : a[i] = s[i]
      BY <3>2, <3>3
    <3>6. Len(b) = Len(s) - k /\ \A i \in 1..(Len(s) - k) : b[i] = s[k + i]
      <4> DEFINE n == Len(s)
      <4>n. n \in Nat /\ k \in 1..n
        BY <1>1
      <4>l. Len(b) = IF k + 1 <= n THEN n - (k + 1) + 1 ELSE 0
        BY <3>4
      <4> HIDE DEF n
      <4>a. n - (k + 1) + 1 = n - k /\ (~(k + 1 <= n) => n - k = 0)
        BY <4>n
      <4>1. Len(b) = n - k /\ n - (k + 1) + 1 = n - k
        BY <4>l, <4>a
      <4> USE DEF n
      <4>2. ASSUME NEW i \in 1..(Len(s) - k) PROVE b[i] = s[k + i]
        <5>1. (k + 1) + i - 1 = k + i
          BY <3>2
        <5>2. QED BY <3>4, <4>1, <5>1
      <4>3. QED BY <4>1, <4>2
    <3>7. QED BY <3>3, <3>4, <3>5, <3>6
  <2> HIDE DEF a, b
  <2>3. /\ t \in Seq(Peers) /\ Len(t) = Len(s) - 1
        /\ \A i \in 1..(Len(s) - 1) : t[i] = IF i < k THEN s[i] ELSE s[i + 1]
    <3>1. /\ t \in Seq(Peers) /\ Len(t) = Len(a) + Len(b)
          /\ \A i \in 1..(Len(a) + Len(b)) : t[i] = IF i <= Len(a) THEN a[i] ELSE b[i - Len(a)]
      BY <2>2, ConcatProperties
    <3>2. Len(a) + Len(b) = Len(s) - 1
      BY <1>1, <2>2
    <3> HIDE DEF t
    <3>3. ASSUME NEW i \in 1..(Len(s) - 1)
          PROVE  t[i] = IF i < k THEN s[i] ELSE s[i + 1]
      <4>1. t[i] = IF i <= k - 1 THEN a[i] ELSE b[i - (k - 1)]
        BY <2>2, <3>1, <3>2
      <4>2. CASE i < k
        <5>1. i \in 1..(k - 1)
          BY <4>2
        <5>2. QED BY <2>2, <4>1, <4>2, <5>1
      <4>3. CASE ~(i < k)
        <5>1. i - (k - 1) \in 1..(Len(s) - k) /\ k + (i - (k - 1)) = i + 1 /\ ~(i <= k - 1)
          BY <1>1, <4>3
        <5>2. b[i - (k - 1)] = s[i + 1]
          BY <2>2, <5>1
        <5>3. QED BY <4>1, <4>3, <5>1, <5>2
      <4>4. QED BY <4>2, <4>3
    <3>4. QED BY <3>1, <3>2, <3>3
  <2> HIDE DEF t
  <2>4. DOMAIN t = 1..(Len(s) - 1)
    BY <2>3, LenProperties
  <2>5. Distinct(t)
    <3>1. SUFFICES ASSUME NEW i \in 1..(Len(s) - 1), NEW j \in 1..(Len(s) - 1), i # j
                   PROVE  t[i] # t[j]
      BY <2>3 DEF Distinct
    <3> DEFINE At(l) == IF l < k THEN l ELSE l + 1
    <3>2. /\ At(i) \in 1..Len(s) /\ At(j) \in 1..Len(s) /\ At(i) # At(j)
          /\ t[i] = s[At(i)] /\ t[j] = s[At(j)]
      BY <1>1, <2>3, <3>1
    <3>3. QED BY <1>1, <3>2 DEF Distinct
  <2>6. Range(t) = Range(s) \ {p}
    <3>1. ASSUME NEW i \in 1..(Len(s) - 1) PROVE t[i] \in Range(s) \ {p}
      <4> DEFINE l == IF i < k THEN i ELSE i + 1
      <4>1. l \in 1..Len(s) /\ l # k /\ t[i] = s[l]
        BY <1>1, <2>3
      <4>2. QED BY <1>1, <1>3, <4>1 DEF Distinct, Range
    <3>2. ASSUME NEW l \in 1..Len(s), s[l] # p PROVE s[l] \in Range(t)
      <4> DEFINE i == IF l < k THEN l ELSE l - 1
      <4>1. l # k
        BY <1>3, <3>2
      <4>2. i \in 1..(Len(s) - 1) /\ t[i] = s[l]
        BY <1>1, <2>3, <4>1
      <4>3. QED BY <2>4, <4>2 DEF Range
    <3>3. Range(t) \subseteq Range(s) \ {p}
      BY <2>4, <3>1 DEF Range
    <3>4. Range(s) \ {p} \subseteq Range(t)
      BY <1>1, <3>2 DEF Range
    <3>5. QED BY <3>3, <3>4
  <2>7. QED BY <2>1, <2>3, <2>5, <2>6, ListingIs
<1>4. QED BY <1>2, <1>3

-----------------------------------------------------------------------------
(* Type correctness.                                                       *)

\* The node starts with an empty table and an empty cache.
LEMMA TypeInit == Init => TypeOK
<1> SUFFICES ASSUME Init PROVE TypeOK
  OBVIOUS
<1>1. 0 \in 0..AgeCap /\ 0 \in 0..MaxRelay /\ PruneEvery \in 0..PruneEvery
  BY TimeAssumption, RelayAssumption DEF AgeCap
<1>2. /\ age \in [Groups -> [Peers -> 0..AgeCap]]
      /\ relayed \in [Groups -> [Messages -> 0..MaxRelay]]
      /\ sincePrune \in 0..PruneEvery
  BY <1>1 DEF Init
<1>q. quiet \in [Groups -> [Peers -> 0..(MaxAge + 1)]]
  <2>1. MaxAge + 1 \in 0..(MaxAge + 1)
    BY TimeAssumption
  <2>2. QED BY <2>1 DEF Init
<1>3. cache \in [Groups -> Listings] /\ intros \subseteq Groups \X Listings
  BY EmptyListing DEF Init
<1>4. /\ rows \in [Groups -> SUBSET Peers] /\ online \in [Groups -> SUBSET Peers]
      /\ \A g \in Groups : online[g] \subseteq rows[g]
  BY DEF Init, Nobody
<1>5. QED BY <1>2, <1>q, <1>3, <1>4 DEF Init, TypeOK, Nobody

\* The lists of cache', where it comes from one of the operators of PeerTracker.
LEMMA CacheType ==
  ASSUME TypeOK
  PROVE  /\ \A p \in Peers, gs \in SUBSET Groups :
              Upsert(p, gs) => cache' \in [Groups -> Listings]
         /\ \A p \in Peers : MarkOffline(p) => cache' \in [Groups -> Listings]
         /\ LoadCache => cache' \in [Groups -> Listings]
<1>1. ASSUME NEW p \in Peers, NEW gs \in SUBSET Groups, Upsert(p, gs)
      PROVE  cache' \in [Groups -> Listings]
  <2>1. cache' = [g \in Groups |-> IF g \in gs THEN Listed(cache[g], p) ELSE cache[g]]
    BY <1>1 DEF Upsert
  <2>2. \A g \in Groups : cache[g] \in Listings /\ Listed(cache[g], p) \in Listings
    BY ListedIs DEF TypeOK
  <2>3. QED BY <2>1, <2>2
<1>2. ASSUME NEW p \in Peers, MarkOffline(p) PROVE cache' \in [Groups -> Listings]
  <2>1. cache' = [g \in Groups |-> RemoveFirst(cache[g], p)]
    BY <1>2 DEF MarkOffline
  <2>2. \A g \in Groups : RemoveFirst(cache[g], p) \in Listings
    BY RemovedIs DEF TypeOK
  <2>3. QED BY <2>1, <2>2
<1>3. QED BY <1>1, <1>2 DEF LoadCache

\* What is introduced is a list of the cache under the group it is listed for.
LEMMA IntrosType ==
  ASSUME NEW gs \in SUBSET Groups, NEW list \in [Groups -> Listings]
  PROVE  Introductions(gs, list) \subseteq Groups \X Listings
  BY DEF Introductions

\* The ages of a table are ages.
LEMMA AgesType ==
  ASSUME NEW on, NEW ages \in [Groups -> [Peers -> 0..AgeCap]]
  PROVE  AgesOf(on, ages) \in [Groups -> [Peers -> 0..AgeCap]]
  BY TimeAssumption DEF AgesOf, AgeCap

\* What is kept of who was heard, in every step that sets it anew.
LEMMA QuietType ==
  ASSUME TypeOK, NEW p \in Peers, NEW gs \in SUBSET Groups, NEW t \in 0..(MaxAge + 1),
         Quiet(p, gs, t)
  PROVE  /\ quiet' \in [Groups -> [Peers -> 0..(MaxAge + 1)]]
         /\ \A g \in Groups, q \in Peers :
              quiet'[g][q] = IF q = p /\ g \in gs THEN t ELSE quiet[g][q]
  BY DEF Quiet, TypeOK

\* Every arm of the task keeps the types: no list ever names a peer twice, and
\* only rows are online.
LEMMA TypeStep == TypeOK /\ [Next]_vars => TypeOK'
<1> SUFFICES ASSUME TypeOK, [Next]_vars PROVE TypeOK'
  OBVIOUS
<1>a. MaxAge \in Nat /\ PruneEvery \in Nat \ {0} /\ MaxRelay \in Nat /\ AgeCap \in Nat
  BY TimeAssumption, RelayAssumption DEF AgeCap
<1>b. 0 \in 0..(MaxAge + 1) /\ MaxAge + 1 \in 0..(MaxAge + 1)
  BY <1>a
<1>u. CASE UNCHANGED vars
  BY <1>u DEF TypeOK, vars, tableVars, topicVars, timeVars
<1>1. ASSUME NEW p \in Peers, NeighborDown(p) PROVE TypeOK'
  <2>1. cache' \in [Groups -> Listings]
    BY <1>1, CacheType DEF NeighborDown
  <2>2. intros' \subseteq Groups \X Listings
    <3>1. intros' = Introductions({g \in Groups : p \in online[g]}, cache')
      BY <1>1 DEF NeighborDown
    <3>2. {g \in Groups : p \in online[g]} \in SUBSET Groups
      OBVIOUS
    <3>3. QED BY <2>1, <3>1, <3>2, IntrosType
  <2>3. age' \in [Groups -> [Peers -> 0..AgeCap]]
    BY <1>1, AgesType DEF NeighborDown, MarkOffline, TypeOK
  <2>4. /\ online' = [g \in Groups |-> online[g] \ {p}] /\ rows' = rows
        /\ UNCHANGED <<up, subs, linked, forwarders, heard, missed, sincePrune, swept,
                       relayed, stale>>
    BY <1>1 DEF NeighborDown, MarkOffline, topicVars, timeVars
  <2>5. quiet' \in [Groups -> [Peers -> 0..(MaxAge + 1)]]
    BY <1>1, <1>b, QuietType DEF NeighborDown
  <2>6. QED BY <2>1, <2>2, <2>3, <2>4, <2>5 DEF TypeOK
<1>2. ASSUME NEW p \in Peers, NEW gs \in SUBSET Groups, GroupsExchange(p, gs) PROVE TypeOK'
  <2>1. PICK opened \in Succeeding("subfail", gs \ subs),
             joined \in Succeeding("subfail", gs \cap subs) : Topics(p, gs, opened, joined)
    BY <1>2 DEF GroupsExchange
  <2>2. opened \subseteq Groups /\ joined \subseteq Groups
    BY <2>1 DEF Succeeding
  <2>3. PICK upserted \in Succeeding("dbfail", gs) :
          /\ Upsert(p, upserted) /\ Quiet(p, upserted, 0)
          /\ intros' = Introductions(upserted, cache')
    BY <1>2 DEF GroupsExchange
  <2>4. upserted \in SUBSET Groups
    BY <2>3 DEF Succeeding
  <2>5. cache' \in [Groups -> Listings] /\ intros' \subseteq Groups \X Listings
    BY <2>3, <2>4, CacheType, IntrosType
  <2>6. /\ rows' \in [Groups -> SUBSET Peers] /\ online' \in [Groups -> SUBSET Peers]
        /\ \A g \in Groups : online'[g] \subseteq rows'[g]
    BY <2>3, <2>4 DEF Upsert, In, TypeOK
  <2>7. age' \in [Groups -> [Peers -> 0..AgeCap]]
    BY <1>a, <2>3, <2>4 DEF Upsert, TypeOK
  <2>8. /\ linked' \in [Groups -> SUBSET Peers] /\ heard' \in [Groups -> SUBSET Peers]
        /\ missed' \in [Groups -> SUBSET Peers]
    BY <2>1, <2>2 DEF Topics, In, TypeOK
  <2>9. subs' \subseteq Groups /\ forwarders' \in [Groups -> Nat]
    BY <2>1, <2>2 DEF Topics, Opened, TypeOK
  <2>10. UNCHANGED <<up, sincePrune, swept, relayed, stale>>
    BY <1>2 DEF GroupsExchange, timeVars
  <2>11. quiet' \in [Groups -> [Peers -> 0..(MaxAge + 1)]]
    BY <1>b, <2>3, <2>4, QuietType
  <2>12. QED BY <2>5, <2>6, <2>7, <2>8, <2>9, <2>10, <2>11 DEF TypeOK
<1>3. ASSUME NEW g \in Groups, NEW m \in Messages, GroupMessage(g, m) PROVE TypeOK'
  <2>1. /\ relayed[g][m] + forwarders[g] \in 0..MaxRelay
        /\ relayed' = [relayed EXCEPT ![g][m] = @ + forwarders[g]]
    BY <1>3, <1>a DEF GroupMessage, TypeOK
  <2>2. relayed' \in [Groups -> [Messages -> 0..MaxRelay]]
    BY <2>1 DEF TypeOK
  <2>3. QED BY <1>3, <2>2 DEF GroupMessage, TypeOK, tableVars, topicVars, timeVars
<1>4. CASE AnnounceTick
  <2>1. intros' \subseteq Groups \X Listings
    BY <1>4, IntrosType DEF AnnounceTick, TypeOK
  <2>2. QED BY <1>4, <2>1 DEF AnnounceTick, TypeOK, tableVars, topicVars, timeVars
<1>5. CASE PruneTick
  <2>1. /\ online' \in [Groups -> SUBSET Peers]
        /\ \A g \in Groups : online'[g] \subseteq online[g]
    BY <1>5 DEF PruneTick, TypeOK
  <2>2. age' \in [Groups -> [Peers -> 0..AgeCap]]
    <3>1. age' = AgesOf(online', age) \/ age' = age
      BY <1>5 DEF PruneTick
    <3>2. age \in [Groups -> [Peers -> 0..AgeCap]]
      BY DEF TypeOK
    <3>3. QED BY <3>1, <3>2, AgesType
  <2>3. cache' \in [Groups -> Listings] /\ stale' \in BOOLEAN /\ swept' \in BOOLEAN
    BY <1>5 DEF PruneTick, LoadCache, TypeOK
  <2>4. sincePrune' = 0 /\ sincePrune' \in 0..PruneEvery
    BY <1>5, <1>a DEF PruneTick
  <2>5. /\ intros' = {} /\ UNCHANGED <<up, rows, quiet, subs, linked, forwarders, heard, missed, relayed>>
    BY <1>5 DEF PruneTick, topicVars
  <2>6. QED BY <2>1, <2>2, <2>3, <2>4, <2>5 DEF TypeOK
<1>6. CASE Crash
  <2>1. sincePrune' \in 0..PruneEvery
    BY <1>6, <1>a DEF Crash
  <2>2. relayed' \in [Groups -> [Messages -> 0..MaxRelay]]
    BY <1>6, <1>a DEF Crash
  <2>3. QED BY <1>6, <2>1, <2>2, EmptyListing DEF Crash, TypeOK, Nobody, tableVars
<1>7. CASE Restart
  BY <1>7, CacheType DEF Restart, TypeOK, tableVars, topicVars, timeVars
<1>8. CASE Tick
  <2>1. sincePrune' \in 0..PruneEvery
    BY <1>8, <1>a DEF Tick, TypeOK
  <2>2. age' \in [Groups -> [Peers -> 0..AgeCap]]
    <3>1. \A g \in Groups, p \in Peers : age[g][p] \in 0..AgeCap
      BY DEF TypeOK
    <3>2. \A n \in 0..AgeCap : n < AgeCap => n + 1 \in 0..AgeCap
      BY <1>a
    <3>3. QED BY <1>8, <3>1, <3>2 DEF Tick
  <2>3. quiet' \in [Groups -> [Peers -> 0..(MaxAge + 1)]]
    <3>1. \A n \in 0..(MaxAge + 1) : n <= MaxAge => n + 1 \in 0..(MaxAge + 1)
      BY <1>a
    <3>2. \A g \in Groups, p \in Peers : quiet[g][p] \in 0..(MaxAge + 1)
      BY DEF TypeOK
    <3>3. QED BY <1>8, <3>1, <3>2 DEF Tick
  <2>4. QED BY <1>8, <2>1, <2>2, <2>3 DEF Tick, TypeOK, topicVars
<1>9. QED BY <1>u, <1>1, <1>2, <1>3, <1>4, <1>5, <1>6, <1>7, <1>8 DEF Next

\* The types hold in every state; no cached list ever names a peer twice,
\* and a row that is not there is not online.
THEOREM TypeCorrect == Spec => []TypeOK
<1>1. QED BY TypeInit, TypeStep, PTL DEF Spec

-----------------------------------------------------------------------------
(* The topics.                                                             *)

\* What an announcement may open is not open yet, what it may join is.
LEMMA ExchangeTopics ==
  ASSUME NEW p \in Peers, NEW gs \in SUBSET Groups, GroupsExchange(p, gs)
  PROVE  \E opened \in SUBSET (gs \ subs), joined \in SUBSET (gs \cap subs) :
           Topics(p, gs, opened, joined)
  BY DEF GroupsExchange, Succeeding

\* Only announcements and the end of the process touch the topics.
LEMMA OtherTopics ==
  ASSUME [Next]_vars, ~Crash, \A p \in Peers, gs \in SUBSET Groups : ~GroupsExchange(p, gs)
  PROVE  UNCHANGED <<subs, linked, forwarders, heard, missed>>
<1> USE DEF topicVars
<1>u. CASE UNCHANGED vars
  BY <1>u DEF vars
<1>1. CASE \E p \in Peers : NeighborDown(p)
  BY <1>1 DEF NeighborDown
<1>2. CASE \E g \in Groups, m \in Messages : GroupMessage(g, m)
  BY <1>2 DEF GroupMessage
<1>3. CASE AnnounceTick \/ PruneTick \/ Restart \/ Tick
  BY <1>3 DEF AnnounceTick, PruneTick, Restart, Tick
<1>4. QED BY <1>u, <1>1, <1>2, <1>3 DEF Next

\* A group whose topic is open has one task that forwards its messages, and a
\* group without a topic none: no announcement opens a topic a second time.
THEOREM OneForwarderHolds == Spec => []OneForwarder
<1>1. Init => OneForwarder
  BY DEF Init, OneForwarder
<1>2. TypeOK /\ OneForwarder /\ [Next]_vars => OneForwarder'
  <2> SUFFICES ASSUME TypeOK, OneForwarder, [Next]_vars PROVE OneForwarder'
    OBVIOUS
  <2>1. ASSUME NEW p \in Peers, NEW gs \in SUBSET Groups, GroupsExchange(p, gs)
        PROVE  OneForwarder'
    <3>a. PICK opened \in SUBSET (gs \ subs), joined \in SUBSET (gs \cap subs) :
            Topics(p, gs, opened, joined)
      BY <2>1, ExchangeTopics
    <3>1. /\ subs' = subs \cup opened
          /\ forwarders' = [g \in Groups |-> IF g \in opened THEN forwarders[g] + 1
                                            ELSE forwarders[g]]
      BY <3>a DEF Topics, Opened
    <3>2. SUFFICES ASSUME NEW g \in Groups
                   PROVE  forwarders'[g] = IF g \in subs' THEN 1 ELSE 0
      BY DEF OneForwarder
    <3>3. forwarders[g] = IF g \in subs THEN 1 ELSE 0
      BY DEF OneForwarder
    <3>4. CASE g \in opened
      BY <3>1, <3>3, <3>4
    <3>5. CASE g \notin opened
      BY <3>1, <3>3, <3>5
    <3>6. QED BY <3>4, <3>5
  <2>2. CASE Crash
    BY <2>2 DEF Crash, OneForwarder
  <2>3. CASE ~Crash /\ \A p \in Peers, gs \in SUBSET Groups : ~GroupsExchange(p, gs)
    BY <2>3, OtherTopics DEF OneForwarder
  <2>4. QED BY <2>1, <2>2, <2>3
<1>3. QED BY <1>1, <1>2, TypeCorrect, PTL DEF Spec

\* A peer that announced a group is linked into its topic unless its own
\* subscribe or join failed, and nobody is linked into a topic that is not open.
THEOREM AnnouncedIsLinkedHolds == Spec => []AnnouncedIsLinked
<1>1. Init => AnnouncedIsLinked
  BY DEF Init, AnnouncedIsLinked, Nobody
<1>2. TypeOK /\ AnnouncedIsLinked /\ [Next]_vars => AnnouncedIsLinked'
  <2> SUFFICES ASSUME TypeOK, AnnouncedIsLinked, [Next]_vars PROVE AnnouncedIsLinked'
    OBVIOUS
  <2>1. ASSUME NEW p \in Peers, NEW gs \in SUBSET Groups, GroupsExchange(p, gs)
        PROVE  AnnouncedIsLinked'
    <3>1. PICK opened \in SUBSET (gs \ subs), joined \in SUBSET (gs \cap subs) :
            Topics(p, gs, opened, joined)
      BY <2>1, ExchangeTopics
    <3> DEFINE reached == IF p \in Keys THEN opened \cup joined ELSE {}
    <3>2. /\ subs' = subs \cup opened
          /\ linked' = [g \in Groups |-> linked[g] \cup In(p, g, reached)]
          /\ heard' = [g \in Groups |-> heard[g] \cup In(p, g, gs)]
          /\ missed' = [g \in Groups |->
                         (missed[g] \ In(p, g, reached)) \cup In(p, g, gs \ reached)]
      BY <3>1 DEF Topics, Opened
    <3>3. reached \subseteq subs \cup opened
      OBVIOUS
    <3> HIDE DEF reached
    <3>4. SUFFICES ASSUME NEW g \in Groups
                   PROVE  /\ heard'[g] \ missed'[g] \subseteq linked'[g]
                          /\ linked'[g] # {} => g \in subs'
      BY DEF AnnouncedIsLinked
    <3>5. heard[g] \ missed[g] \subseteq linked[g] /\ (linked[g] # {} => g \in subs)
      BY DEF AnnouncedIsLinked
    <3>6. \A S, q : q \in In(p, g, S) <=> q = p /\ g \in S
      BY DEF In
    <3>7. heard'[g] \ missed'[g] \subseteq linked'[g]
      BY <3>2, <3>5, <3>6
    <3>8. linked'[g] # {} => g \in subs'
      BY <3>2, <3>3, <3>5, <3>6
    <3>9. QED BY <3>7, <3>8
  <2>2. CASE Crash
    BY <2>2 DEF Crash, AnnouncedIsLinked, Nobody
  <2>3. CASE ~Crash /\ \A p \in Peers, gs \in SUBSET Groups : ~GroupsExchange(p, gs)
    BY <2>3, OtherTopics DEF AnnouncedIsLinked
  <2>4. QED BY <2>1, <2>2, <2>3
<1>3. QED BY <1>1, <1>2, TypeCorrect, PTL DEF Spec

-----------------------------------------------------------------------------
(* The cache.                                                              *)

\* upsert_peer puts one peer online and lists it, in the same groups.
LEMMA UpsertBoth ==
  ASSUME TypeOK, NEW p \in Peers, NEW gs \in SUBSET Groups, Upsert(p, gs), NEW g \in Groups
  PROVE  /\ online'[g] = online[g] \cup In(p, g, gs)
         /\ Range(cache'[g]) = Range(cache[g]) \cup In(p, g, gs)
         /\ \A q \in Peers : age'[g][q] = IF q \in In(p, g, gs) THEN 0 ELSE age[g][q]
<1>1. online'[g] = online[g] \cup In(p, g, gs)
  BY DEF Upsert
<1>2. \A q \in Peers : age'[g][q] = IF q \in In(p, g, gs) THEN 0 ELSE age[g][q]
  BY DEF Upsert, In, TypeOK
<1>3. cache[g] \in Listings
  BY DEF TypeOK
<1>4. CASE g \in gs
  <2>1. cache'[g] = Listed(cache[g], p) /\ In(p, g, gs) = {p}
    BY <1>4 DEF Upsert, In
  <2>2. QED BY <1>1, <1>2, <1>3, <2>1, ListedIs
<1>5. CASE g \notin gs
  <2>1. cache'[g] = cache[g] /\ In(p, g, gs) = {}
    BY <1>5 DEF Upsert, In
  <2>2. QED BY <1>1, <1>2, <2>1
<1>6. QED BY <1>4, <1>5

\* mark_offline takes one peer offline and off the lists of all groups.
LEMMA OfflineBoth ==
  ASSUME TypeOK, NEW p \in Peers, MarkOffline(p), NEW g \in Groups
  PROVE  /\ online'[g] = online[g] \ {p}
         /\ Range(cache'[g]) = Range(cache[g]) \ {p}
         /\ \A q \in online'[g] : age'[g][q] = age[g][q]
<1>1. /\ online'[g] = online[g] \ {p} /\ age' = AgesOf(online', age)
      /\ cache'[g] = RemoveFirst(cache[g], p) /\ cache[g] \in Listings
      /\ online[g] \subseteq Peers
  BY DEF MarkOffline, TypeOK
<1>2. \A q \in online'[g] : age'[g][q] = age[g][q]
  BY <1>1 DEF AgesOf
<1>3. QED BY <1>1, <1>2, RemovedIs

\* Cache and table change alike in every arm of the task, and in no other step.
LEMMA CoherentStep == TypeOK /\ CacheCoherent /\ [Next]_vars => CacheCoherent'
<1> SUFFICES ASSUME TypeOK, CacheCoherent, [Next]_vars, up', NEW g \in Groups
             PROVE  /\ online'[g] \subseteq Range(cache'[g])
                    /\ stale' \/ Range(cache'[g]) = online'[g]
  BY DEF CacheCoherent
<1>c. up => /\ online[g] \subseteq Range(cache[g])
            /\ stale \/ Range(cache[g]) = online[g]
  BY DEF CacheCoherent
<1>s. ASSUME UNCHANGED <<up, online, cache, stale>>
      PROVE  /\ online'[g] \subseteq Range(cache'[g])
             /\ stale' \/ Range(cache'[g]) = online'[g]
  BY <1>c, <1>s
<1>u. CASE UNCHANGED vars
  BY <1>u, <1>s DEF vars, tableVars
<1>1. ASSUME NEW p \in Peers, NeighborDown(p)
      PROVE  /\ online'[g] \subseteq Range(cache'[g])
             /\ stale' \/ Range(cache'[g]) = online'[g]
  BY <1>1, <1>c, OfflineBoth DEF NeighborDown
<1>2. ASSUME NEW p \in Peers, NEW gs \in SUBSET Groups, GroupsExchange(p, gs)
      PROVE  /\ online'[g] \subseteq Range(cache'[g])
             /\ stale' \/ Range(cache'[g]) = online'[g]
  <2>1. PICK upserted \in SUBSET Groups : Upsert(p, upserted)
    BY <1>2 DEF GroupsExchange, Succeeding
  <2>2. up /\ stale' = stale
    BY <1>2 DEF GroupsExchange
  <2>3. /\ online'[g] = online[g] \cup In(p, g, upserted)
        /\ Range(cache'[g]) = Range(cache[g]) \cup In(p, g, upserted)
    BY <2>1, UpsertBoth
  <2>4. QED BY <1>c, <2>2, <2>3
<1>3. CASE \E h \in Groups, m \in Messages : GroupMessage(h, m)
  BY <1>3, <1>s DEF GroupMessage, tableVars
<1>4. CASE AnnounceTick
  BY <1>4, <1>s DEF AnnounceTick, tableVars
<1>5. CASE PruneTick
  <2>1. CASE UNCHANGED <<online, cache, stale>>
    BY <1>5, <1>s, <2>1 DEF PruneTick
  <2>2. CASE online' = [h \in Groups |-> online[h] \ Expired(h)]
             /\ (LoadCache \/ (stale' /\ UNCHANGED cache))
    <3>1. CASE LoadCache
      BY <3>1 DEF LoadCache
    <3>2. CASE stale' /\ UNCHANGED cache
      BY <1>5, <1>c, <2>2, <3>2 DEF PruneTick
    <3>3. QED BY <2>2, <3>1, <3>2
  <2>3. QED BY <1>5, <2>1, <2>2 DEF PruneTick
<1>6. CASE Crash
  BY <1>6 DEF Crash
<1>7. CASE Restart
  BY <1>7 DEF Restart, LoadCache
<1>8. CASE Tick
  BY <1>8, <1>s DEF Tick
<1>9. QED BY <1>u, <1>1, <1>2, <1>3, <1>4, <1>5, <1>6, <1>7, <1>8 DEF Next

\* Cache and table name the same peers in every state of a node that is up,
\* but for pruned peers that a failed reload leaves listed.
THEOREM CacheCoherentHolds == Spec => []CacheCoherent
<1>1. Init => CacheCoherent
  BY EmptyListing DEF Init, CacheCoherent, Nobody
<1>2. QED BY <1>1, CoherentStep, TypeCorrect, PTL DEF Spec

-----------------------------------------------------------------------------
(* Silence.                                                                *)

\* Where a prune of this run was the last to work, no online row is older than
\* max_age plus the time since.
SilentRows ==
  swept => /\ up
           /\ \A g \in Groups : \A p \in online[g] : age[g][p] <= MaxAge + sincePrune

\* The prune leaves only rows within max_age, an announcement makes rows
\* younger, and a tick adds to both sides alike.
LEMMA SilenceStep == TypeOK /\ SilentRows /\ [Next]_vars => SilentRows'
<1> SUFFICES ASSUME TypeOK, SilentRows, [Next]_vars, swept'
             PROVE  /\ up'
                    /\ \A g \in Groups : \A p \in online'[g] : age'[g][p] <= MaxAge + sincePrune'
  BY DEF SilentRows
<1> DEFINE Goal == /\ up'
                   /\ \A g \in Groups : \A p \in online'[g] : age'[g][p] <= MaxAge + sincePrune'
<1>t. /\ TypeOK' /\ MaxAge \in Nat /\ PruneEvery \in Nat /\ sincePrune \in Nat
      /\ \A g \in Groups, q \in Peers : age[g][q] \in Nat
  <2>1. AgeCap \in Nat
    BY TimeAssumption DEF AgeCap
  <2>2. QED BY <2>1, TypeStep, TimeAssumption DEF TypeOK
<1>p. \A g \in Groups : online'[g] \subseteq Peers /\ online[g] \subseteq Peers
  BY <1>t DEF TypeOK
<1>c. swept => /\ up
               /\ \A g \in Groups : \A q \in online[g] : age[g][q] <= MaxAge + sincePrune
  BY DEF SilentRows
<1>s. ASSUME UNCHANGED <<up, online, age, sincePrune, swept>> PROVE Goal
  BY <1>c, <1>s
<1>u. CASE UNCHANGED vars
  BY <1>u, <1>s DEF vars, tableVars, timeVars
<1>1. ASSUME NEW q \in Peers, NeighborDown(q) PROVE Goal
  <2>1. \A g \in Groups : \A p \in online'[g] : p \in online[g] /\ age'[g][p] = age[g][p]
    BY <1>1, OfflineBoth DEF NeighborDown
  <2>2. up' /\ swept /\ sincePrune' = sincePrune
    BY <1>1 DEF NeighborDown, timeVars
  <2>3. QED BY <1>c, <2>1, <2>2
<1>2. ASSUME NEW q \in Peers, NEW gs \in SUBSET Groups, GroupsExchange(q, gs) PROVE Goal
  <2>1. PICK upserted \in SUBSET Groups : Upsert(q, upserted)
    BY <1>2 DEF GroupsExchange, Succeeding
  <2>2. up' /\ swept /\ sincePrune' = sincePrune
    BY <1>2 DEF GroupsExchange, timeVars
  <2>3. ASSUME NEW g \in Groups, NEW p \in online'[g] PROVE age'[g][p] <= MaxAge + sincePrune
    <3>1. /\ p \in online[g] \cup In(q, g, upserted)
          /\ age'[g][p] = IF p \in In(q, g, upserted) THEN 0 ELSE age[g][p]
      BY <1>p, <2>1, UpsertBoth
    <3>2. QED BY <1>t, <1>c, <2>2, <3>1
  <2>4. QED BY <2>2, <2>3
<1>3. CASE \E h \in Groups, m \in Messages : GroupMessage(h, m)
  BY <1>3, <1>s DEF GroupMessage, tableVars, timeVars
<1>4. CASE AnnounceTick
  BY <1>4, <1>s DEF AnnounceTick, tableVars, timeVars
<1>5. CASE PruneTick
  <2>1. /\ online' = [g \in Groups |-> online[g] \ Expired(g)] /\ age' = AgesOf(online', age)
        /\ sincePrune' = 0 /\ up'
    BY <1>5 DEF PruneTick
  <2>2. ASSUME NEW g \in Groups, NEW p \in online'[g] PROVE age'[g][p] <= MaxAge
    <3>1. age'[g][p] = age[g][p] /\ p \notin Expired(g) /\ p \in online[g]
      BY <1>p, <2>1 DEF AgesOf
    <3>2. QED BY <1>t, <1>p, <3>1 DEF Expired
  <2>3. QED BY <1>t, <2>1, <2>2
<1>6. CASE Crash
  BY <1>6 DEF Crash
<1>7. CASE Restart
  BY <1>7, <1>c DEF Restart, timeVars
<1>8. CASE Tick
  <2>1. /\ up' /\ swept /\ online' = online /\ sincePrune' = sincePrune + 1
        /\ \A g \in Groups, p \in Peers :
             age'[g][p] = IF p \in online[g] /\ age[g][p] < AgeCap THEN age[g][p] + 1
                          ELSE age[g][p]
    BY <1>8, <1>c DEF Tick
  <2>2. ASSUME NEW g \in Groups, NEW p \in online'[g] PROVE age'[g][p] <= MaxAge + sincePrune'
    <3>1. p \in Peers /\ p \in online[g]
      BY <1>p, <2>1
    <3>2. age[g][p] \in Nat /\ age[g][p] <= MaxAge + sincePrune
      BY <1>t, <1>c, <2>1, <3>1
    <3>3. age'[g][p] = age[g][p] \/ age'[g][p] = age[g][p] + 1
      BY <2>1, <3>1
    <3>4. QED BY <1>t, <2>1, <3>2, <3>3
  <2>3. QED BY <2>1, <2>2
<1>9. QED BY <1>u, <1>1, <1>2, <1>3, <1>4, <1>5, <1>6, <1>7, <1>8 DEF Next

\* Once a prune of this run has worked, nobody listed has been silent for more
\* than max_age plus the time since: listed peers are online rows, for the cache
\* is coherent.
THEOREM SilenceIsBoundedHolds == Spec => []SilenceIsBounded
<1>1. Init => SilentRows
  BY DEF Init, SilentRows
<1>2. SilentRows /\ CacheCoherent => SilenceIsBounded
  BY DEF SilentRows, CacheCoherent, SilenceIsBounded
<1>3. QED BY <1>1, <1>2, SilenceStep, TypeCorrect, CacheCoherentHolds, PTL DEF Spec

\* A peer heard within max_age has an online row, and its last_seen is no
\* older than that.
FreshRows ==
  \A g \in Groups, p \in Peers :
    quiet[g][p] <= MaxAge => p \in online[g] /\ age[g][p] <= quiet[g][p]

\* An announcement makes the row as young as the history, a prune passes over
\* it, time adds no more to the row than to the history.
LEMMA FreshStep == TypeOK /\ FreshRows /\ [Next]_vars => FreshRows'
<1> SUFFICES ASSUME TypeOK, FreshRows, [Next]_vars, NEW g \in Groups, NEW p \in Peers,
                    quiet'[g][p] <= MaxAge
             PROVE  p \in online'[g] /\ age'[g][p] <= quiet'[g][p]
  BY DEF FreshRows
<1> DEFINE Goal == p \in online'[g] /\ age'[g][p] <= quiet'[g][p]
<1>t. MaxAge \in Nat /\ age[g][p] \in Nat /\ quiet[g][p] \in Nat /\ MaxAge < MaxAge + 1
  BY TimeAssumption DEF TypeOK, AgeCap
<1>c. quiet[g][p] <= MaxAge => p \in online[g] /\ age[g][p] <= quiet[g][p]
  BY DEF FreshRows
<1>s. ASSUME UNCHANGED <<online, age, quiet>> PROVE Goal
  BY <1>c, <1>s
<1>u. CASE UNCHANGED vars
  BY <1>u, <1>s DEF vars, tableVars
<1>b. 0 \in 0..(MaxAge + 1) /\ MaxAge + 1 \in 0..(MaxAge + 1)
  BY <1>t
<1>1. ASSUME NEW q \in Peers, NeighborDown(q) PROVE Goal
  <2>1. MarkOffline(q) /\ Quiet(q, Groups, MaxAge + 1)
    BY <1>1 DEF NeighborDown
  <2>2. quiet'[g][p] = IF p = q THEN MaxAge + 1 ELSE quiet[g][p]
    BY <1>b, <2>1, QuietType
  <2>3. p # q /\ quiet'[g][p] = quiet[g][p]
    BY <1>t, <2>2
  <2>4. /\ online'[g] = online[g] \ {q}
        /\ \A k \in online'[g] : age'[g][k] = age[g][k]
    BY <2>1, OfflineBoth
  <2>5. QED BY <1>c, <2>3, <2>4
<1>2. ASSUME NEW q \in Peers, NEW gs \in SUBSET Groups, GroupsExchange(q, gs) PROVE Goal
  <2>1. PICK upserted \in SUBSET Groups : Upsert(q, upserted) /\ Quiet(q, upserted, 0)
    BY <1>2 DEF GroupsExchange, Succeeding
  <2>2. quiet'[g][p] = IF p = q /\ g \in upserted THEN 0 ELSE quiet[g][p]
    BY <1>b, <2>1, QuietType
  <2>3. /\ online'[g] = online[g] \cup In(q, g, upserted)
        /\ age'[g][p] = IF p \in In(q, g, upserted) THEN 0 ELSE age[g][p]
    BY <2>1, UpsertBoth
  <2>4. p \in In(q, g, upserted) <=> p = q /\ g \in upserted
    BY DEF In
  <2>5. CASE p = q /\ g \in upserted
    BY <2>2, <2>3, <2>4, <2>5
  <2>6. CASE ~(p = q /\ g \in upserted)
    BY <1>c, <2>2, <2>3, <2>4, <2>6
  <2>7. QED BY <2>5, <2>6
<1>3. CASE \E h \in Groups, m \in Messages : GroupMessage(h, m)
  BY <1>3, <1>s DEF GroupMessage, tableVars
<1>4. CASE AnnounceTick \/ Crash \/ Restart
  BY <1>4, <1>s DEF AnnounceTick, Crash, Restart, tableVars
<1>5. CASE PruneTick
  <2>1. CASE UNCHANGED <<online, age>>
    BY <1>5, <1>s, <2>1 DEF PruneTick
  <2>2. CASE online' = [h \in Groups |-> online[h] \ Expired(h)] /\ age' = AgesOf(online', age)
    <3>1. quiet' = quiet
      BY <1>5 DEF PruneTick
    <3>2. p \in online[g] /\ age[g][p] <= quiet[g][p] /\ quiet[g][p] <= MaxAge
      BY <1>c, <3>1
    <3>3. p \notin Expired(g)
      BY <1>t, <3>2 DEF Expired
    <3>4. p \in online'[g]
      BY <2>2, <3>2, <3>3
    <3>5. age'[g][p] = age[g][p]
      BY <2>2, <3>4 DEF AgesOf
    <3>6. QED BY <3>1, <3>2, <3>4, <3>5
  <2>3. QED BY <1>5, <2>1, <2>2 DEF PruneTick
<1>6. CASE Tick
  <2>1. /\ online' = online
        /\ age'[g][p] = IF p \in online[g] /\ age[g][p] < AgeCap THEN age[g][p] + 1
                        ELSE age[g][p]
        /\ quiet'[g][p] = IF quiet[g][p] <= MaxAge THEN quiet[g][p] + 1 ELSE quiet[g][p]
    BY <1>6 DEF Tick
  <2>2. quiet[g][p] <= MaxAge /\ quiet'[g][p] = quiet[g][p] + 1
    BY <2>1
  <2>3. age'[g][p] <= age[g][p] + 1
    BY <1>t, <2>1
  <2>4. age'[g][p] \in Nat
    BY <1>t, <2>1
  <2>5. QED BY <1>c, <1>t, <2>1, <2>2, <2>3, <2>4
<1>7. QED BY <1>u, <1>1, <1>2, <1>3, <1>4, <1>5, <1>6 DEF Next

\* A live peer is never dropped: one heard within max_age, whose link was not
\* lost since, is listed, whatever is pruned, fails to reload or restarts, for
\* its row is online and the cache names every online row.
THEOREM LiveStaysListedHolds == Spec => []LiveStaysListed
<1>1. Init => FreshRows
  BY TimeAssumption DEF Init, FreshRows
<1>2. FreshRows /\ CacheCoherent => LiveStaysListed
  BY DEF FreshRows, CacheCoherent, LiveStaysListed
<1>3. QED BY <1>1, <1>2, FreshStep, TypeCorrect, CacheCoherentHolds, PTL DEF Spec

-----------------------------------------------------------------------------
(* Introductions.                                                          *)

\* The step that lists a peer beside others broadcasts the whole list: every
\* announcement reads the list after upsert_peer, and no reload of the cache by
\* a prune lists anybody, for whom the table has online was listed before.
THEOREM NewcomerIntroducedHolds == Spec => NewcomerIntroduced
<1>1. ASSUME TypeOK, CacheCoherent, [Next]_vars, NEW g \in Groups, up,
             NEW q \in Range(cache'[g]) \ Range(cache[g]), Len(cache'[g]) > 1
      PROVE  <<g, cache'[g]>> \in intros'
  <2>u. cache' # cache
    OBVIOUS
  <2>1. ASSUME NEW p \in Peers, NEW gs \in SUBSET Groups, GroupsExchange(p, gs)
        PROVE  <<g, cache'[g]>> \in intros'
    <3>1. PICK upserted \in SUBSET Groups :
            Upsert(p, upserted) /\ intros' = Introductions(upserted, cache')
      BY <2>1 DEF GroupsExchange, Succeeding
    <3>2. g \in upserted
      BY <3>1 DEF Upsert
    <3>3. QED BY <1>1, <3>1, <3>2 DEF Introductions
  <2>2. ASSUME NEW p \in Peers, NeighborDown(p) PROVE FALSE
    BY <1>1, <2>2, OfflineBoth DEF NeighborDown
  <2>3. CASE PruneTick
    <3>1. LoadCache /\ online' = [h \in Groups |-> online[h] \ Expired(h)]
      BY <2>3, <2>u DEF PruneTick
    <3>2. q \in online[g]
      BY <3>1 DEF LoadCache
    <3>3. QED BY <1>1, <3>2 DEF CacheCoherent
  <2>4. CASE Crash
    BY <2>4, EmptyListing DEF Crash
  <2>5. CASE Restart
    BY <1>1, <2>5 DEF Restart
  <2>6. CASE UNCHANGED cache
    BY <2>6, <2>u
  <2>7. QED
    BY <1>1, <2>1, <2>2, <2>3, <2>4, <2>5, <2>6 DEF Next, vars, GroupMessage, AnnounceTick, Tick
<1>2. TypeOK /\ CacheCoherent /\ [Next]_vars =>
        [\A g \in Groups :
           (up /\ Range(cache'[g]) \ Range(cache[g]) # {} /\ Len(cache'[g]) > 1)
             => <<g, cache'[g]>> \in intros']_vars
  BY <1>1
<1>3. QED BY <1>2, TypeCorrect, CacheCoherentHolds, PTL DEF Spec, NewcomerIntroduced
=============================================================================
