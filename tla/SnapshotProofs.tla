---------------------------- MODULE SnapshotProofs ----------------------------
(***************************************************************************)
(* Proofs about Snapshot, for every set of items of whatever kinds, every  *)
(* ring size, period and clock, any number of downloads at a time and      *)
(* every combination of faults.                                            *)
(***************************************************************************)
EXTENDS Snapshot, FiniteSetTheorems, SequenceTheorems, TLAPS

-----------------------------------------------------------------------------
(* The snapshot an event makes.                                            *)

\* The ring after one more chat: it is longer by one or else its head is gone,
\* and the rest stays as far from the end as one more chat puts it.
LEMMA RingedIs ==
  ASSUME NEW s \in Seq(Items), NEW i \in Items
  PROVE  /\ Ringed(s, i) \in Seq(Items)
         /\ Len(s) \in Nat
         /\ Len(Ringed(s, i)) = IF Len(s) >= MaxChats THEN Len(s) ELSE Len(s) + 1
         /\ Ringed(s, i)[Len(Ringed(s, i))] = i
         /\ \A j \in Nat : 1 <= j /\ j < Len(Ringed(s, i)) =>
              Ringed(s, i)[Len(Ringed(s, i)) - j] = s[Len(s) - (j - 1)]
<1> DEFINE r == Ringed(s, i)
           n == Len(s)
<1>n. n \in Nat /\ MaxChats \in Nat \ {0}
  BY LenProperties, RingAssumption
<1>1. CASE n >= MaxChats
  <2> DEFINE t == Tail(s)
  <2>1. s # <<>>
    <3>1. SUFFICES ASSUME s = <<>> PROVE FALSE
      OBVIOUS
    <3>2. n = 0
      BY <3>1
    <3>3. QED BY <1>n, <1>1, <3>2
  <2>2. t \in Seq(Items) /\ Len(t) = n - 1 /\ \A k \in 1..(n - 1) : t[k] = s[k + 1]
    BY <2>1, HeadTailProperties
  <2> HIDE DEF t
  <2>3. /\ Append(t, i) \in Seq(Items) /\ Len(Append(t, i)) = Len(t) + 1
        /\ \A k \in 1..Len(t) : Append(t, i)[k] = t[k]
        /\ Append(t, i)[Len(t) + 1] = i
    BY <2>2, AppendProperties
  <2>4. r = Append(t, i)
    BY <1>1 DEF Ringed, t
  <2> HIDE DEF r, n
  <2>5. Len(t) + 1 = n
    BY <1>n, <2>2
  <2>6. r \in Seq(Items) /\ Len(r) = n /\ r[n] = i
    BY <2>3, <2>4, <2>5
  <2>7. ASSUME NEW j \in Nat, 1 <= j, j < n PROVE r[n - j] = s[n - (j - 1)]
    <3>1. n - j \in 1..(n - 1) /\ n - j + 1 = n - (j - 1)
      BY <1>n, <2>7
    <3>2. r[n - j] = t[n - j]
      BY <2>2, <2>3, <2>4, <3>1
    <3>3. t[n - j] = s[n - j + 1]
      BY <2>2, <3>1
    <3>4. QED BY <3>1, <3>2, <3>3
  <2> USE DEF r, n
  <2>8. QED BY <1>n, <1>1, <2>6, <2>7
<1>2. CASE ~(n >= MaxChats)
  <2>1. r = Append(s, i)
    BY <1>2 DEF Ringed
  <2>2. /\ r \in Seq(Items) /\ Len(r) = n + 1
        /\ \A k \in 1..n : r[k] = s[k]
        /\ r[n + 1] = i
    BY <2>1, AppendProperties
  <2> HIDE DEF r, n
  <2>3. ASSUME NEW j \in Nat, 1 <= j, j < n + 1 PROVE r[n + 1 - j] = s[n - (j - 1)]
    <3>1. n + 1 - j \in 1..n /\ n + 1 - j = n - (j - 1)
      BY <1>n, <2>3
    <3>2. QED BY <2>2, <3>1
  <2> USE DEF r, n
  <2>4. QED BY <1>n, <1>2, <2>2, <2>3
<1>3. QED BY <1>1, <1>2

\* A list that names nothing twice still does not after an item that may be
\* listed already, and is no shorter.
LEMMA WithItemIs ==
  ASSUME NEW s \in Seq(Items), IsInjective(s), NEW i \in Items
  PROVE  /\ WithItem(s, i) \in Seq(Items) /\ IsInjective(WithItem(s, i))
         /\ Len(s) \in Nat /\ Len(WithItem(s, i)) \in Nat /\ Len(WithItem(s, i)) >= Len(s)
<1>n. Len(s) \in Nat /\ DOMAIN s = 1..Len(s)
  BY LenProperties
<1>1. CASE i \in Range(s)
  BY <1>n, <1>1 DEF WithItem
<1>2. CASE i \notin Range(s)
  <2> DEFINE t == Append(s, i)
  <2>1. /\ t \in Seq(Items) /\ Len(t) = Len(s) + 1
        /\ \A k \in 1..Len(s) : t[k] = s[k]
        /\ t[Len(s) + 1] = i
    BY AppendProperties
  <2>2. DOMAIN t = 1..(Len(s) + 1)
    BY <2>1, LenProperties
  <2>3. WithItem(s, i) = t
    BY <1>2 DEF WithItem
  <2> HIDE DEF t
  <2>4. \A k \in 1..Len(s) : s[k] # i
    BY <1>n, <1>2 DEF Range
  <2>5. \A k \in 1..(Len(s) + 1) : k \in 1..Len(s) \/ k = Len(s) + 1
    BY <1>n
  <2>6. IsInjective(t)
    BY <1>n, <2>1, <2>2, <2>4, <2>5 DEF IsInjective
  <2>7. QED BY <1>n, <2>1, <2>3, <2>6
<1>3. QED BY <1>1, <1>2

\* A snapshot, with nothing listed twice and a ring of the right size.
Sound(s) == s \in Snapshots /\ IsInjective(s.listed) /\ Len(s.chats) <= MaxChats

\* The provider starts from a sound snapshot.
LEMMA EmptyIsSound == Sound(Empty)
<1>1. 0 \in Stamps
  BY ClockAssumption DEF Stamps
<1>2. Empty \in Snapshots
  BY <1>1 DEF Empty, Snapshots
<1>3. QED BY <1>2, RingAssumption DEF Sound, Empty, IsInjective

\* The items of a snapshot can be counted.
LEMMA CountIs ==
  ASSUME NEW s \in Snapshots
  PROVE  /\ Count(s) \in Nat /\ Len(s.listed) \in Nat /\ Len(s.chats) \in Nat
         /\ Count(s) = 1 + Len(s.listed) + Len(s.chats)
<1>1. Count(s) = 1 + Len(s.listed) + Len(s.chats)
  BY DEF Count
<1>2. s.listed \in Seq(Items) /\ s.chats \in Seq(Items)
  BY DEF Snapshots
<1>3. Len(s.listed) \in Nat /\ Len(s.chats) \in Nat
  BY <1>2, LenProperties
<1> DEFINE a == Len(s.listed)
           b == Len(s.chats)
<1>4. a \in Nat /\ b \in Nat => 1 + a + b \in Nat
  <2> HIDE DEF a, b
  <2>1. QED OBVIOUS
<1>5. QED BY <1>1, <1>3, <1>4

\* An event of whatever kind makes a sound snapshot of a sound one, and no
\* list in it gets shorter.
LEMMA UpdatedIs ==
  ASSUME NEW s, Sound(s), NEW i \in Items, stamp[i] \in Stamps
  PROVE  /\ Sound(Updated(s, i))
         /\ Count(s) \in Nat /\ Count(Updated(s, i)) \in Nat
         /\ Count(Updated(s, i)) >= Count(s)
<1> DEFINE u == Updated(s, i)
<1>s. /\ s \in Snapshots /\ s.group \in Items \cup {None}
      /\ s.listed \in Seq(Items) /\ s.chats \in Seq(Items)
      /\ IsInjective(s.listed) /\ Len(s.chats) <= MaxChats /\ MaxChats \in Nat
      /\ Len(s.listed) \in Nat /\ Len(s.chats) \in Nat
  BY RingAssumption, LenProperties DEF Sound, Snapshots
<1>1. /\ u.listed \in Seq(Items) /\ IsInjective(u.listed) /\ Len(u.listed) \in Nat
      /\ Len(u.listed) >= Len(s.listed)
  <2>1. u.listed = IF Kind[i] = "listed" THEN WithItem(s.listed, i) ELSE s.listed
    BY DEF Updated
  <2> HIDE DEF u
  <2>2. QED BY <1>s, <2>1, WithItemIs
<1>2. /\ u.chats \in Seq(Items) /\ Len(u.chats) \in Nat /\ Len(u.chats) <= MaxChats
      /\ Len(u.chats) >= Len(s.chats)
  <2>1. u.chats = IF Kind[i] = "chat" THEN Ringed(s.chats, i) ELSE s.chats
    BY DEF Updated
  <2> HIDE DEF u
  <2>2. CASE Kind[i] = "chat"
    <3> DEFINE c == s.chats
    <3>c. c \in Seq(Items)
      BY <1>s
    <3>u. u.chats = Ringed(c, i)
      BY <2>1, <2>2
    <3> HIDE DEF c
    <3>r. /\ u.chats \in Seq(Items)
          /\ Len(u.chats) = IF Len(c) >= MaxChats THEN Len(c) ELSE Len(c) + 1
      BY <3>c, <3>u, RingedIs
    <3>1. /\ u.chats \in Seq(Items)
          /\ Len(u.chats) = IF Len(s.chats) >= MaxChats THEN Len(s.chats) ELSE Len(s.chats) + 1
      BY <3>r DEF c
    <3>2. QED BY <1>s, <3>1
  <2>3. CASE Kind[i] # "chat"
    BY <1>s, <2>1, <2>3
  <2>4. QED BY <2>2, <2>3
<1>3. u \in Snapshots
  BY <1>s, <1>1, <1>2 DEF Snapshots, Updated
<1>4. Count(s) \in Nat /\ Count(u) \in Nat /\ Count(u) >= Count(s)
  <2> HIDE DEF u
  <2> DEFINE a == Len(s.listed)
             b == Len(s.chats)
             x == Len(u.listed)
             y == Len(u.chats)
  <2>1. /\ Count(s) = 1 + a + b /\ Count(u) = 1 + x + y
        /\ Count(s) \in Nat /\ Count(u) \in Nat
    BY <1>s, <1>3, CountIs
  <2>2. a \in Nat /\ b \in Nat /\ x \in Nat /\ y \in Nat /\ x >= a /\ y >= b
    BY <1>s, <1>1, <1>2
  <2> HIDE DEF a, b, x, y
  <2>3. 1 + x + y >= 1 + a + b
    BY <2>2
  <2>4. QED BY <2>1, <2>3
<1>5. QED BY <1>1, <1>2, <1>3, <1>4 DEF Sound

-----------------------------------------------------------------------------
(* Types.                                                                  *)

\* What the requester got is a snapshot.
LEMMA SnapshotType ==
  ASSUME TypeOK
  PROVE  /\ snap # None => Sound(snap)
         /\ \A d \in Downloads : conn[d] = "answered" => wire[d] \in Snapshots
  BY DEF TypeOK, Sound

\* There is nothing at the start.
LEMMA TypeInit == Init => TypeOK
<1>1. 0 \in 0..MaxTime
  BY ClockAssumption
<1>2. QED BY <1>1, EmptySeq DEF Init, TypeOK

\* Every step keeps the types, and the provider's snapshot sound.
LEMMA TypeStep == TypeOK /\ [Next]_vars => TypeOK'
<1> SUFFICES ASSUME TypeOK, [Next]_vars PROVE TypeOK'
  OBVIOUS
<1> USE DEF providerVars, requesterVars
<1>c. clock \in 0..MaxTime /\ \A skew \in 0..MaxSkew : clock + skew \in Stamps
  BY ClockAssumption DEF TypeOK, Stamps
<1>u. CASE UNCHANGED vars
  BY <1>u DEF TypeOK, vars
<1>1. ASSUME NEW i \in Items, Create(i) PROVE TypeOK'
  <2>1. stamp' \in [Items -> Stamps \cup {None}]
    BY <1>1, <1>c DEF Create, TypeOK
  <2>2. QED BY <1>1, <2>1 DEF Create, TypeOK
<1>2. ASSUME NEW i \in Items, UpdateFromEvent(i) PROVE TypeOK'
  <2>1. stamp[i] \in Stamps
    BY <1>2 DEF UpdateFromEvent, TypeOK
  <2>2. Sound(IF snap = None THEN Empty ELSE snap)
    BY SnapshotType, EmptyIsSound
  <2>3. Sound(snap')
    BY <1>2, <2>1, <2>2, UpdatedIs DEF UpdateFromEvent
  <2>4. arrived' \in Seq(Items)
    BY <1>2, AppendProperties DEF UpdateFromEvent, TypeOK
  <2>5. QED BY <1>2, <2>3, <2>4 DEF UpdateFromEvent, TypeOK, Sound
<1>3. CASE HandleRequest
  <2>1. Sound(snap)
    BY <1>3, SnapshotType DEF HandleRequest
  <2>2. Count(snap) \in Nat /\ snap.ts \in Stamps
    BY <2>1, CountIs DEF Sound, Snapshots
  <2>3. advert' \in [count : Nat, ts : Stamps]
    BY <1>3, <2>2 DEF HandleRequest
  <2>4. QED BY <1>3, <2>3 DEF HandleRequest, TypeOK
<1>4. ASSUME NEW d \in Downloads, Connect(d) PROVE TypeOK'
  BY <1>4 DEF Connect, TypeOK
<1>5. ASSUME NEW d \in Downloads, ServeSnapshot(d) PROVE TypeOK'
  BY <1>5 DEF ServeSnapshot, TypeOK
<1>6. ASSUME NEW d \in Downloads, Downloaded(d) PROVE TypeOK'
  <2>1. wire[d] \in Snapshots /\ wire[d].ts \in Stamps
    BY <1>6, SnapshotType DEF Downloaded, Snapshots
  <2>2. have' \in Snapshots /\ sync' \in Stamps /\ told' \in BOOLEAN
    BY <1>6, <1>c, <2>1 DEF Downloaded
  <2>3. QED BY <1>6, <2>2 DEF Downloaded, TypeOK
<1>7. ASSUME NEW d \in Downloads, Broken(d) PROVE TypeOK'
  BY <1>7 DEF Broken, TypeOK
<1>8. CASE ProviderRestart
  <2>1. arrived' \in Seq(Items) /\ snap' = None
    BY <1>8 DEF ProviderRestart
  <2>2. QED BY <1>8, <2>1 DEF ProviderRestart, TypeOK
<1>9. ASSUME NEW ts \in Marks, MarkSynced(ts) PROVE TypeOK'
  BY <1>9, MarkAssumption DEF MarkSynced, TypeOK
<1>10. CASE Tick
  <2>1. clock' \in 0..MaxTime
    BY <1>10, <1>c, ClockAssumption DEF Tick
  <2>2. QED BY <1>10, <2>1 DEF Tick, TypeOK
<1>11. QED
  BY <1>u, <1>1, <1>2, <1>3, <1>4, <1>5, <1>6, <1>7, <1>8, <1>9, <1>10 DEF Next

\* The types hold in every state: whatever events come in whatever order, and
\* as often, nothing is listed twice and the ring keeps to its size.
THEOREM TypeCorrect == Spec => []TypeOK
<1>1. QED BY TypeInit, TypeStep, PTL DEF Spec

-----------------------------------------------------------------------------
(* What the provider promises and what the requester believes.             *)

\* What was advertised can be served for as long as the provider runs: no
\* event takes an item out without putting one in.
THEOREM ServesWhatItAdvertisedHolds == Spec => []ServesWhatItAdvertised
<1>1. Init => ServesWhatItAdvertised
  BY DEF Init, ServesWhatItAdvertised
<1>2. TypeOK /\ ServesWhatItAdvertised /\ [Next]_vars => ServesWhatItAdvertised'
  <2> SUFFICES ASSUME TypeOK, ServesWhatItAdvertised, [Next]_vars, current', advert' # None
               PROVE  snap' # None /\ Count(snap') >= advert'.count
    BY DEF ServesWhatItAdvertised, Count
  <2> USE DEF providerVars, requesterVars
  <2>s. ASSUME UNCHANGED <<snap, advert, current>>
        PROVE  snap' # None /\ Count(snap') >= advert'.count
    BY <2>s DEF ServesWhatItAdvertised
  <2>1. ASSUME NEW i \in Items, UpdateFromEvent(i)
        PROVE  snap' # None /\ Count(snap') >= advert'.count
    <3>1. /\ snap # None /\ advert' = advert /\ Count(snap) >= advert.count
          /\ advert.count \in Nat
      BY <2>1 DEF UpdateFromEvent, ServesWhatItAdvertised, TypeOK
    <3>2. snap' = Updated(snap, i) /\ stamp[i] \in Stamps
      BY <2>1, <3>1 DEF UpdateFromEvent, TypeOK
    <3>3. /\ Sound(Updated(snap, i)) /\ Count(snap) \in Nat
          /\ Count(Updated(snap, i)) >= Count(snap)
      BY <3>1, <3>2, SnapshotType, UpdatedIs
    <3>4. Updated(snap, i) # None
      BY <3>3, NoneAssumption DEF Sound
    <3>5. Count(Updated(snap, i)) \in Nat
      BY <3>3, CountIs DEF Sound
    <3>6. Count(Updated(snap, i)) >= advert.count
      BY <3>1, <3>3, <3>5
    <3>7. QED BY <3>1, <3>2, <3>4, <3>6
  <2>2. CASE HandleRequest
    <3>1. snap' = snap /\ snap # None /\ advert'.count = Count(snap)
      BY <2>2 DEF HandleRequest
    <3>2. Count(snap) \in Nat
      BY <3>1, SnapshotType, CountIs DEF Sound
    <3>3. Count(snap) >= Count(snap)
      BY <3>2
    <3>4. QED BY <3>1, <3>3
  <2>3. CASE ProviderRestart
    BY <2>3 DEF ProviderRestart
  <2>4. CASE UNCHANGED vars
    BY <2>4, <2>s DEF vars
  <2>5. CASE \/ \E i \in Items : Create(i)
             \/ \E d \in Downloads : Connect(d) \/ ServeSnapshot(d) \/ Downloaded(d) \/ Broken(d)
             \/ (\E ts \in Marks : MarkSynced(ts)) \/ Tick
    BY <2>5, <2>s DEF Create, Connect, ServeSnapshot, Downloaded, Broken, MarkSynced, Tick
  <2>6. QED BY <2>1, <2>2, <2>3, <2>4, <2>5 DEF Next
<1>3. QED BY <1>1, <1>2, TypeCorrect, PTL DEF Spec

\* The time of the sync is that of the snapshot the requester holds, unless
\* the application has called mark_synced since, through overlapping and
\* broken downloads and restarts of the provider.
THEOREM SyncedByReceiptHolds == Spec => []SyncedByReceipt
<1>1. Init => SyncedByReceipt
  BY DEF Init, SyncedByReceipt
<1>2. TypeOK /\ SyncedByReceipt /\ [Next]_vars => SyncedByReceipt'
  <2> SUFFICES ASSUME TypeOK, SyncedByReceipt, [Next]_vars PROVE SyncedByReceipt'
    OBVIOUS
  <2> USE DEF providerVars, requesterVars
  <2>1. ASSUME NEW d \in Downloads, Downloaded(d) PROVE SyncedByReceipt'
    <3>1. wire[d] \in Snapshots /\ have' = wire[d]
      BY <2>1, SnapshotType DEF Downloaded
    <3>2. QED BY <2>1, <3>1, NoneAssumption DEF SyncedByReceipt, Downloaded
  <2>2. ASSUME NEW ts \in Marks, MarkSynced(ts) PROVE SyncedByReceipt'
    BY <2>2 DEF MarkSynced, SyncedByReceipt
  <2>3. CASE UNCHANGED <<have, sync, told>>
    BY <2>3 DEF SyncedByReceipt
  <2>4. QED
    BY <2>1, <2>2, <2>3
    DEF Next, vars, Create, UpdateFromEvent, HandleRequest, Connect, ServeSnapshot, Broken,
        ProviderRestart, Tick
<1>3. QED BY <1>1, <1>2, TypeCorrect, PTL DEF Spec

-----------------------------------------------------------------------------
(* The ring of recent chats.                                               *)

\* The positions of chats in a sequence of events are finitely many.
LEMMA ChatsInFinite ==
  ASSUME NEW evs \in Seq(Items)
  PROVE  /\ IsFiniteSet(ChatsIn(evs)) /\ Cardinality(ChatsIn(evs)) \in Nat
         /\ ChatsIn(evs) \subseteq 1..Len(evs) /\ Len(evs) \in Nat
<1>1. DOMAIN evs = 1..Len(evs) /\ Len(evs) \in Nat
  BY LenProperties
<1>2. IsFiniteSet(1..Len(evs))
  <2>1. 1 \in Int /\ Len(evs) \in Int
    BY <1>1
  <2>2. QED BY <2>1, FS_Interval
<1>3. ChatsIn(evs) \subseteq 1..Len(evs)
  BY <1>1 DEF ChatsIn
<1>4. IsFiniteSet(ChatsIn(evs))
  BY <1>2, <1>3, FS_Subset
<1>5. QED BY <1>1, <1>3, <1>4, FS_CardinalityType

\* One event more: a chat adds its position, the last one, and is one more
\* later chat to each before it.
LEMMA RingNext ==
  ASSUME NEW chats \in Seq(Items), NEW evs \in Seq(Items), NEW i \in Items,
         IsRingOf(chats, evs)
  PROVE  IsRingOf(IF Kind[i] = "chat" THEN Ringed(chats, i) ELSE chats, Append(evs, i))
<1> DEFINE more == Append(evs, i)
           n == Len(evs)
           all == ChatsIn(evs)
           Later(k) == {l \in all : l > k}
<1>1. /\ more \in Seq(Items) /\ Len(more) = n + 1 /\ n \in Nat
      /\ \A k \in 1..n : more[k] = evs[k]
      /\ more[n + 1] = i
  BY AppendProperties, LenProperties
<1>2. DOMAIN more = 1..(n + 1) /\ DOMAIN evs = 1..n
  BY <1>1, LenProperties
<1>3. IsFiniteSet(all) /\ Cardinality(all) \in Nat /\ all \subseteq 1..n
  BY ChatsInFinite
<1>4. /\ Len(chats) = IF Cardinality(all) < MaxChats THEN Cardinality(all) ELSE MaxChats
      /\ \A k \in all : Cardinality(Later(k)) < MaxChats
                          => chats[Len(chats) - Cardinality(Later(k))] = evs[k]
      /\ Len(chats) \in Nat /\ MaxChats \in Nat \ {0}
  BY LenProperties, RingAssumption DEF IsRingOf
<1>5. \A k : IsFiniteSet(Later(k)) /\ Cardinality(Later(k)) \in Nat
  <2>1. ASSUME NEW k PROVE IsFiniteSet(Later(k)) /\ Cardinality(Later(k)) \in Nat
    <3>1. Later(k) \subseteq all
      OBVIOUS
    <3> HIDE DEF Later, all
    <3>2. QED BY <1>3, <3>1, FS_Subset, FS_CardinalityType
  <2>2. QED BY <2>1
<1>6. CASE Kind[i] # "chat"
  <2>1. ChatsIn(more) = all
    <3>1. \A k \in 1..(n + 1) : k \in 1..n \/ k = n + 1
      BY <1>1
    <3>2. \A k \in 1..n : k \in 1..(n + 1)
      BY <1>1
    <3> HIDE DEF more, n
    <3>3. QED BY <1>1, <1>2, <1>6, <3>1, <3>2 DEF ChatsIn
  <2>2. \A k \in all : more[k] = evs[k]
    BY <1>1, <1>3
  <2> HIDE DEF more, n, all
  <2>3. IsRingOf(chats, more)
    BY <1>4, <2>1, <2>2 DEF IsRingOf
  <2>4. QED BY <1>6, <2>3 DEF more
<1>7. CASE Kind[i] = "chat"
  <2> DEFINE ring == Ringed(chats, i)
             m == Len(chats)
  <2>1. ChatsIn(more) = all \cup {n + 1}
    <3>1. \A k \in 1..(n + 1) : k \in 1..n \/ k = n + 1
      BY <1>1
    <3>2. n + 1 \in 1..(n + 1) /\ \A k \in 1..n : k \in 1..(n + 1)
      BY <1>1
    <3> HIDE DEF more, n
    <3>3. QED BY <1>1, <1>2, <1>7, <3>1, <3>2 DEF ChatsIn
  <2>2. n + 1 \notin all
    BY <1>1, <1>3
  <2>3. /\ ring \in Seq(Items)
        /\ Len(ring) = IF m >= MaxChats THEN m ELSE m + 1
        /\ ring[Len(ring)] = i
        /\ \A j \in Nat : 1 <= j /\ j < Len(ring) => ring[Len(ring) - j] = chats[m - (j - 1)]
    BY RingedIs
  <2> DEFINE More(k) == {l \in all \cup {n + 1} : l > k}
  <2>4. More(n + 1) = {}
    BY <1>1, <1>3
  <2>5. \A k \in all : More(k) = Later(k) \cup {n + 1} /\ n + 1 \notin Later(k)
    BY <1>1, <1>3, <2>2
  <2>6. \A k \in all : Cardinality(More(k)) = Cardinality(Later(k)) + 1
    <3> HIDE DEF More, Later, all, n
    <3>1. QED BY <1>5, <2>5, FS_AddElement
  <2>7. Cardinality(all \cup {n + 1}) = Cardinality(all) + 1
    <3> HIDE DEF all, n
    <3>1. QED BY <1>3, <2>2, FS_AddElement
  <2>8. Cardinality(More(n + 1)) = 0
    BY <2>4, FS_EmptySet
  <2>9. m \in Nat /\ (m = IF Cardinality(all) < MaxChats THEN Cardinality(all) ELSE MaxChats)
    BY <1>4
  <2>10. /\ more[n + 1] = i /\ \A k \in all : more[k] = evs[k]
    BY <1>1, <1>3
  <2>11. \A k \in all : Cardinality(Later(k)) \in Nat /\
           (Cardinality(Later(k)) < MaxChats => chats[m - Cardinality(Later(k))] = evs[k])
    BY <1>4, <1>5
  <2> DEFINE goal == Cardinality(all) + 1
  <2> HIDE DEF more, n, all, ring, m, More, Later
  <2>12. Len(ring) = IF goal < MaxChats THEN goal ELSE MaxChats
    BY <1>3, <1>4, <2>3, <2>9
  <2>13. Len(ring) \in Nat /\ Len(ring) >= 1
    BY <1>3, <1>4, <2>3, <2>9
  <2>14. Cardinality(More(n + 1)) < MaxChats =>
           ring[Len(ring) - Cardinality(More(n + 1))] = more[n + 1]
    <3>1. Len(ring) - 0 = Len(ring)
      BY <2>13
    <3>2. QED BY <2>3, <2>8, <2>10, <3>1
  <2>15. ASSUME NEW k \in all, Cardinality(More(k)) < MaxChats
         PROVE  ring[Len(ring) - Cardinality(More(k))] = more[k]
    <3> DEFINE c == Cardinality(Later(k))
    <3>1. c \in Nat /\ Cardinality(More(k)) = c + 1
      BY <2>6, <2>11
    <3>2. chats[m - c] = evs[k]
      BY <1>4, <2>11, <2>15, <3>1
    <3>3. c + 1 <= Cardinality(all)
      <4>1. Later(k) \subseteq all /\ k \notin Later(k)
        BY <1>3 DEF Later, all
      <4>2. Cardinality(Later(k) \cup {k}) = c + 1
        BY <1>5, <4>1, FS_AddElement
      <4>3. Later(k) \cup {k} \in SUBSET all
        BY <2>15, <4>1
      <4>4. Cardinality(Later(k) \cup {k}) <= Cardinality(all)
        BY <1>3, <4>3, FS_Subset
      <4>5. QED BY <4>2, <4>4
    <3> HIDE DEF c
    <3>4. c + 1 \in Nat /\ 1 <= c + 1 /\ c + 1 < Len(ring) /\ (c + 1) - 1 = c
      BY <1>3, <1>4, <2>12, <2>15, <3>1, <3>3
    <3>5. ring[Len(ring) - (c + 1)] = chats[m - ((c + 1) - 1)]
      BY <2>3, <3>4
    <3>6. QED BY <2>10, <3>1, <3>2, <3>4, <3>5
  <2>16. IsRingOf(ring, more)
    <3>1. \A k \in ChatsIn(more) : k \in all \/ k = n + 1
      BY <2>1
    <3>2. Len(ring) = IF Cardinality(ChatsIn(more)) < MaxChats THEN Cardinality(ChatsIn(more))
                      ELSE MaxChats
      BY <2>1, <2>7, <2>12
    <3>3. \A k : {l \in ChatsIn(more) : l > k} = More(k)
      BY <2>1 DEF More
    <3>4. QED BY <2>14, <2>15, <3>1, <3>2, <3>3 DEF IsRingOf
  <2>17. QED BY <1>7, <2>16 DEF ring, more
<1>8. QED BY <1>6, <1>7

\* Without events there are no chats.
LEMMA EmptyRing == IsRingOf(<<>>, <<>>)
<1>1. ChatsIn(<<>>) = {} /\ Len(<<>>) = 0
  BY DEF ChatsIn
<1>2. Cardinality(ChatsIn(<<>>)) = 0
  BY <1>1, FS_EmptySet
<1>3. QED BY <1>1, <1>2, RingAssumption DEF IsRingOf

\* Where there is no snapshot no event has arrived: the provider's first
\* snapshot misses none.
FromTheStart == snap = None => arrived = <<>>

\* Whatever arrives in whatever order, the ring holds the chats that came last,
\* as they came.
THEOREM RingIsTheLatestHolds == Spec => []RingIsTheLatest
<1>1. Init => FromTheStart /\ RingIsTheLatest
  BY DEF Init, FromTheStart, RingIsTheLatest
<1>2. TypeOK /\ FromTheStart /\ RingIsTheLatest /\ [Next]_vars => (FromTheStart /\ RingIsTheLatest)'
  <2> SUFFICES ASSUME TypeOK, FromTheStart, RingIsTheLatest, [Next]_vars
               PROVE  (FromTheStart /\ RingIsTheLatest)'
    OBVIOUS
  <2> USE DEF providerVars, requesterVars
  <2>1. ASSUME NEW i \in Items, UpdateFromEvent(i) PROVE (FromTheStart /\ RingIsTheLatest)'
    <3> DEFINE from == IF snap = None THEN Empty ELSE snap
    <3>1. /\ snap' = Updated(from, i) /\ arrived' = Append(arrived, i)
          /\ stamp[i] \in Stamps /\ arrived \in Seq(Items)
      BY <2>1 DEF UpdateFromEvent, TypeOK
    <3>2. Sound(from)
      BY SnapshotType, EmptyIsSound
    <3>3. IsRingOf(from.chats, arrived)
      <4>1. CASE snap = None
        BY <4>1, EmptyRing DEF FromTheStart, Empty
      <4>2. CASE snap # None
        BY <4>2 DEF RingIsTheLatest
      <4>3. QED BY <4>1, <4>2
    <3> HIDE DEF from
    <3>4. snap' # None
      BY <3>1, <3>2, UpdatedIs, NoneAssumption DEF Sound
    <3>5. snap'.chats = IF Kind[i] = "chat" THEN Ringed(from.chats, i) ELSE from.chats
      BY <3>1 DEF Updated
    <3>6. IsRingOf(snap'.chats, arrived')
      <4>1. from.chats \in Seq(Items)
        BY <3>2 DEF Sound, Snapshots
      <4>2. QED BY <3>1, <3>3, <3>5, <4>1, RingNext
    <3>7. QED BY <3>4, <3>6 DEF FromTheStart, RingIsTheLatest, IsRingOf, ChatsIn
  <2>2. CASE ProviderRestart
    BY <2>2 DEF ProviderRestart, FromTheStart, RingIsTheLatest
  <2>3. CASE UNCHANGED <<snap, arrived>>
    BY <2>3 DEF FromTheStart, RingIsTheLatest, IsRingOf, ChatsIn
  <2>4. QED
    BY <2>1, <2>2, <2>3
    DEF Next, vars, Create, HandleRequest, Connect, ServeSnapshot, Downloaded, Broken,
        MarkSynced, Tick
<1>3. QED BY <1>1, <1>2, TypeCorrect, PTL DEF Spec
=============================================================================
