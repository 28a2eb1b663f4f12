----------------------------- MODULE Discovery ------------------------------
(***************************************************************************)
(* Peer discovery on one node (src/lib.rs): the PeerTracker, a SQLite table *)
(* of (group, peer) rows with an in-memory cache of the online ones, and   *)
(* the discovery task that feeds it from the discovery topic, subscribes   *)
(* to the topics of the announced groups and broadcasts introductions.     *)
(*                                                                         *)
(* Only the discovery task writes the tracker, so each arm of its select!  *)
(* is one action.  A crash inside an arm leaves the table as a crash after  *)
(* the same arm with fewer groups does, and nothing else survives.         *)
(*                                                                         *)
(* Time goes in units; a row keeps the age of its last_seen, which the code *)
(* only reads while the row is online.  Ages stop counting at AgeCap.      *)
(***************************************************************************)
EXTENDS Naturals, Sequences, SequencesExt

CONSTANTS
  Peers,       \* node ids announced in groups_exchange messages
  Keys,        \* those of them that parse as public keys
  Groups,      \* group ids
  Messages,    \* contents of group messages
  MaxAge,      \* prune_stale's max_age: 300 s
  PruneEvery,  \* prune_interval: 300 s
  MaxRelay,    \* bound: copies of one group message handed to the application
  Faults       \* the kinds of fault the environment may inject

\* The ids that are ever announced are finitely many.
ASSUME PeersAssumption == IsFiniteSet(Peers)
ASSUME KeyAssumption == Keys \subseteq Peers
ASSUME TimeAssumption == MaxAge \in Nat /\ PruneEvery \in Nat \ {0}
ASSUME RelayAssumption == MaxRelay \in Nat
ASSUME DiscoveryFaults == Faults \subseteq {"crash", "dbfail", "subfail"}

AgeCap == MaxAge + PruneEvery + 1

VARIABLES
  up,          \* the discovery task runs
  rows,        \* group_peers: the peers with a row, per group
  online,      \* group_peers: the peers whose row has is_online = 1
  age,         \* how long ago the last_seen of an online row was
  cache,       \* PeerTracker.cache: the listed peers, per group
  subs,        \* group_topic_senders: the groups with an open topic
  linked,      \* the peers each open group topic was told to connect to
  forwarders,  \* tasks that forward a group's messages to the application
  sincePrune,  \* time since the last prune tick
  intros,      \* peer_introductions broadcast by the last step
  relayed,     \* history: copies of each group message put on event_rx
  heard,       \* history: peers that announced each group since the start
  missed,      \* history: of those, the ones a failure kept from the topic
  stale,       \* history: a cache reload failed and none succeeded since
  quiet,       \* history: time since each peer last announced a group and its row
               \* was written; MaxAge + 1 when longer, or its link was lost since
  swept        \* history: a prune tick has run since the start, and the last did

tableVars == <<rows, online, age>>
topicVars == <<subs, linked, forwarders, heard, missed>>
timeVars  == <<sincePrune, swept>>
vars == <<up, tableVars, quiet, cache, topicVars, timeVars, intros, relayed, stale>>

\* A cached Vec: every peer once, in some order.
Listings == SetToAllKPermutations(Peers)

\* The types; a cached list names no peer twice, and only rows are online.
TypeOK ==
  /\ up \in BOOLEAN
  /\ rows \in [Groups -> SUBSET Peers]
  /\ online \in [Groups -> SUBSET Peers]
  /\ \A g \in Groups : online[g] \subseteq rows[g]
  /\ age \in [Groups -> [Peers -> 0..AgeCap]]
  /\ quiet \in [Groups -> [Peers -> 0..(MaxAge + 1)]]
  /\ cache \in [Groups -> Listings]
  /\ subs \subseteq Groups
  /\ linked \in [Groups -> SUBSET Peers]
  /\ forwarders \in [Groups -> Nat]
  /\ sincePrune \in 0..PruneEvery
  /\ intros \subseteq Groups \X Listings
  /\ relayed \in [Groups -> [Messages -> 0..MaxRelay]]
  /\ heard \in [Groups -> SUBSET Peers]
  /\ missed \in [Groups -> SUBSET Peers]
  /\ stale \in BOOLEAN
  /\ swept \in BOOLEAN

\* {p} for the groups of gs, the empty set for the others.
In(p, g, gs) == {q \in {p} : g \in gs}

Nobody == [g \in Groups |-> {}]

Init ==
  /\ up = TRUE
  /\ rows = Nobody
  /\ online = Nobody
  /\ age = [g \in Groups |-> [p \in Peers |-> 0]]
  /\ quiet = [g \in Groups |-> [p \in Peers |-> MaxAge + 1]]
  /\ cache = [g \in Groups |-> <<>>]
  /\ subs = {}
  /\ linked = Nobody
  /\ forwarders = [g \in Groups |-> 0]
  /\ sincePrune = PruneEvery
  /\ intros = {}
  /\ relayed = [g \in Groups |-> [m \in Messages |-> 0]]
  /\ heard = Nobody
  /\ missed = Nobody
  /\ stale = FALSE
  /\ swept = FALSE

-----------------------------------------------------------------------------
(* PeerTracker.                                                            *)

\* The ages of a table whose online rows are on: 0 where the row is offline.
AgesOf(on, ages) == [g \in Groups |-> [p \in Peers |-> IF p \in on[g] THEN ages[g][p] ELSE 0]]

\* MUTANT of LoadCache: the query has no WHERE is_online = 1.
LoadAllRows ==
  /\ cache' \in [Groups -> Listings]
  /\ \A g \in Groups : Range(cache'[g]) = rows[g]

\* load_cache: clear, then one entry per online row, in the order SQLite likes.
LoadCache ==
  /\ cache' \in [Groups -> Listings]
  /\ \A g \in Groups : Range(cache'[g]) = online'[g]

\* MUTANT of Listed: the contains test is dropped.
ListedTwice(peers, p) == Append(peers, p)

\* upsert_peer on the cached list of one group.
Listed(peers, p) == IF p \in Range(peers) THEN peers ELSE Append(peers, p)

\* MUTANT of Upsert: the row of a peer that has one keeps its last_seen.
UpsertKeepsLastSeen(p, gs) ==
  /\ rows' = [g \in Groups |-> rows[g] \cup In(p, g, gs)]
  /\ online' = [g \in Groups |-> online[g] \cup In(p, g, gs)]
  /\ UNCHANGED age
  /\ cache' = [g \in Groups |-> IF g \in gs THEN Listed(cache[g], p) ELSE cache[g]]

\* upsert_peer for every group of gs: row online, last_seen = now.
Upsert(p, gs) ==
  /\ rows' = [g \in Groups |-> rows[g] \cup In(p, g, gs)]
  /\ online' = [g \in Groups |-> online[g] \cup In(p, g, gs)]
  /\ age' = [g \in Groups |-> IF g \in gs THEN [age[g] EXCEPT ![p] = 0] ELSE age[g]]
  /\ cache' = [g \in Groups |-> IF g \in gs THEN Listed(cache[g], p) ELSE cache[g]]

\* mark_offline: every row of the peer, whatever the group; retain drops the
\* one place a list names it in.
MarkOffline(p) ==
  /\ online' = [g \in Groups |-> online[g] \ {p}]
  /\ age' = AgesOf(online', age)
  /\ cache' = [g \in Groups |-> RemoveFirst(cache[g], p)]
  /\ UNCHANGED rows

\* MUTANTS of Expired: the cutoff in milliseconds; `<=` for `<`.
ExpiredInMillis(g) == {p \in online[g] : age[g][p] > 1000 * MaxAge}
ExpiredTooEarly(g) == {p \in online[g] : age[g][p] >= MaxAge}

\* last_seen < now - max_age AND is_online = 1.
Expired(g) == {p \in online[g] : age[g][p] > MaxAge}

\* MUTANT of Introductions: `> 2` for `> 1`.
IntroductionsOfThree(gs, list) == {<<g, list[g]>> : g \in {h \in gs : Len(list[h]) > 2}}

\* peer_introduction_json for the groups of gs that list more than one peer.
Introductions(gs, list) == {<<g, list[g]>> : g \in {h \in gs : Len(list[h]) > 1}}

-----------------------------------------------------------------------------
(* The arms of the discovery task.                                         *)

\* The history of p in the groups of gs: now at t.
Quiet(p, gs, t) ==
  quiet' = [g \in Groups |-> IF g \in gs THEN [quiet[g] EXCEPT ![p] = t] ELSE quiet[g]]

\* Topic and forwarder of each group just subscribed to.
Opened(opened) ==
  /\ subs' = subs \cup opened
  /\ forwarders' = [g \in Groups |-> IF g \in opened THEN forwarders[g] + 1 ELSE forwarders[g]]

\* MUTANT of Topics: a peer is given to new topics only.
TopicsWithoutJoin(p, gs, opened, joined) ==
  LET reached == IF p \in Keys THEN opened \cup joined ELSE {} IN
  /\ Opened(opened)
  /\ linked' = [g \in Groups |-> linked[g] \cup In(p, g, reached \ joined)]
  /\ heard' = [g \in Groups |-> heard[g] \cup In(p, g, gs)]
  /\ missed' = [g \in Groups |-> (missed[g] \ In(p, g, reached)) \cup In(p, g, gs \ reached)]

\* p announces gs: the groups of opened are subscribed to with p as first peer,
\* to those of joined p is added, a group of gs in neither met an error.  An id
\* that is no key opens topics but links nobody.
Topics(p, gs, opened, joined) ==
  LET reached == IF p \in Keys THEN opened \cup joined ELSE {} IN
  /\ Opened(opened)
  /\ linked' = [g \in Groups |-> linked[g] \cup In(p, g, reached)]
  /\ heard' = [g \in Groups |-> heard[g] \cup In(p, g, gs)]
  /\ missed' = [g \in Groups |-> (missed[g] \ In(p, g, reached)) \cup In(p, g, gs \ reached)]

\* Some of S, all of it where kind cannot fail.
Succeeding(kind, S) == IF kind \in Faults THEN SUBSET S ELSE {S}

\* MUTANT of GroupsExchange: the list is read before upsert_peer.
ExchangeReadsFirst(p, gs) ==
  /\ up
  /\ \E opened \in Succeeding("subfail", gs \ subs),
        joined \in Succeeding("subfail", gs \cap subs) : Topics(p, gs, opened, joined)
  /\ \E upserted \in Succeeding("dbfail", gs) :
       /\ Upsert(p, upserted)
       /\ intros' = Introductions(upserted, cache)
       /\ Quiet(p, upserted, 0)
  /\ UNCHANGED <<up, timeVars, relayed, stale>>

\* MUTANT of GroupsExchange: the lookup in group_topic_senders is dropped.
ExchangeResubscribes(p, gs) ==
  /\ up
  /\ \E opened \in Succeeding("subfail", gs) : Topics(p, gs, opened, {})
  /\ \E upserted \in Succeeding("dbfail", gs) :
       /\ Upsert(p, upserted)
       /\ intros' = Introductions(upserted, cache')
       /\ Quiet(p, upserted, 0)
  /\ UNCHANGED <<up, timeVars, relayed, stale>>

\* groups_exchange from node_id p for local_groups gs.  A group whose topic
\* cannot be opened is tracked all the same; one whose row cannot be written
\* keeps its topic.
GroupsExchange(p, gs) ==
  /\ up
  /\ \E opened \in Succeeding("subfail", gs \ subs),
        joined \in Succeeding("subfail", gs \cap subs) : Topics(p, gs, opened, joined)
  /\ \E upserted \in Succeeding("dbfail", gs) :
       /\ Upsert(p, upserted)
       /\ intros' = Introductions(upserted, cache')
       /\ Quiet(p, upserted, 0)
  /\ UNCHANGED <<up, timeVars, relayed, stale>>

\* GossipEvent::NeighborDown(p).  A database error leaves everything as it is.
NeighborDown(p) ==
  /\ up
  /\ p \in Keys
  /\ MarkOffline(p)
  /\ Quiet(p, Groups, MaxAge + 1)
  /\ intros' = Introductions({g \in Groups : p \in online[g]}, cache')
  /\ UNCHANGED <<up, topicVars, timeVars, relayed, stale>>

\* announce_interval.tick(): introductions for all active groups.
AnnounceTick ==
  /\ up
  /\ intros' = Introductions(Groups, cache)
  /\ UNCHANGED <<up, tableVars, quiet, cache, topicVars, timeVars, relayed, stale>>

\* prune_interval.tick(), the first one at the start.  The update may fail,
\* and after it the reload of the cache.
PruneTick ==
  /\ up
  /\ sincePrune = PruneEvery
  /\ sincePrune' = 0
  /\ \/ /\ online' = [g \in Groups |-> online[g] \ Expired(g)]
        /\ age' = AgesOf(online', age)
        /\ swept' = TRUE
        /\ \/ LoadCache /\ stale' = FALSE
           \/ "dbfail" \in Faults /\ stale' = TRUE /\ UNCHANGED cache
     \/ /\ "dbfail" \in Faults
        /\ swept' = FALSE
        /\ UNCHANGED <<online, age, cache, stale>>
  /\ intros' = {}
  /\ UNCHANGED <<up, rows, quiet, topicVars, relayed>>

\* A message on a group's topic: every forwarder of the group makes an Event
\* with id = blake3(content) and sends it to the application.
GroupMessage(g, m) ==
  /\ up
  /\ forwarders[g] > 0
  /\ relayed[g][m] + forwarders[g] <= MaxRelay
  /\ relayed' = [relayed EXCEPT ![g][m] = @ + forwarders[g]]
  /\ intros' = {}
  /\ UNCHANGED <<up, tableVars, quiet, cache, topicVars, timeVars, stale>>

-----------------------------------------------------------------------------
(* The process and the clock.                                              *)

\* The table stays; topics, forwarders and cache go.
Crash ==
  /\ "crash" \in Faults
  /\ up
  /\ up' = FALSE
  /\ cache' = [g \in Groups |-> <<>>]
  /\ subs' = {}
  /\ linked' = Nobody
  /\ forwarders' = [g \in Groups |-> 0]
  /\ heard' = Nobody
  /\ missed' = Nobody
  /\ stale' = FALSE
  /\ swept' = FALSE
  /\ sincePrune' = PruneEvery
  /\ intros' = {}
  /\ relayed' = [g \in Groups |-> [m \in Messages |-> 0]]
  /\ UNCHANGED <<tableVars, quiet>>

\* NetworkActor::new loads the cache; no group topic is opened for it.
Restart ==
  /\ ~up
  /\ up' = TRUE
  /\ UNCHANGED <<tableVars, quiet>>
  /\ LoadCache
  /\ UNCHANGED <<topicVars, timeVars, intros, relayed, stale>>

\* One unit of time.  The task reaches a prune tick within the unit it is due.
Tick ==
  /\ up => sincePrune < PruneEvery
  /\ sincePrune' = IF up THEN sincePrune + 1 ELSE sincePrune
  /\ age' = [g \in Groups |-> [p \in Peers |->
               IF p \in online[g] /\ age[g][p] < AgeCap THEN age[g][p] + 1 ELSE age[g][p]]]
  /\ quiet' = [g \in Groups |-> [p \in Peers |->
                 IF quiet[g][p] <= MaxAge THEN quiet[g][p] + 1 ELSE quiet[g][p]]]
  /\ intros' = {}
  /\ UNCHANGED <<up, rows, online, cache, topicVars, swept, relayed, stale>>

Next ==
  \/ \E p \in Peers :
       NeighborDown(p) \/ \E gs \in SUBSET Groups \ {{}} : GroupsExchange(p, gs)
  \/ \E g \in Groups, m \in Messages : GroupMessage(g, m)
  \/ AnnounceTick
  \/ PruneTick
  \/ Crash
  \/ Restart
  \/ Tick

Spec == Init /\ [][Next]_vars
FairSpec == Spec /\ WF_vars(AnnounceTick) /\ WF_vars(PruneTick) /\ WF_vars(Tick)

-----------------------------------------------------------------------------
(* Properties.                                                             *)

\* Cache and table agree: load_cache, upsert_peer, mark_offline and prune_stale
\* change both alike, except while a failed reload leaves pruned peers listed;
\* no online row is ever missing from the cache.
CacheCoherent ==
  up => \A g \in Groups :
          /\ online[g] \subseteq Range(cache[g])
          /\ stale \/ Range(cache[g]) = online[g]

\* One group_topic_senders entry, one forwarder: no group message is handed to
\* the application twice because two peers announced the group.
OneForwarder ==
  \A g \in Groups : forwarders[g] = IF g \in subs THEN 1 ELSE 0

\* A peer that announced a group since the start is in the topic of the group,
\* unless its own subscribe or join_peers failed: an earlier peer's failure
\* costs no later peer its link, and a later announcement makes up for it.
AnnouncedIsLinked ==
  \A g \in Groups :
    /\ heard[g] \ missed[g] \subseteq linked[g]
    /\ linked[g] # {} => g \in subs

\* How old an introduced peer can be: once the prune tick of this run has done
\* its work, no listed peer has been silent for more than max_age plus the time
\* since that tick, 600 s at most.
SilenceIsBounded ==
  (up /\ swept /\ ~stale) =>
    \A g \in Groups : \A p \in Range(cache[g]) : age[g][p] <= MaxAge + sincePrune

\* A live peer is never dropped: one that announced the group within max_age,
\* and whose link was not lost since, is on the list of the group, whatever
\* prune ticks, failed reloads and restarts there were in the meantime.
LiveStaysListed ==
  up => \A g \in Groups, p \in Peers : quiet[g][p] <= MaxAge => p \in Range(cache[g])

\* XAEROFLUX_TEST_SPEC X4: the step that lists a peer beside others introduces
\* the group with all of them.
NewcomerIntroduced ==
  [][\A g \in Groups :
       (up /\ Range(cache'[g]) \ Range(cache[g]) # {} /\ Len(cache'[g]) > 1)
         => <<g, cache'[g]>> \in intros']_vars

\* XAEROFLUX_TEST_SPEC X5, "a peer going away is marked offline / dropped from
\* introductions": once the node stays up, a peer never heard of again, whether
\* or not it was a neighbor whose loss gossip reports, is listed no more.
DepartedIsDropped ==
  \A g \in Groups, p \in Peers :
    (<>[]up /\ <>[](p \in online[g] => age[g][p] > 0)) => <>[](p \notin Range(cache[g]))

\* "Re-broadcast peer introductions for all active groups": for as long as a
\* group lists two peers, newcomers to the discovery topic get to hear of it.
KeepsIntroducing ==
  \A g \in Groups :
    <>[](up /\ Len(cache[g]) > 1) => []<>(\E i \in intros : i[1] = g)

\* README "Events are deduplicated automatically": the application gets each
\* event id at most once.
GroupEventsDeduplicated ==
  \A g \in Groups, m \in Messages : relayed[g][m] <= 1
=============================================================================
