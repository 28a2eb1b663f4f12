# XaeroFlux in TLA+

TLA+ modules, model-checking runs and machine-checked proofs for XaeroFlux, a
peer-to-peer event log: applications that share a discovery key send events,
every node keeps them in a SQLite table, and gossip (iroh-gossip) carries them
to the other nodes. All paths below are relative to the repository's root;
most of the code is in `src/lib.rs`, `src/snapshot.rs`, `src/swarm.rs`,
`src/rendezvous.rs` and `src/bin/xaeroflux_bootstrap.rs`, the client is
`main.rs`.

    tlc -workers 2 -config EventSync_faults.cfg MCEventSync.tla
    tlapm EventSyncProofs.tla

`PROJECT.json` is the machine-readable side: components, runs, the mutant that
shows each property can fail, the source lines behind every definition, hazards,
findings and theorems.

## 1. Inventory

| component | state | operations | hard behaviour | correct when |
|---|---|---|---|---|
| **Event path**: application handle, `StorageActor`, event half of `NetworkActor` (`lib.rs` 155-265, 333-382, 1001-1096) | three unbounded channels, the `events` table, membership of the events topic | send, receive, insert-or-ignore, broadcast, drop of the handle, process end, restart | two actors on one table; crash between insert and send; gossip that loses, repeats, delays, echoes | an application is handed an event once, never its own; an event on the wire is in its author's table; an event is lost only to a fault; without faults it arrives |
| **Discovery**: `PeerTracker` and the discovery task (`lib.rs` 385-530, 694-984) | `group_peers` table, cache of online peers, `group_topic_senders`, forwarder tasks, two intervals | groups_exchange, neighbour down, announce tick, prune tick, group message | table and cache updated apart; failing subscriptions; restarts that keep rows but no topics; time | cache and table agree; one forwarder per group; announcers are linked; departed peers are dropped, live ones are not |
| **Snapshot protocol** (`snapshot.rs`) | provider: snapshot per group; requester: `sync_state` | fold an event in, advertise, serve, download, decide | events while a transfer runs; late and repeated events; broken streams; provider restart; u64 time arithmetic | what is advertised is served; the chat ring is the latest; the time of the sync is that of the snapshot held, unless the application sets another; a newcomer gets a snapshot |
| **Blob swarm** (`swarm.rs`) | in-memory blob store, holders per hash | add, i-have / who-has, fetch across holders | holders that leave during a fetch or stall, stale holders, ids that do not parse, gossip that loses or repeats, transfers that break | registries list only who did hold the blob; a fetch that tried its list fails only if no holder lasted, keeps its chunks, returns unless a holder stalls for ever; who asks learns of a holder |
| **Bootstrap forwarder** (`bin/xaeroflux_bootstrap.rs`) | Iggy client, scope maps, counters | receive, convert, send, reconnect | Iggy down, answers lost, a missing topic; events before their workspace; group messages that came past the events table; restarts that forget the maps | an event of the events topic is in Iggy at most once, and what was handled is there in order, under the scope that was heard; counters tell what is in the topic; the connection comes back |
| **Node identity** (`lib.rs` 197-226) | `node.key` | create or load at start | two first starts; a process that ends during the write; one directory, two databases | one id per key file, each later start succeeds |
| **Rendezvous** (`rendezvous.rs`, `lib.rs` 276-297) | one signed file | sign, publish, verify | overwritten in place, by several processes, read at any moment | a config that is whole verifies and names a node that ran |
| **Command line client** (`main.rs`) | none of its own | send, recv, interactive, info | `send` ends one second after handing its event over | as the event path |
| Builder, configuration, endpoint, relay, lookup | parameters | setters | none | not modelled |

How they interact: the client and the bootstrap own a `XaeroFlux` handle; the handle's
`event_tx` feeds `StorageActor`, which feeds `NetworkActor`, which broadcasts; received
events go to the same table and to `event_rx`. The discovery task shares the gossip
instance, the database connection and `event_rx`: its group forwarders put group
messages there directly, past the events table. Snapshot and swarm are libraries beside
it: the programs in this repository do not call them, tests do. The bootstrap reads
`event_rx`, events and group messages alike, and forwards to Iggy; at its start it
publishes the rendezvous config, signed with `node.key`.

The hazards of the code, each at its line and with the property that would
catch it going wrong, are listed in `PROJECT.json`.

## 2. Modules

| module | what it is |
|---|---|
| `EventLog` | the abstract promise of the event path: every node knows a set of events; Publish, Learn (at most once, never one's own id), Forget (only without a database file) |
| `EventSync`, `MCEventSync` | the event path on every node, with the topic between them |
| `EventSyncProofs`, `DiscoveryProofs`, `ForwarderProofs`, `BootstrapProofs`, `SnapshotProofs`, `BlobSwarmProofs`, `IdentityProofs` | the theorems about each (section 4) |
| `Discovery`, `MCDiscovery` | the discovery task and the peer tracker of one node |
| `Forwarder`, `MCForwarder` | the main loop of the bootstrap server and its connection to Iggy |
| `EventFeed` | the abstract promise of the bootstrap server: each published event goes into a feed at most once; a group message that came may go into it any number of times |
| `Bootstrap`, `MCBootstrap` | `EventSync` and `Forwarder` composed: one node's application is the forwarder, whose inbox the group forwarders fill too |
| `Snapshot`, `MCSnapshot` | provider and requester of one group |
| `BlobSwarm`, `MCBlobSwarm` | the participants of a blob swarm |
| `Identity`, `MCIdentity` | `node.key` and the rendezvous config, with processes that end at any step |

### EventSync

`appQ`, `netQ` and `rxQ` are the three channels, `db` the events table, `mesh` the
nodes that have neighbours on the topic, `gossip[n]` the copies on their way to
`n`. The handle and the process are `open` and `up`. `published`, `sent`,
`handed`, `taken`, `lost` are history: no action of the code reads them.

| code | action |
|---|---|
| `event_tx.send` / `event_rx.recv` / the handle is dropped | `Send` / `Take` / `DropHandle` |
| `StorageActor::run`, insert Ok / Err | `StoreEvent` / `StoreFails` |
| `NetworkActor::run`, outbound, Ok / Err | `Broadcast` / `BroadcastFails` |
| `NetworkActor::run`, `GossipEvent::Received`, insert Ok / Err | `Receive` (own id or known id: ignored; else stored and handed over) / `ReceiveFails` |
| process end, `from_config` on the same files | `Crash`, `Restart` |
| iroh-gossip | `Join`, `Leave`, `Lose`, `Relay` |

Events are values told apart by id; `Source` gives their author's id, which the
callers fill with their own `node_id`. A handler that inserts and then sends on a
channel is one action: the channels die with the process, so a crash between
the two leaves the state a crash right after the send leaves. The channels are
unbounded; `MaxQueue` only bounds how many events an application leaves unread
by its storage actor. `Durable` is the set of nodes whose table is a file; the
others run on `:memory:` and forget, and with the table the history of what was
handed over starts afresh. Messages that are no events change nothing and are
left out.

### Discovery

One node. `rows`, `online`, `age` are the `group_peers` table (a row keeps the
age of its `last_seen`), `cache` the in-memory lists in order, `quiet` (history) the
time since a peer last announced a group and its row was written, `subs` the keys of
`group_topic_senders`, `linked` the peers a topic was told to connect to,
`forwarders` the tasks per group. Every arm of the `select!` is one action:
`GroupsExchange`, `NeighborDown`, `AnnounceTick`, `PruneTick`; `GroupMessage` is
one message in a forwarder. Only this task writes the tracker, which is why an arm
is atomic. Subscriptions, `join_peers`, database writes and the reload after a
prune may each fail. An announced id that is no public key opens topics and gets
rows but links nobody (`Keys`).

Time is counted in units: `MaxAge` and `PruneEvery` are both 300 s in the code.
`Tick` waits for a due prune tick: the task reaches the tick within the unit it
falls due. Ages stop at `AgeCap`, past which nothing distinguishes them.

### Snapshot

One group, whose provider and requester keep independent entries for others.
Workspaces, boards and files are treated alike by the code and are one list
here; chats are the ring of the last `MaxChats` (100 in the code). `stamp` is the
`ts` its author gave each event, `arrived` the order in which events came, with
repeats. `Connect`, `ServeSnapshot` and `Downloaded` are the three parts of a
transfer between which everything else may happen; `conn` and `wire` hold one
transfer per call of `download_snapshot`, and the last call to end sets
`sync_state`. `MarkSynced` may come at any moment and with any time: the application calls
it "after receiving snapshot or catching up via events" (`told`, history, says that it did).
`Overdue` computes `now - last_ts` modulo `Word`, as a release build
does in u64.

### Forwarder and Bootstrap

`Handle` is the whole handler of one event: it counts, parses, updates the scope
maps, converts, sends and counts again. Nothing but Iggy and the end of the process
can come between its awaits. `Content` gives each event what the converter reads of
it; the twenty-odd variants of `NetworkEvent` fall into nine kinds that the converter
treats differently. `client` is whether `IggyConnection.client` is there, `link`
whether the TCP connection it stands for is alive, `topicReady` whether stream and
topic exist: an error of `create_topic` is taken for "already exists", so `Connect`
may leave it false. `SendErr` may or may not have appended: a lost answer looks like
a failed send. `heard`, `handled` and `missed` are history.

| code | action |
|---|---|
| `event_rx.recv()` arm | `Handle`, with `SentOk` (`Disabled`, `SendOk`) or `SentErr` (`NotConnected`, `SendErr`) |
| `iggy_retry.tick()` arm, the connect before the loop | `Reconnect` |
| process end, `main` again | `Crash`, `Restart` |
| Iggy and the link | `IggyStops`, `IggyStarts`, `LinkBreaks` |

Heartbeat and statistics only print. `Bootstrap` joins the two: `inbox` is the
`event_rx` of the node `Boot`. Two writers share it: the `NetworkActor`, which hands over what
is new to the events table (`Beside`; `rxQ[Boot]` is this part of the inbox), and the group
forwarders (`lib.rs:823-853`), which hand over every copy of a group message past that table
(`GroupForwards`). `BootHandles` takes the head, which is `Take(Boot)` if it is an event, and
`F!Handle`, in one step; one crash ends both. `EventFeed` is what they implement together:
nothing tells the copies of a group message apart, so it promises at most once of the
events topic only.

### BlobSwarm

Every participant is a caller of the library who adds blobs, asks, announces and fetches
as the tests do, and pumps gossip messages through `on_message`. A call of `fetch` is a
record: the providers to be dialled, the one it is connected to. It takes one step per
await: `DialOk` / `DialFails`, `Transfer` of one chunk, `TransferEnds` /
`TransferBreaks`, `Returns`; `Stalls` leaves it connected to a holder that lives and
serves no more, which nothing but the end of that holder, of its connection or of the
caller undoes, for `remote.fetch` has no timeout. A list with an id that is no public
key is refused before any holder is tried (`RefusesList`). Such ids come from callers
and, since `record_holder` takes any string, from gossip; they change nothing else, so
`holders` leaves them out and a list may be refused at any time. That a chunk belongs to
its blob is the verified streaming of iroh-blobs; the recomputed hash at the end can
then not differ, and is left out. The order of a list of holders is that of a `HashSet`,
thus any. `steady`, `held` are history, `calm` says that gossip has stopped losing
messages.

### Identity

`std::fs::write` is two steps, `Opens...` (the file is created or emptied) and
`Writes...` (it is filled), between which the process may end and anyone may read. A file
is a key or a config, `Absent`, or `Cut`, a part of its content. Several processes
are started in one directory and end at any step; an operator may remove
`node.key`. A signature is a record of its key and of what it covers.

## 3. Runs

| run | instance | what it shows |
|---|---|---|
| `event_faults` | 2 nodes, 1 event each, one node on `:memory:`, every fault | `AtMostOnce`, `NoEcho`, `AuthorKeepsIt`, `OneAttempt`, the inductive invariant `IInv`; the path implements `EventLog` |
| `event_offline` | 2 nodes | a counterexample to "Works offline" (section 5) |
| `event_demo` | 2 nodes with one key | a counterexample to the CLI demo (section 5) |
| `bootstrap` | 3 nodes, one the bootstrap server, one on `:memory:`, 1 event, 1 group message that may come twice; crashes, repeats, broken links; fairness | `ImplementsFeed`, `SentIsDelivered`, `ReachesIggy` |
| `forwarder` | a workspace, a board, an element, a chat, a blank cell, 4 arrivals in any order, every fault; fairness | `ScopeAsHeard`, `ForwardedInOrder`, `CountsAreTrue`, `Reconnects` |
| `discovery_groups` | 2 groups, 2 peers (one without a proper key), crashes, failing subscriptions; fairness | `OneForwarder`, `AnnouncedIsLinked`, `NewcomerIntroduced`, `DepartedIsDropped`, `KeepsIntroducing` |
| `discovery_peers` | 1 group, 3 peers, 2 units of age and interval, crashes, database errors | `CacheCoherent`, `SilenceIsBounded`, `LiveStaysListed` |
| `discovery_relay` | a message twice on a group topic | a counterexample to deduplication (section 5) |
| `snapshot_transfer` | a workspace, 2 chats, 3 arrivals, ring of 2, 2 downloads at a time, `mark_synced` at any moment, restarts, broken streams; fairness | `ServesWhatItAdvertised`, `RingIsTheLatest`, `SyncedByReceipt`, `GetsASnapshot` |
| `snapshot_period` | one event, long before its download | a counterexample to the six-hour period (section 5) |
| `swarm` | 2 participants that add a blob of 2 chunks and may leave, 1 that fetches it, every fault; fairness | `HoldersDidHold`, `FailsOnlyWithoutHolder`, `ChunksStay`, `FetchReturns`, `AskerLearns` |
| `identity` | 2 processes of one directory, 4 keys, 1 app | `OneIdentity`, `StartsAgain`, `PublishedCertifiesItself` |

Bounds. Two nodes suffice for every exchange between an author and a receiver, since
`Relay` repeats an event as any third node would; `bootstrap` has a third node. Its
`MaxArrivals = 2` lets the group message come once or twice, before, between or after
the event. It injects no departures and no Iggy outages: those are in `event_faults` and
`forwarder`, and the theorem `FeedImplemented` has them all. One event per author is
enough for properties of single events; two pass each other in the queues of
`event_faults`, `MaxQueue = 2` lets an application send the same id twice in a row. In
`Discovery` three peers make an introduction whose list changes by one peer and stays
longer than one; an age of two units leaves a peer that is neither fresh nor expired at
a tick. In `Snapshot` three arrivals, of which an item may come again, overflow a ring
of two; the run keeps all clocks together (`MaxSkew = 0`), while the
theorems of section 4 hold for any skew. `Marks` holds one time that
`mark_synced` may be called with. In `Forwarder` four arrivals (`MaxArrivals`) are a
workspace, its board and an element in each of the six orders, with one event to spare
for a repeat or for the restart in between. In `BlobSwarm` one message is under way when
another is sent (`MaxOnWire`): a reply and a repeat may still be on their way together,
and what matters is which message is lost, not how many there are. One call of `fetch`
runs in `swarm`: two at a time are too large for liveness, so that concurrent calls, and
what one does to the chunks of another, are covered by the theorems `ChunksStayHolds`
and `FailsOnlyWithoutHolderHolds` only. `Leavers` are the two that have the blob; the
end of the caller ends its call. In `Identity` a fourth key is the one a third start
takes after a removal.

Symmetry is used on peers, on keys and on processes, in runs without liveness,
whose definitions tell none of these apart.

The type invariants also carry what the shape of the state means: nothing
volatile outlives its process, no list names a peer or an item twice.

Fairness.

* `EventSync`: both actors loop as long as their channels hold something and tokio's
  `select!` picks among ready branches at random, so `StoreEvent`, `Broadcast` and every
  `Receive` are weakly fair; `Take` is the application that awaits `event_rx`; `Join` is
  iroh, which keeps trying to reach the peers it knows of.
* `Bootstrap`: of the above what an event needs on its way, and `BootHandles`, the ready
  arm of the loop. That nodes join and the connection holds is presumed by its
  properties instead.
* `Forwarder`: `Handle` and `Reconnect` are ready arms of one `select!`; `Restart` and
  `IggyStarts` are the operators, who restart what stopped.
* `Discovery`: the two intervals and the clock.
* `Snapshot`: the embedding program accepts and serves streams, acts on `needs_snapshot`
  and awaits what it downloads; nothing in this repository but the tests does that, so
  this is an assumption about the embedder. Streams may break for ever, but not every
  one of them: serving and finishing *some* download is strongly fair.
* `BlobSwarm`: callers pump messages and ask until they know a holder, as the test does.
  A call of `fetch` goes on; a dial ends by its timeout. A transfer has none and goes on
  only while its holder serves it: a stalled call is owed nothing, and `FetchReturns`
  says that a call that never returns waits for ever on one live holder that stalls.
  `Ask` is strongly fair only because of the bound on the wire.

No crash, restart of a peer, loss or outage is fair. A liveness property says from
when on the faults it cannot bear have to stop: nodes stay in the topic
(`SentIsDelivered`), the connection holds (`ReachesIggy`), process and Iggy stay up
(`Reconnects`), the node stays up (`DepartedIsDropped`), a live holder does not stall for ever
(`FetchReturns`), a holder stays and gossip stops
losing messages (`AskerLearns`), the provider keeps the group and
`mark_synced` does not call the download off (`GetsASnapshot`). All other
faults go on.

## 4. Proofs

Every invariant and every action property that a passing run checks, and both
refinements, are also proved, for every value of the constants that meets the
assumptions named in the module. What a run shows on its instance a theorem
states for any number of nodes, peers, groups, events, chunks, processes, any
queue and ring sizes and any set of faults. The bounds of the runs (`MaxQueue`,
`MaxArrivals`, `MaxOnWire`, `MaxRelay`, `MaxTime`) are then arbitrary numbers.

| module | theorems | beyond the property itself, the invariant needs |
|---|---|---|
| `EventSyncProofs` | `TypeCorrect`, `Invariance` (`IInv`), `Deduplication` (`AtMostOnce`), `NoEchoEver` (`NoEcho`), `AuthorKeeps` (`AuthorKeepsIt`), `NothingElseLost` (`OneAttempt`), `Implementation` (`ImplementsLog`) | `HandedIsKnown`, `BroadcastsOwn`, `FlowsFromAuthors`, `PublishedIsKept` |
| `BootstrapProofs` | `NodesImplemented` (`BootSpec => Spec`), `FeedImplemented` (`ImplementsFeed`) | `IInv`, `OnceInLine`, `InboxOk` (what of the inbox is events is `rxQ`, in its order, the rest came), and that the topic holds only what was read |
| `DiscoveryProofs` | `TypeCorrect`, `OneForwarder`, `AnnouncedIsLinked`, `CacheCoherent`, `SilenceIsBounded`, `LiveStaysListed`, and the action property `NewcomerIntroduced` | `SilentRows`, `FreshRows` |
| `ForwarderProofs` | `TypeCorrect`, `ForwardedInOrder`, `CountsAreTrue`, `ScopeAsHeard` | `LogIsHandled`, `HeardIsHandled`, `DownIsEmpty`, `MapsAsHeard` |
| `SnapshotProofs` | `TypeCorrect`, `ServesWhatItAdvertised`, `SyncedByReceipt`, `RingIsTheLatest` | `FromTheStart` |
| `BlobSwarmProofs` | `TypeCorrect`, `FailsOnlyWithoutHolder`, `HoldersDidHold`, and the action property `ChunksStay` | `CallsAreTrue`, `WholeIsHeld`, `SaysWhoHeld` |
| `IdentityProofs` | `TypeCorrect`, `OneIdentity`, `StartsAgain`, `PublishedCertifiesItself` | `FirstStart`, `OnRecord` |

Outside `EventSyncProofs` and `BootstrapProofs` a theorem has the name of its property and
`Holds`.

**Event path.** `AtMostOnce` alone is not inductive: a second hand-over is barred by
the row, so `HandedIsKnown` (what was handed over is in the table) joins it, and a
crash on `:memory:` must forget both. `AuthorKeepsIt` rests on two facts:
`FlowsFromAuthors` (copies were sent, what was sent was published, rows come from
published events, and an application sends only events of its own id) and
`PublishedIsKept` (a published event stays in a table of its author's id, unless
that table is `:memory:`). `BroadcastsOwn` says that what waits for its broadcast is
the node's own and recorded; it is what makes `sent` a subset of `published`.
`OneAttempt` follows an event from queue to queue and needs the lemmas on queues
(`RangeOfAppend`, `RangeOfTail`): what leaves a queue is the head, and it goes to the
next place that accounts for it or to `lost`. `IInv` is the conjunction, with one
lemma per conjunct (`DedupStep`, `KeptStep`, `BroadcastsOwnStep`, `FlowsStep`,
`OneAttemptStep`), and under each one step per action that disturbs it; `TablesKept`
disposes of the rest. The refinement maps tables to `known` and the hand-overs to
`handed`: `StoreEvent` of a new row is `Publish`, `Receive` of a new row is `Learn`, a
crash on `:memory:` is `Forget`, everything else a stutter; `FlowsFromAuthors` gives
the guard of `Learn`.

**Bootstrap.** A step of the composition is a step of `EventSync`, so `IInv` holds
there. `Feed` demands of an event that it is not in the feed yet, and of a group message
that it came. What the loop reads is at the head of `event_rx`; if it is an event, it is
also the first of `rxQ[Boot]`, since group messages only come between (`InboxOk`).
`OnceInLine` says that nothing waits there twice or after it was read, since `Receive`
hands over only what the table did not have, and the table has all that waits or was
read. Everything in the topic was read before, which a crash does not undo:
`BootAssumption` puts the table of `Boot` in a file (`ReadStays`). On `:memory:`, a
repeat after a restart would be read, and forwarded, once more.

**Discovery.** `OneForwarder` and `AnnouncedIsLinked` are inductive with the types: an arm
opens only topics that are not open and joins only those that are (`ExchangeTopics`).
`CacheCoherent` goes arm by arm; the lemmas on listing and unlisting a peer and the type
invariant (no list names a peer twice, a row that is not there is not online) carry
it. `SilenceIsBounded` speaks of listed peers, whose ages say nothing of the rows that a
later reload may list: `SilentRows` bounds the age of every online row, and coherence
carries the bound over to the list. `LiveStaysListed` is the converse, also through a reload
that fails or a restart that rebuilds the list from the table: `FreshRows` says that such a
peer is online there, with an age no greater than the time since its announcement, which a
prune spares.

**Forwarder.** A message carries the number of its event. That the log is sorted by it
needs that no number exceeds `handled` (`LogIsHandled`), which survives crashes though the
rest of the process does not. The counters are compared with sets: the messages of
this run, those among them whose send was reported as failed (`Doubtful`), and `missed`; the
proof is about how each outcome moves the three cardinalities. `ScopeAsHeard` needs that the
maps hold, at every moment, what the creations heard so far define (`MapsAsHeard`); that a
later event does not change what the first p events define is `LatestIs` and its
lemmas.

**Snapshot.** The provider folds one event at a time, so the ring is compared with the
arrivals one arrival later (`RingNext`): a chat goes to the end, the others are each one
place further from it, and the oldest goes when the ring is full. That requires that a
provider without a snapshot has had no event (`FromTheStart`).

`SyncedByReceipt` is a coupling of `sync` and `have` that only `MarkSynced` may undo and every
download restores.

**Blob swarm.** `FailsOnlyWithoutHolder` is about the end of a call; the invariant says of
every call under way that a listed provider which was there with the whole blob
since it began is still to be dialled, or is the one connected to, unless the caller has
the blob by now (`CallsAreTrue`). `HoldersDidHold` needs the same of what is on the wire
(`SaysWhoHeld`).

**Identity.** While no two first starts overlap, one process at most has a key that is
not completely written, and until it has nothing ran in the directory and nobody can
read a key (`FirstStart`). `PublishedCertifiesItself` does hold with overlapping starts:
whoever comes to write a config has its id on record (`OnRecord`).

What the proofs asked of the models. The type invariant of `Snapshot` was not inductive
and says more now: what is on the wire of each download, and that an answered download,
and no other, has an answer there. Assumptions that hold of every program
run but had not been stated are: the peers are finitely many (`PeersAssumption`; lists
and tables are finite), no snapshot is the value for "none" (`Snapshot`), and a config file is
neither absent nor cut short (`FileAssumption`). `RingIsTheLatest` is stated by counting the
chats that came later, an equivalent form that needs no induction over
the arrivals.

Only model-checked, and why:

* all liveness (`SentIsDelivered`, `ReachesIggy`, `Reconnects`, `DepartedIsDropped`,
  `KeepsIntroducing`, `GetsASnapshot`, `FetchReturns`, `AskerLearns`): fairness and
  ENABLED are out of the prover's reach;
* the counterexamples of section 5, which are runs of one instance each.

## 5. Where documents and code disagree

* `README.md:16` "Works offline - syncs when connected". An event is broadcast once, to
  the neighbours of that moment; sent while alone, it stays in the sender's table, and
  the row bars a second attempt (`event_offline`). The Limitations section of the same
  README restricts the claim.
* `README.md:117` "The receiver will print events sent by the first peer". Both
  databases of the demo are in one directory, so both processes load one `node.key`; the
  receiver ignores events under its own id (`event_demo`).
* `README.md:15` "Events are deduplicated automatically". Group messages go to
  `event_rx` without the table (`discovery_relay`); the events topic does keep it. The
  bootstrap server reads the same channel, so such a message may be in Iggy again for
  each time that it came.
* `snapshot.rs:306` "if last sync was > 6 hours ago". `sync_state` holds the time of the
  provider's last event, so a quiet group is requested again right after every download
  (`snapshot_period`).

Smaller ones need no run:

* `latest_ts` is the ts of the event that arrived last, not of the "most recent item"
  (`snapshot.rs:45`, 212).
* Exactly 20% more items do not ask for a snapshot although the comment says "20%+"
  (`snapshot.rs:393`).
* The bootstrap's header says that it "handles snapshot requests" (line 10); nothing in
  it does. Nor is the source of an event always "group/{group_id}" (line 880): on the
  events topic it is the author's node id, which then stands in for the group id.
* `swarm.rs` says that a group pulls a blob "in parallel" (line 8) and by iroh-blobs'
  `Downloader` (line 22); `fetch` goes through the holders one after the other.
* `rendezvous.rs:46` "newer wins": nothing compares `ts`, and two starts in one second
  would not be told apart by it.

## 6. Plan

*Done*: the event path with its abstract log; discovery; snapshots, with concurrent
downloads; the forwarder, and its composition with the event path against an abstract
feed; the blob swarm; identity and rendezvous; the proofs of section 4.

*Left*:

1. The forwarder's own invariants inside `Bootstrap`: there its inbox is filled by
`Receive`, without the bound on arrivals, so that `ForwarderProofs` does not carry over
as it stands.
2. Lemmas on what the liveness properties rest on, short of fairness: for instance that
a helpful step of a download or a fetch is never undone while its condition lasts.

## 7. Not modelled

The builder, the configuration and the set-up of endpoint, relay and address
lookup hand parameters to libraries. Hashes, signatures, JSON, the text of a
`RawEvent` and logging are values. iroh-gossip is modelled by what the code relies on (a
broadcast reaches the nodes of the topic, copies may be lost or repeated), the
order of its messages is free; iroh-blobs by verified chunks that arrive one by one. A
database call succeeds or fails as a whole; SQLite's files survive a process.
The presence announcement, the heartbeats, the statistics and `info` change no
state. Two messages of the same text in one second have the same id: the model
sends an event again, and the storage actor drops it, as the code does. A group
topic whose receiver ends (`lib.rs:825`) is not modelled: nothing in the code says when
the library would end it.
