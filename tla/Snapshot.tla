------------------------------ MODULE Snapshot ------------------------------
(***************************************************************************)
(* Snapshot transfer for one group (src/snapshot.rs): a SnapshotProvider    *)
(* that folds arriving events into a snapshot, advertises it and serves it  *)
(* over a stream, and a SnapshotRequester that decides when to download.   *)
(* Groups are independent entries of both maps.                            *)
(*                                                                         *)
(* Workspaces, boards and files are three Vecs that treat their items      *)
(* alike: here one list.  Which event reaches the provider when, and what  *)
(* carries the advertisement, is up to the program that embeds the two.    *)
(***************************************************************************)
EXTENDS Integers, Sequences, SequencesExt

CONSTANTS
  None,         \* no value, whatever of
  Items,        \* the things events tell of, told apart by id
  Kind,         \* what an item is: see Kinds
  MaxChats,     \* the ring of recent chats: 100
  Period,       \* the sync period: 6 hours
  Word,         \* u64 arithmetic is modulo Word
  MaxSkew,      \* bound: how far an author's clock runs ahead
  MaxTime,      \* bound: the requester's clock
  MaxArrivals,  \* bound: events a provider gets in one run
  Marks,        \* bound: the times an application passes to mark_synced
  Downloads,    \* the calls of download_snapshot that may run at a time
  Faults        \* the kinds of fault the environment may inject

Kinds == {"group", "listed", "chat", "other"}

ASSUME KindAssumption == Kind \in [Items -> Kinds]
ASSUME RingAssumption == MaxChats \in Nat \ {0}
ASSUME ClockAssumption ==
  /\ Period \in Nat /\ MaxSkew \in Nat /\ MaxTime \in Nat
  /\ Word \in Nat /\ MaxTime + MaxSkew < Word
ASSUME ArrivalAssumption == MaxArrivals \in Nat
ASSUME SnapshotFaults == Faults \subseteq {"crash", "loss"}

Stamps == 0..(MaxTime + MaxSkew)

\* GroupSnapshot: the group's own data, the lists, the chats, snapshot_ts.
Snapshots ==
  [group : Items \cup {None}, listed : Seq(Items), chats : Seq(Items), ts : Stamps]

ASSUME MarkAssumption == Marks \subseteq Stamps

\* An absent snapshot is none.
ASSUME NoneAssumption == None \notin Snapshots

VARIABLES
  clock,    \* the requester's clock
  stamp,    \* Event.ts of each item's event, None before there is one
  snap,     \* SnapshotProvider.snapshots[group], None if absent
  advert,   \* the last SnapshotAvailable: item_count and latest_ts
  conn,     \* each call's stream is "idle", "open", or "answered"
  wire,     \* the snapshot on its way back on each
  have,     \* the last snapshot downloaded
  sync,     \* SnapshotRequester.sync_state[group]
  arrived,  \* history: the items in the order their events reached the provider
  current,  \* history: the advertising provider has not restarted since
  told      \* history: mark_synced was called since the last download

providerVars  == <<snap, arrived, current>>
requesterVars == <<have, sync, told>>
vars == <<clock, stamp, providerVars, advert, conn, wire, requesterVars>>

\* The types; nothing is listed twice and the ring keeps its size.
TypeOK ==
  /\ clock \in 0..MaxTime
  /\ stamp \in [Items -> Stamps \cup {None}]
  /\ snap # None => /\ snap \in Snapshots
                    /\ IsInjective(snap.listed)
                    /\ Len(snap.chats) <= MaxChats
  /\ advert # None => advert \in [count : Nat, ts : Stamps]
  /\ conn \in [Downloads -> {"idle", "open", "answered"}]
  /\ wire \in [Downloads -> Snapshots \cup {None}]
  /\ \A d \in Downloads : conn[d] = "answered" <=> wire[d] # None
  /\ have = None \/ have \in Snapshots
  /\ sync \in Stamps \cup {None}
  /\ arrived \in Seq(Items)
  /\ current \in BOOLEAN /\ told \in BOOLEAN

Init ==
  /\ clock = 0
  /\ stamp = [i \in Items |-> None]
  /\ snap = None
  /\ advert = None
  /\ conn = [d \in Downloads |-> "idle"]
  /\ wire = [d \in Downloads |-> None]
  /\ have = None
  /\ sync = None
  /\ arrived = <<>>
  /\ current = FALSE
  /\ told = FALSE

-----------------------------------------------------------------------------
(* SnapshotProvider.                                                       *)

Empty == [group |-> None, listed |-> <<>>, chats |-> <<>>, ts |-> 0]

\* 1 for the group, whether or not a GroupCreated has come.
Count(s) == 1 + Len(s.listed) + Len(s.chats)

\* MUTANTS of Ringed: a full ring keeps the oldest; a full ring starts anew.
RingKeepsOldest(chats, i) == IF Len(chats) >= MaxChats THEN chats ELSE Append(chats, i)
RingStartsAnew(chats, i) == IF Len(chats) >= MaxChats THEN <<i>> ELSE Append(chats, i)

\* recent_chats: the oldest goes when the ring is full.
Ringed(chats, i) ==
  IF Len(chats) >= MaxChats THEN Append(Tail(chats), i) ELSE Append(chats, i)

\* MUTANT of WithItem: the test for the id is dropped.
ListedAgain(listed, i) == Append(listed, i)

\* Workspaces, boards and files: an id already listed is left alone.
WithItem(listed, i) == IF i \in Range(listed) THEN listed ELSE Append(listed, i)

\* The snapshot s after the event of item i; a payload of another type, or one
\* that does not parse, still sets snapshot_ts.
Updated(s, i) ==
  [group  |-> IF Kind[i] = "group" THEN i ELSE s.group,
   listed |-> IF Kind[i] = "listed" THEN WithItem(s.listed, i) ELSE s.listed,
   chats  |-> IF Kind[i] = "chat" THEN Ringed(s.chats, i) ELSE s.chats,
   ts     |-> stamp[i]]

\* update_from_event: in whatever order, and as often as, the event comes.
UpdateFromEvent(i) ==
  /\ stamp[i] # None
  /\ Len(arrived) < MaxArrivals
  /\ snap' = Updated(IF snap = None THEN Empty ELSE snap, i)
  /\ arrived' = Append(arrived, i)
  /\ UNCHANGED <<clock, stamp, current, advert, conn, wire, requesterVars>>

\* handle_request.
HandleRequest ==
  /\ snap # None
  /\ advert' = [count |-> Count(snap), ts |-> snap.ts]
  /\ current' = TRUE
  /\ UNCHANGED <<clock, stamp, snap, arrived, conn, wire, requesterVars>>

\* MUTANT of ServeSnapshot: the reply goes out on a stream of its own, and
\* the requester's finds its end.
ServeOnFreshStream(d) ==
  /\ conn[d] = "open"
  /\ conn' = [conn EXCEPT ![d] = "idle"]
  /\ UNCHANGED wire
  /\ UNCHANGED <<clock, stamp, providerVars, advert, requesterVars>>

\* serve_snapshot: one consistent copy, or an error that ends the stream.
ServeSnapshot(d) ==
  /\ conn[d] = "open"
  /\ conn' = [conn EXCEPT ![d] = IF snap = None THEN "idle" ELSE "answered"]
  /\ wire' = [wire EXCEPT ![d] = snap]
  /\ UNCHANGED <<clock, stamp, providerVars, advert, requesterVars>>

\* The provider's process restarts: its snapshots are in memory.
ProviderRestart ==
  /\ "crash" \in Faults
  /\ snap' = None
  /\ arrived' = <<>>
  /\ current' = FALSE
  /\ conn' = [d \in Downloads |-> "idle"]
  /\ wire' = [d \in Downloads |-> None]
  /\ UNCHANGED <<clock, stamp, advert, requesterVars>>

-----------------------------------------------------------------------------
(* SnapshotRequester.                                                      *)

\* now - last_ts > 6 * 3600, in u64: a last_ts ahead of now wraps around (in a
\* release build; a debug build panics).
Overdue == IF sync = None THEN FALSE ELSE (clock - sync) % Word > Period

\* needs_snapshot.
Needs == sync = None \/ Overdue

\* local_item_count: what the application has of the group.  One that has more,
\* by events, asks less often.
LocalCount == IF have = None THEN 0 ELSE Count(have)

\* should_request_snapshot(local_item_count, remote_item_count, last_sync_ts).
ShouldRequest(local, remote) ==
  \/ local = 0
  \/ remote > (local * 12) \div 10
  \/ Overdue

\* MUTANT of Connect: sync_state is set when the download starts.
ConnectMarksSynced(d) ==
  /\ conn[d] = "idle"
  /\ Needs \/ (advert # None /\ ShouldRequest(LocalCount, advert.count))
  /\ conn' = [conn EXCEPT ![d] = "open"]
  /\ sync' = clock
  /\ UNCHANGED <<clock, stamp, providerVars, advert, wire, have, told>>

\* download_snapshot up to its request, where either test asks for it.
Connect(d) ==
  /\ conn[d] = "idle"
  /\ Needs \/ (advert # None /\ ShouldRequest(LocalCount, advert.count))
  /\ conn' = [conn EXCEPT ![d] = "open"]
  /\ UNCHANGED <<clock, stamp, providerVars, advert, wire, requesterVars>>

\* download_snapshot from the reply on: the last call to end sets sync_state,
\* whichever copy was the older.
Downloaded(d) ==
  /\ conn[d] = "answered"
  /\ have' = wire[d]
  /\ sync' = wire[d].ts
  /\ told' = FALSE
  /\ conn' = [conn EXCEPT ![d] = "idle"]
  /\ wire' = [wire EXCEPT ![d] = None]
  /\ UNCHANGED <<clock, stamp, providerVars, advert>>

\* mark_synced, which asks for no snapshot: an application calls it "after
\* receiving snapshot or catching up via events", with the time it likes.
MarkSynced(ts) ==
  /\ sync' = ts
  /\ told' = TRUE
  /\ UNCHANGED <<clock, stamp, providerVars, advert, conn, wire, have>>

\* The connection breaks: download_snapshot returns its error.
Broken(d) ==
  /\ "loss" \in Faults
  /\ conn[d] # "idle"
  /\ conn' = [conn EXCEPT ![d] = "idle"]
  /\ wire' = [wire EXCEPT ![d] = None]
  /\ UNCHANGED <<clock, stamp, providerVars, advert, requesterVars>>

-----------------------------------------------------------------------------
(* Authors and time.                                                       *)

Create(i) ==
  /\ stamp[i] = None
  /\ \E skew \in 0..MaxSkew : stamp' = [stamp EXCEPT ![i] = clock + skew]
  /\ UNCHANGED <<clock, providerVars, advert, conn, wire, requesterVars>>

Tick ==
  /\ clock < MaxTime
  /\ clock' = clock + 1
  /\ UNCHANGED <<stamp, providerVars, advert, conn, wire, requesterVars>>

Next ==
  \/ \E i \in Items : Create(i) \/ UpdateFromEvent(i)
  \/ HandleRequest
  \/ \E d \in Downloads : Connect(d) \/ ServeSnapshot(d) \/ Downloaded(d) \/ Broken(d)
  \/ ProviderRestart
  \/ \E ts \in Marks : MarkSynced(ts)
  \/ Tick

Spec == Init /\ [][Next]_vars

\* The embedding program accepts and serves streams, acts on needs_snapshot
\* and awaits its downloads; streams break now and then, not every one of them.
FairSpec ==
  /\ Spec
  /\ WF_vars(\E d \in Downloads : Connect(d))
  /\ SF_vars(\E d \in Downloads : ServeSnapshot(d))
  /\ SF_vars(\E d \in Downloads : Downloaded(d))

-----------------------------------------------------------------------------
(* Properties.                                                             *)

\* What handle_request advertised is there to be served, with no fewer items:
\* a requester that comes for 20% more finds them, whatever events arrive and
\* fall out of the chat ring meanwhile.
ServesWhatItAdvertised ==
  (current /\ advert # None) =>
    /\ snap # None
    /\ Count(snap) >= advert.count

\* The positions of the chats in the sequence of events evs.
ChatsIn(evs) == {k \in DOMAIN evs : Kind[evs[k]] = "chat"}

\* The list chats holds the last MaxChats chats of evs, in their order: a chat
\* is as far from the end of the list as there are later ones.
IsRingOf(chats, evs) ==
  LET all == ChatsIn(evs)
      Later(k) == Cardinality({l \in all : l > k})
  IN  /\ Len(chats) = IF Cardinality(all) < MaxChats THEN Cardinality(all) ELSE MaxChats
      /\ \A k \in all : Later(k) < MaxChats => chats[Len(chats) - Later(k)] = evs[k]

\* The ring holds the chats that came last, in the order they came.
RingIsTheLatest == snap # None => IsRingOf(snap.chats, arrived)

\* Unless the application has said otherwise since, the time of the sync is
\* that of the snapshot the requester holds, and there is none without one: a
\* download that breaks off, one that overlaps with another and ends after it,
\* or a provider without the group, makes the two differ at no moment.
SyncedByReceipt ==
  ~told => sync = (IF have = None THEN None ELSE have.ts)

\* Once a provider has the group and keeps it, a requester that has nothing gets
\* it, whatever broke off before and however often streams break still; but
\* the application may call it off by mark_synced.
GetsASnapshot == <>[](snap # None) => <>(have # None \/ told)

\* needs_snapshot: "Request new snapshot if last sync was > 6 hours ago": not
\* right after a download.
RequestsOnlyAfterPeriod ==
  [][\A d \in Downloads : Downloaded(d) => ~Needs']_vars
=============================================================================
