----------------------------- MODULE BlobSwarm ------------------------------
(***************************************************************************)
(* Blob swarming (src/swarm.rs): every participant has an in-memory store  *)
(* of content-addressed blobs and a registry of the holders it has heard   *)
(* of.  IHave and WhoHas travel over a gossip topic that belongs to the    *)
(* caller (tests/substrate_swarm.rs shows the pump); a fetch goes through  *)
(* the holders one by one and resumes from the chunks that are there.      *)
(*                                                                         *)
(* Several fetches may run on one participant at a time.  A fetch is one   *)
(* step per await: dial, each chunk, the end of the transfer, the end.     *)
(* iroh-blobs and the gossip topic are external: a chunk reaches a store   *)
(* only verified, so that a chunk is its blob's.                           *)
(***************************************************************************)
EXTENDS FiniteSets, Naturals

CONSTANTS
  Nodes,    \* the participants, told apart by node_id
  Blobs,    \* the Blake3 hashes
  Chunks,   \* the chunks of every blob
  Fetches,  \* the calls of fetch that may run at a time
  Adders,   \* bound: the participants whose application adds blobs
  Askers,   \* bound: those whose application asks for blobs and fetches them
  Leavers,  \* bound: those that may leave
  MaxOnWire,\* bound: copies under way when an application sends one more
  None,
  Faults    \* the kinds of fault the environment may inject

FaultKinds == {"crash", "slow", "break", "stall", "loss", "dup", "misname"}

ASSUME ChunkAssumption == Chunks # {}
ASSUME UserAssumption == Adders \subseteq Nodes /\ Askers \subseteq Nodes /\ Leavers \subseteq Nodes
ASSUME WireAssumption == MaxOnWire \in Nat
ASSUME NoneAssumption == None \notin Nodes
ASSUME SwarmFaultAssumption == Faults \subseteq FaultKinds

VARIABLES
  up,       \* the BlobSwarm exists and its Router accepts
  store,    \* MemStore: the chunks of each blob that are there
  holders,  \* the registry: node ids by hash
  wire,     \* SwarmMessages on their way to each participant
  fetch,    \* the calls of fetch
  held,     \* history: who ever had each blob whole
  calm      \* gossip no longer loses messages

vars == <<up, store, holders, wire, fetch, held, calm>>

Messages == [type : {"IHave", "WhoHas"}, hash : Blobs, node : Nodes]

\* A call that runs, returned an error after its last provider, or refused its
\* list: its participant and hash, the providers still to be dialled, the one it
\* is connected to and whether that one has stopped serving it; steady (history)
\* are the listed providers that had the whole blob and could be reached ever
\* since the call began.
Calls == [st : {"running", "err", "refused"}, node : Nodes, hash : Blobs,
          todo : SUBSET Nodes, conn : Nodes \cup {None}, stall : BOOLEAN,
          steady : SUBSET Nodes]

\* The types, and that nothing of a participant outlives it.
TypeOK ==
  /\ up \in [Nodes -> BOOLEAN]
  /\ store \in [Nodes -> [Blobs -> SUBSET Chunks]]
  /\ holders \in [Nodes -> [Blobs -> SUBSET Nodes]]
  /\ wire \in [Nodes -> SUBSET Messages]
  /\ fetch \in [Fetches -> Calls \cup {None}]
  /\ held \in [Blobs -> SUBSET Nodes]
  /\ calm \in BOOLEAN
  /\ \A n \in Nodes : ~up[n] =>
       /\ wire[n] = {}
       /\ \A h \in Blobs : store[n][h] = {} /\ holders[n][h] = {}
       /\ \A t \in Fetches : fetch[t] # None => n \notin {fetch[t].node, fetch[t].conn}

Init ==
  /\ up = [n \in Nodes |-> TRUE]
  /\ store = [n \in Nodes |-> [h \in Blobs |-> {}]]
  /\ holders = [n \in Nodes |-> [h \in Blobs |-> {}]]
  /\ wire = [n \in Nodes |-> {}]
  /\ fetch = [t \in Fetches |-> None]
  /\ held = [h \in Blobs |-> {}]
  /\ calm = ("loss" \notin Faults)

\* has().
Has(n, h) == store[n][h] = Chunks

Running(t) == fetch[t] # None /\ fetch[t].st = "running"

\* The call waits for a provider that lives and serves it no more.
Stalled(t) == Running(t) /\ fetch[t].stall

-----------------------------------------------------------------------------
(* The application and the negotiation.                                    *)

\* add().
Add(n, h) ==
  /\ up[n] /\ n \in Adders
  /\ store' = [store EXCEPT ![n][h] = Chunks]
  /\ held' = [held EXCEPT ![h] = @ \cup {n}]
  /\ UNCHANGED <<up, holders, wire, fetch, calm>>

MayBroadcast == Cardinality(UNION {{n} \X wire[n] : n \in Nodes}) < MaxOnWire

Sent(n, msg) == [k \in Nodes |-> wire[k] \cup {m \in {msg} : up[k] /\ k # n}]

\* announce() of a blob the participant holds, broadcast by the caller.
Announce(n, h) ==
  /\ up[n] /\ Has(n, h)
  /\ MayBroadcast
  /\ wire' = Sent(n, [type |-> "IHave", hash |-> h, node |-> n])
  /\ UNCHANGED <<up, store, holders, fetch, held, calm>>

\* query(), broadcast by the caller until it knows a holder.
Ask(n, h) ==
  /\ up[n] /\ n \in Askers
  /\ holders[n][h] = {}
  /\ MayBroadcast
  /\ wire' = Sent(n, [type |-> "WhoHas", hash |-> h, node |-> n])
  /\ UNCHANGED <<up, store, holders, fetch, held, calm>>

\* MUTANT of OnIHave: the participant's own announcements are recorded too.
OnIHaveAlsoOwn(n, m) ==
  holders' = [holders EXCEPT ![n][m.hash] = @ \cup {m.node}]

\* MUTANT of OnIHave: only a hash that has an entry gets one more holder.
OnIHaveOfKnown(n, m) ==
  holders' = [holders EXCEPT ![n][m.hash] = IF @ = {} THEN @ ELSE @ \cup ({m.node} \ {n})]

\* record_holder.
OnIHave(n, m) ==
  holders' = [holders EXCEPT ![n][m.hash] = @ \cup ({m.node} \ {n})]

\* on_message of an IHave.
HearsIHave(n, m) ==
  /\ m \in wire[n] /\ m.type = "IHave"
  /\ OnIHave(n, m)
  /\ wire' = [wire EXCEPT ![n] = @ \ {m}]
  /\ UNCHANGED <<up, store, fetch, held, calm>>

\* MUTANT of HearsWhoHas: the asker is answered before it is looked whether
\* the blob is there.
AnswersAlways(n, m) ==
  /\ m \in wire[n] /\ m.type = "WhoHas"
  /\ wire' = [Sent(n, [type |-> "IHave", hash |-> m.hash, node |-> n]) EXCEPT ![n] = @ \ {m}]
  /\ UNCHANGED <<up, store, holders, fetch, held, calm>>

\* on_message of a WhoHas, and the pump that broadcasts the reply.
HearsWhoHas(n, m) ==
  /\ m \in wire[n] /\ m.type = "WhoHas"
  /\ LET reply == [type |-> "IHave", hash |-> m.hash, node |-> n] IN
       wire' = [IF Has(n, m.hash) THEN Sent(n, reply) ELSE wire EXCEPT ![n] = @ \ {m}]
  /\ UNCHANGED <<up, store, holders, fetch, held, calm>>

Lose(n, m) ==
  /\ ~calm
  /\ m \in wire[n]
  /\ wire' = [wire EXCEPT ![n] = @ \ {m}]
  /\ UNCHANGED <<up, store, holders, fetch, held, calm>>

Calms ==
  /\ ~calm
  /\ calm' = TRUE
  /\ UNCHANGED <<up, store, holders, wire, fetch, held>>

\* Gossip brings an old announcement once more, to a restarted participant
\* its own too.
Repeat(n, h, p) ==
  /\ "dup" \in Faults
  /\ up[n] /\ p \in held[h]
  /\ MayBroadcast
  /\ wire' = [wire EXCEPT ![n] = @ \cup {[type |-> "IHave", hash |-> h, node |-> p]}]
  /\ UNCHANGED <<up, store, holders, fetch, held, calm>>

-----------------------------------------------------------------------------
(* fetch().                                                                *)

\* A call with the holders of the registry, whose order is a HashSet's; with
\* none it returns at once.
StartFetch(t, n, h) ==
  /\ up[n] /\ n \in Askers
  /\ ~Running(t)
  /\ holders[n][h] # {}
  /\ fetch' = [fetch EXCEPT ![t] =
       [st |-> "running", node |-> n, hash |-> h, todo |-> holders[n][h], conn |-> None,
        stall |-> FALSE, steady |-> {p \in holders[n][h] : up[p] /\ Has(p, h)}]]
  /\ UNCHANGED <<up, store, holders, wire, held, calm>>

\* One of the listed ids is no public key: the call returns an error at once,
\* whoever else is on the list.  Such an id, which the caller lists or a
\* participant created under it announced (new and record_holder take any
\* string), is not kept in holders: it could be there at any time.
RefusesList(t, n, h) ==
  /\ "misname" \in Faults
  /\ up[n] /\ n \in Askers
  /\ ~Running(t)
  /\ fetch' = [fetch EXCEPT ![t] =
       [st |-> "refused", node |-> n, hash |-> h, todo |-> {}, conn |-> None,
        stall |-> FALSE, steady |-> {}]]
  /\ UNCHANGED <<up, store, holders, wire, held, calm>>

\* The head of the loop: the blob is not there yet, so a holder is next.
Tries(t, p) ==
  /\ Running(t)
  /\ fetch[t].conn = None
  /\ ~Has(fetch[t].node, fetch[t].hash)
  /\ p \in fetch[t].todo
  /\ UNCHANGED <<up, store, holders, wire, held, calm>>

DialOk(t, p) ==
  /\ Tries(t, p)
  /\ up[p]
  /\ fetch' = [fetch EXCEPT ![t].todo = @ \ {p}, ![t].conn = p]

\* MUTANT of DialFails: the first holder that cannot be dialled ends the call.
DialFailureEnds(t, p) ==
  /\ Tries(t, p)
  /\ ~up[p] \/ "slow" \in Faults
  /\ fetch' = [fetch EXCEPT ![t].st = "err", ![t].steady = @ \ {p}]

\* An error, or DIAL_TIMEOUT: on to the next holder.
DialFails(t, p) ==
  /\ Tries(t, p)
  /\ ~up[p] \/ "slow" \in Faults
  /\ fetch' = [fetch EXCEPT ![t].todo = @ \ {p}, ![t].steady = @ \ {p}]

\* remote.fetch: a chunk that is missing here and there at the provider.
Transfer(t, c) ==
  /\ Running(t) /\ ~fetch[t].stall
  /\ fetch[t].conn # None
  /\ LET n == fetch[t].node
         h == fetch[t].hash
     IN  /\ c \in store[fetch[t].conn][h] \ store[n][h]
         /\ store' = [store EXCEPT ![n][h] = @ \cup {c}]
         /\ held' = [held EXCEPT ![h] = IF store'[n][h] = Chunks THEN @ \cup {n} ELSE @]
  /\ UNCHANGED <<up, holders, wire, fetch, calm>>

\* remote.fetch returns: the blob is whole, or the provider has no more of it.
TransferEnds(t) ==
  /\ Running(t) /\ ~fetch[t].stall
  /\ fetch[t].conn # None
  /\ store[fetch[t].conn][fetch[t].hash] \subseteq store[fetch[t].node][fetch[t].hash]
  /\ fetch' = [fetch EXCEPT ![t].conn = None]
  /\ UNCHANGED <<up, store, holders, wire, held, calm>>

\* The provider lives, and its connection too, but it serves the call no more:
\* remote.fetch has no timeout.
Stalls(t) ==
  /\ "stall" \in Faults
  /\ Running(t)
  /\ fetch[t].conn # None
  /\ fetch' = [fetch EXCEPT ![t].stall = TRUE]
  /\ UNCHANGED <<up, store, holders, wire, held, calm>>

\* MUTANT of TransferBreaks: what a broken transfer left is thrown away.
BreakDiscards(t) ==
  /\ "break" \in Faults
  /\ Running(t)
  /\ fetch[t].conn # None
  /\ fetch' = [fetch EXCEPT ![t].conn = None, ![t].stall = FALSE,
                            ![t].steady = @ \ {fetch[t].conn}]
  /\ store' = [store EXCEPT ![fetch[t].node][fetch[t].hash] = {}]
  /\ UNCHANGED <<up, holders, wire, held, calm>>

\* remote.fetch returns an error: the connection broke.
TransferBreaks(t) ==
  /\ "break" \in Faults
  /\ Running(t)
  /\ fetch[t].conn # None
  /\ fetch' = [fetch EXCEPT ![t].conn = None, ![t].stall = FALSE,
                            ![t].steady = @ \ {fetch[t].conn}]
  /\ UNCHANGED <<up, store, holders, wire, held, calm>>

\* MUTANT of Returns: the end of the list is not looked at while there is a
\* part of the blob.
ReturnsWhenWhole(t) ==
  /\ Running(t)
  /\ fetch[t].conn = None
  /\ LET n == fetch[t].node
         h == fetch[t].hash
     IN  \/ /\ Has(n, h)
            /\ fetch' = [fetch EXCEPT ![t] = None]
         \/ /\ store[n][h] = {} /\ fetch[t].todo = {}
            /\ fetch' = [fetch EXCEPT ![t].st = "err"]
  /\ UNCHANGED <<up, store, holders, wire, held, calm>>

\* The blob is there, by whichever call or add, or the list is at its end.
Returns(t) ==
  /\ Running(t)
  /\ fetch[t].conn = None
  /\ LET n == fetch[t].node
         h == fetch[t].hash
     IN  \/ /\ Has(n, h)
            /\ fetch' = [fetch EXCEPT ![t] = None]
         \/ /\ ~Has(n, h) /\ fetch[t].todo = {}
            /\ fetch' = [fetch EXCEPT ![t].st = "err"]
  /\ UNCHANGED <<up, store, holders, wire, held, calm>>

-----------------------------------------------------------------------------
(* The participant.                                                        *)

\* MUTANT of WithoutNode: the other end holds on to its connection.
WithoutOwnCalls(call, n) ==
  IF call = None \/ call.node = n THEN None
  ELSE IF call.st # "running" THEN call
  ELSE [call EXCEPT !.steady = @ \ {n}]

\* What the end of n leaves of a call: nothing of its own, and no connection
\* to it, which the other end notices.
WithoutNode(call, n) ==
  IF call = None \/ call.node = n THEN None
  ELSE IF call.st # "running" THEN call
  ELSE [call EXCEPT !.conn = IF @ = n THEN None ELSE @,
                    !.stall = @ /\ call.conn # n, !.steady = @ \ {n}]

\* The BlobSwarm is dropped or its process ends: the store is in memory.
Crash(n) ==
  /\ "crash" \in Faults
  /\ up[n] /\ n \in Leavers
  /\ up' = [up EXCEPT ![n] = FALSE]
  /\ store' = [store EXCEPT ![n] = [h \in Blobs |-> {}]]
  /\ holders' = [holders EXCEPT ![n] = [h \in Blobs |-> {}]]
  /\ wire' = [wire EXCEPT ![n] = {}]
  /\ fetch' = [t \in Fetches |-> WithoutNode(fetch[t], n)]
  /\ UNCHANGED <<held, calm>>

\* BlobSwarm::new under the same node id.
Restart(n) ==
  /\ ~up[n]
  /\ up' = [up EXCEPT ![n] = TRUE]
  /\ UNCHANGED <<store, holders, wire, fetch, held, calm>>

-----------------------------------------------------------------------------
Negotiation ==
  \E n \in Nodes :
    \/ \E h \in Blobs : Announce(n, h) \/ Ask(n, h) \/ \E p \in Nodes : Repeat(n, h, p)
    \/ \E m \in wire[n] : HearsIHave(n, m) \/ HearsWhoHas(n, m) \/ Lose(n, m)

\* A call of fetch does what is next; these exclude each other.
GoesOn(t) ==
  \/ \E p \in Nodes : DialOk(t, p) \/ DialFails(t, p)
  \/ \E c \in Chunks : Transfer(t, c)
  \/ TransferEnds(t)
  \/ Returns(t)

Fetching ==
  \E t \in Fetches :
    \/ \E n \in Nodes, h \in Blobs : StartFetch(t, n, h) \/ RefusesList(t, n, h)
    \/ GoesOn(t) \/ TransferBreaks(t) \/ Stalls(t)

Next ==
  \/ Negotiation \/ Calms
  \/ Fetching
  \/ \E n \in Nodes : Crash(n) \/ Restart(n) \/ \E h \in Blobs : Add(n, h)

Spec == Init /\ [][Next]_vars

\* Callers ask until they know a holder (as the test does; strongly fair only
\* because the bound on the wire now and then stands in the way), and a
\* participant works off what gossip brings it; a call of fetch goes on, each
\* dial within DIAL_TIMEOUT.  A transfer goes on only while its provider serves
\* it: a stalled one is owed nothing, and a broken connection is a fault.
Fairness ==
  /\ \A n \in Askers, h \in Blobs : SF_vars(Ask(n, h))
  /\ \A n \in Nodes : WF_vars(\E m \in wire[n] : HearsIHave(n, m) \/ HearsWhoHas(n, m))
  /\ \A t \in Fetches : WF_vars(GoesOn(t))

FairSpec == Spec /\ Fairness

-----------------------------------------------------------------------------
\* A registry lists only participants that did hold the blob at some time,
\* and never its own, whatever gossip loses, repeats or echoes (on_message,
\* record_holder); whether they hold it still is not known.
HoldersDidHold ==
  \A n \in Nodes, h \in Blobs : holders[n][h] \subseteq held[h] \ {n}

\* "A single holder leaving therefore never fails the download as long as
\* some holder in the set can serve the rest" (fetch): a call that returns an
\* error after its last holder saw every listed one gone, without the blob, or
\* out of reach at some time since it began.
FailsOnlyWithoutHolder ==
  \A t \in Fetches : fetch[t] # None => (fetch[t].st = "err" => fetch[t].steady = {})

\* "Resumes from where the previous left off" (fetch): no failing holder and
\* no concurrent call costs a participant a chunk it has.
ChunksStay ==
  [][\A n \in Nodes : up[n] /\ up'[n] => \A h \in Blobs : store[n][h] \subseteq store'[n][h]]_vars

\* "Churn falls through to the next holder quickly instead of stalling the
\* fetch": whatever its holders do, a call of fetch returns, unless it is left
\* waiting for ever, past DIAL_TIMEOUT, on one holder that lives and stalls.
FetchReturns ==
  \A t \in Fetches : Running(t) ~> (~Running(t) \/ []Stalled(t))

\* A participant that asks comes to know a holder, if one stays and gossip
\* stops losing messages (the oracle of blob_ihave_whohas_negotiates).
AskerLearns ==
  \A n \in Askers, h \in Blobs : \A p \in Nodes \ {n} :
    <>[](calm /\ up[n] /\ up[p] /\ Has(p, h)) => <>(holders[n][h] # {})
=============================================================================
