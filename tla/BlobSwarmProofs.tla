--------------------------- MODULE BlobSwarmProofs ----------------------------
(***************************************************************************)
(* Proofs about BlobSwarm, for every set of participants, blobs, chunks    *)
(* and concurrent fetches, every bound on the wire and every combination   *)
(* of faults.                                                              *)
(***************************************************************************)
EXTENDS BlobSwarm, TLAPS

-----------------------------------------------------------------------------
(* What each kind of step may do.                                          *)

\* No step but the end of a participant takes a chunk from it, and only then
\* does it go down.
LEMMA ChunksGrow ==
  ASSUME TypeOK, [Next]_vars, NEW n \in Nodes, ~Crash(n), NEW h \in Blobs
  PROVE  (up[n] => up'[n]) /\ store[n][h] \subseteq store'[n][h]
<1> DEFINE Goal == (up[n] => up'[n]) /\ store[n][h] \subseteq store'[n][h]
<1>s. ASSUME UNCHANGED <<up, store>> PROVE Goal
  BY <1>s
<1>u. CASE UNCHANGED vars
  BY <1>u DEF vars
<1>1. CASE Negotiation \/ Calms
  BY <1>1, <1>s
  DEF Negotiation, Announce, Ask, Repeat, HearsIHave, HearsWhoHas, Lose, Calms
<1>2. CASE \E t \in Fetches :
             \/ \E k \in Nodes, b \in Blobs : StartFetch(t, k, b) \/ RefusesList(t, k, b)
             \/ \E p \in Nodes : DialOk(t, p) \/ DialFails(t, p)
             \/ TransferEnds(t) \/ TransferBreaks(t) \/ Stalls(t) \/ Returns(t)
  BY <1>2, <1>s
  DEF StartFetch, RefusesList, DialOk, DialFails, Tries, TransferEnds, TransferBreaks, Stalls,
      Returns
<1>3. ASSUME NEW t \in Fetches, NEW c \in Chunks, Transfer(t, c) PROVE Goal
  <2>1. /\ fetch[t] \in Calls /\ UNCHANGED up
        /\ store' = [store EXCEPT ![fetch[t].node][fetch[t].hash] = @ \cup {c}]
    BY <1>3 DEF Transfer, Running, TypeOK
  <2>2. fetch[t].node \in Nodes /\ fetch[t].hash \in Blobs
    BY <2>1 DEF Calls
  <2>3. QED BY <2>1, <2>2 DEF TypeOK
<1>4. ASSUME NEW k \in Nodes, Crash(k) PROVE Goal
  <2>1. k # n
    BY <1>4
  <2>2. QED BY <1>4, <2>1 DEF Crash, TypeOK
<1>5. ASSUME NEW k \in Nodes, Restart(k) PROVE Goal
  BY <1>5 DEF Restart, TypeOK
<1>6. ASSUME NEW k \in Nodes, NEW b \in Blobs, Add(k, b) PROVE Goal
  BY <1>6 DEF Add, TypeOK
<1>7. QED BY <1>u, <1>1, <1>2, <1>3, <1>4, <1>5, <1>6 DEF Next, Fetching, GoesOn

\* A broadcast reaches participants that are up, and is the message sent.
LEMMA SentIs ==
  ASSUME TypeOK, NEW n \in Nodes, NEW msg \in Messages
  PROVE  /\ Sent(n, msg) \in [Nodes -> SUBSET Messages]
         /\ \A k \in Nodes : ~up[k] => Sent(n, msg)[k] = {}
         /\ \A k \in Nodes : Sent(n, msg)[k] \subseteq wire[k] \cup {msg}
  BY DEF Sent, TypeOK

\* What the negotiation puts on the wire: nothing, an IHave of a participant
\* that has the blob or had it, or a WhoHas.
LEMMA NegotiationIs ==
  ASSUME TypeOK, Negotiation \/ Calms
  PROVE  /\ UNCHANGED <<up, store, fetch, held>>
         /\ calm' \in BOOLEAN
         /\ wire' \in [Nodes -> SUBSET Messages]
         /\ \A k \in Nodes : ~up[k] => wire'[k] = {}
         /\ \A k \in Nodes : \A m \in wire'[k] :
              \/ m \in wire[k]
              \/ m.type = "WhoHas"
              \/ Has(m.node, m.hash) \/ m.node \in held[m.hash]
         /\ \/ holders' = holders
            \/ \E n \in Nodes : \E m \in wire[n] :
                 /\ m \in Messages /\ m.type = "IHave" /\ up[n]
                 /\ holders' = [holders EXCEPT ![n][m.hash] = @ \cup ({m.node} \ {n})]
<1> DEFINE Goal ==
      /\ UNCHANGED <<up, store, fetch, held>>
      /\ calm' \in BOOLEAN
      /\ wire' \in [Nodes -> SUBSET Messages]
      /\ \A k \in Nodes : ~up[k] => wire'[k] = {}
      /\ \A k \in Nodes : \A m \in wire'[k] :
           \/ m \in wire[k]
           \/ m.type = "WhoHas"
           \/ Has(m.node, m.hash) \/ m.node \in held[m.hash]
      /\ \/ holders' = holders
         \/ \E n \in Nodes : \E m \in wire[n] :
              /\ m \in Messages /\ m.type = "IHave" /\ up[n]
              /\ holders' = [holders EXCEPT ![n][m.hash] = @ \cup ({m.node} \ {n})]
<1>t. /\ wire \in [Nodes -> SUBSET Messages] /\ calm \in BOOLEAN
      /\ \A k \in Nodes : ~up[k] => wire[k] = {}
  BY DEF TypeOK
<1>1. ASSUME NEW n \in Nodes, NEW h \in Blobs, Announce(n, h) PROVE Goal
  <2> DEFINE msg == [type |-> "IHave", hash |-> h, node |-> n]
  <2>1. msg \in Messages /\ msg.node = n /\ msg.hash = h
    BY DEF Messages
  <2>2. wire' = Sent(n, msg) /\ Has(n, h) /\ UNCHANGED <<up, store, holders, fetch, held, calm>>
    BY <1>1 DEF Announce
  <2> HIDE DEF msg
  <2>3. \A k \in Nodes : wire'[k] \subseteq wire[k] \cup {msg} /\ (~up[k] => wire'[k] = {})
    BY <2>1, <2>2, SentIs
  <2>4. wire' \in [Nodes -> SUBSET Messages]
    BY <2>1, <2>2, SentIs
  <2>5. QED BY <1>t, <2>1, <2>2, <2>3, <2>4
<1>2. ASSUME NEW n \in Nodes, NEW h \in Blobs, Ask(n, h) PROVE Goal
  <2> DEFINE msg == [type |-> "WhoHas", hash |-> h, node |-> n]
  <2>1. msg \in Messages /\ msg.type = "WhoHas"
    BY DEF Messages
  <2>2. wire' = Sent(n, msg) /\ UNCHANGED <<up, store, holders, fetch, held, calm>>
    BY <1>2 DEF Ask
  <2> HIDE DEF msg
  <2>3. \A k \in Nodes : wire'[k] \subseteq wire[k] \cup {msg} /\ (~up[k] => wire'[k] = {})
    BY <2>1, <2>2, SentIs
  <2>4. wire' \in [Nodes -> SUBSET Messages]
    BY <2>1, <2>2, SentIs
  <2>5. QED BY <1>t, <2>1, <2>2, <2>3, <2>4
<1>3. ASSUME NEW n \in Nodes, NEW h \in Blobs, NEW p \in Nodes, Repeat(n, h, p) PROVE Goal
  <2> DEFINE msg == [type |-> "IHave", hash |-> h, node |-> p]
  <2>1. msg \in Messages /\ msg.node = p /\ msg.hash = h
    BY DEF Messages
  <2>2. /\ wire' = [wire EXCEPT ![n] = @ \cup {msg}] /\ up[n] /\ p \in held[h]
        /\ UNCHANGED <<up, store, holders, fetch, held, calm>>
    BY <1>3 DEF Repeat
  <2> HIDE DEF msg
  <2>3. \A k \in Nodes : wire'[k] \subseteq wire[k] \cup {msg} /\ (~up[k] => wire'[k] = {})
    BY <1>t, <2>2
  <2>4. wire' \in [Nodes -> SUBSET Messages]
    BY <1>t, <2>1, <2>2
  <2>5. QED BY <1>t, <2>1, <2>2, <2>3, <2>4
<1>4. ASSUME NEW n \in Nodes, NEW m \in wire[n], HearsIHave(n, m) PROVE Goal
  <2>1. /\ m \in wire[n] /\ m.type = "IHave"
        /\ holders' = [holders EXCEPT ![n][m.hash] = @ \cup ({m.node} \ {n})]
        /\ wire' = [wire EXCEPT ![n] = @ \ {m}] /\ UNCHANGED <<up, store, fetch, held, calm>>
    BY <1>4 DEF HearsIHave, OnIHave
  <2>2. up[n]
    BY <1>t, <2>1
  <2>3. /\ wire' \in [Nodes -> SUBSET Messages]
        /\ \A k \in Nodes : wire'[k] \subseteq wire[k]
    BY <1>t, <2>1
  <2>4. QED BY <1>t, <2>1, <2>2, <2>3
<1>5. ASSUME NEW n \in Nodes, NEW m \in wire[n], HearsWhoHas(n, m) PROVE Goal
  <2> DEFINE reply == [type |-> "IHave", hash |-> m.hash, node |-> n]
  <2>1. reply \in Messages /\ reply.node = n /\ reply.hash = m.hash
    BY <1>t DEF Messages
  <2>2. /\ wire' = [IF Has(n, m.hash) THEN Sent(n, reply) ELSE wire EXCEPT ![n] = @ \ {m}]
        /\ UNCHANGED <<up, store, holders, fetch, held, calm>>
    BY <1>5 DEF HearsWhoHas
  <2> HIDE DEF reply
  <2>3. CASE Has(n, m.hash)
    <3>1. wire' = [Sent(n, reply) EXCEPT ![n] = @ \ {m}]
      BY <2>2, <2>3
    <3>2. /\ Sent(n, reply) \in [Nodes -> SUBSET Messages]
          /\ \A k \in Nodes : ~up[k] => Sent(n, reply)[k] = {}
          /\ \A k \in Nodes : Sent(n, reply)[k] \subseteq wire[k] \cup {reply}
      BY <2>1, SentIs
    <3>3. /\ wire' \in [Nodes -> SUBSET Messages]
          /\ \A k \in Nodes : wire'[k] \subseteq Sent(n, reply)[k]
      BY <3>1, <3>2
    <3>4. \A k \in Nodes : wire'[k] \subseteq wire[k] \cup {reply} /\ (~up[k] => wire'[k] = {})
      BY <3>2, <3>3
    <3>5. QED BY <1>t, <2>1, <2>2, <2>3, <3>3, <3>4
  <2>4. CASE ~Has(n, m.hash)
    <3>1. wire' = [wire EXCEPT ![n] = @ \ {m}]
      BY <2>2, <2>4
    <3>2. QED BY <1>t, <2>2, <3>1
  <2>5. QED BY <2>3, <2>4
<1>6. ASSUME NEW n \in Nodes, NEW m \in wire[n], Lose(n, m) PROVE Goal
  <2>1. /\ wire' = [wire EXCEPT ![n] = @ \ {m}]
        /\ UNCHANGED <<up, store, holders, fetch, held, calm>>
    BY <1>6 DEF Lose
  <2>2. QED BY <1>t, <2>1
<1>7. CASE Calms
  BY <1>t, <1>7 DEF Calms
<1>8. QED BY <1>1, <1>2, <1>3, <1>4, <1>5, <1>6, <1>7 DEF Negotiation

-----------------------------------------------------------------------------
(* Types and calls.                                                        *)

\* A listed provider that was there and had the blob whole all along is there
\* and has it: the call is still to dial it or connected to it, unless the
\* caller has the blob by now.  A call that is not running is connected to
\* nobody, and no such provider was left.
CallsAreTrue ==
  \A t \in Fetches : fetch[t] # None =>
    /\ fetch[t].st # "running" => fetch[t].conn = None /\ fetch[t].steady = {}
    /\ \A p \in fetch[t].steady :
         /\ up[p] /\ Has(p, fetch[t].hash)
         /\ p \in fetch[t].todo \/ p = fetch[t].conn \/ Has(fetch[t].node, fetch[t].hash)

\* The inductive invariant.
CallInv == TypeOK /\ CallsAreTrue

\* No call runs at the start, and no blob is anywhere.
LEMMA CallInit == Init => CallInv
  BY DEF Init, CallInv, TypeOK, CallsAreTrue

\* A call c may replace the call in slot t without harm: it is of the right
\* type, its participant and its provider are up, and c is true.
FitCall(c) ==
  /\ c \in Calls
  /\ up[c.node] /\ (c.conn # None => up[c.conn])
  /\ c.st # "running" => c.conn = None /\ c.steady = {}
  /\ \A p \in c.steady :
       /\ up[p] /\ Has(p, c.hash)
       /\ p \in c.todo \/ p = c.conn \/ Has(c.node, c.hash)

\* Every call there is fits.
LEMMA CallsFit ==
  ASSUME CallInv, NEW t \in Fetches, fetch[t] # None
  PROVE  FitCall(fetch[t])
<1>1. fetch[t] \in Calls
  BY DEF CallInv, TypeOK
<1>2. fetch[t].node \in Nodes /\ fetch[t].conn \in Nodes \cup {None}
  BY <1>1 DEF Calls
<1>3. up[fetch[t].node] /\ (fetch[t].conn # None => up[fetch[t].conn])
  BY <1>2 DEF CallInv, TypeOK
<1>4. QED BY <1>1, <1>3 DEF CallInv, CallsAreTrue, FitCall

\* Replacing a call by one that fits, or by none, keeps the invariant.
LEMMA ReplacedCall ==
  ASSUME CallInv, NEW t \in Fetches, NEW c, c = None \/ FitCall(c),
         fetch' = [fetch EXCEPT ![t] = c], UNCHANGED <<up, store, holders, wire, held, calm>>
  PROVE  CallInv'
<1>1. \A u \in Fetches : fetch'[u] = IF u = t THEN c ELSE fetch[u]
  BY DEF CallInv, TypeOK
<1>2. fetch' \in [Fetches -> Calls \cup {None}]
  BY DEF CallInv, TypeOK, FitCall
<1>3. \A n \in Nodes : ~up'[n] =>
        \A u \in Fetches : fetch'[u] # None => n \notin {fetch'[u].node, fetch'[u].conn}
  <2>1. SUFFICES ASSUME NEW n \in Nodes, ~up[n], NEW u \in Fetches, fetch'[u] # None
                 PROVE  n \notin {fetch'[u].node, fetch'[u].conn}
    OBVIOUS
  <2>2. FitCall(fetch'[u])
    BY <1>1, <2>1, CallsFit
  <2>3. QED BY <2>1, <2>2, NoneAssumption DEF FitCall
<1>4. TypeOK'
  BY <1>2, <1>3 DEF CallInv, TypeOK
<1>5. CallsAreTrue'
  <2>1. SUFFICES ASSUME NEW u \in Fetches, fetch'[u] # None
                 PROVE  /\ fetch'[u].st # "running" => fetch'[u].conn = None /\ fetch'[u].steady = {}
                        /\ \A p \in fetch'[u].steady :
                             /\ up[p] /\ Has(p, fetch'[u].hash)
                             /\ \/ p \in fetch'[u].todo \/ p = fetch'[u].conn
                                \/ Has(fetch'[u].node, fetch'[u].hash)
    BY DEF CallsAreTrue, Has
  <2>2. FitCall(fetch'[u])
    BY <1>1, <2>1, CallsFit
  <2>3. QED BY <2>2 DEF FitCall
<1>6. QED BY <1>4, <1>5 DEF CallInv

\* Calls with one field or two replaced.
LEMMA CallWith ==
  ASSUME NEW c \in Calls, NEW x, NEW y
  PROVE  /\ [c EXCEPT !.st = x] =
              [st |-> x, node |-> c.node, hash |-> c.hash, todo |-> c.todo, conn |-> c.conn,
               stall |-> c.stall, steady |-> c.steady]
         /\ [c EXCEPT !.conn = x] =
              [st |-> c.st, node |-> c.node, hash |-> c.hash, todo |-> c.todo, conn |-> x,
               stall |-> c.stall, steady |-> c.steady]
         /\ [c EXCEPT !.stall = x] =
              [st |-> c.st, node |-> c.node, hash |-> c.hash, todo |-> c.todo, conn |-> c.conn,
               stall |-> x, steady |-> c.steady]
         /\ [c EXCEPT !.todo = x, !.conn = y] =
              [st |-> c.st, node |-> c.node, hash |-> c.hash, todo |-> x, conn |-> y,
               stall |-> c.stall, steady |-> c.steady]
         /\ [c EXCEPT !.todo = x, !.steady = y] =
              [st |-> c.st, node |-> c.node, hash |-> c.hash, todo |-> x, conn |-> c.conn,
               stall |-> c.stall, steady |-> y]
<1>1. [c EXCEPT !.st = x] =
        [st |-> x, node |-> c.node, hash |-> c.hash, todo |-> c.todo, conn |-> c.conn,
         stall |-> c.stall, steady |-> c.steady]
  BY DEF Calls
<1> DEFINE cx == [st |-> c.st, node |-> c.node, hash |-> c.hash, todo |-> c.todo, conn |-> x,
                  stall |-> c.stall, steady |-> c.steady]
           tx == [st |-> c.st, node |-> c.node, hash |-> c.hash, todo |-> x, conn |-> c.conn,
                  stall |-> c.stall, steady |-> c.steady]
<1>2. [c EXCEPT !.conn = x] = cx
  BY DEF Calls
<1>3. [c EXCEPT !.todo = x] = tx
  BY DEF Calls
<1>4. [c EXCEPT !.stall = x] =
        [st |-> c.st, node |-> c.node, hash |-> c.hash, todo |-> c.todo, conn |-> c.conn,
         stall |-> x, steady |-> c.steady]
  BY DEF Calls
<1>5. [c EXCEPT !.todo = x, !.conn = y] =
        [st |-> c.st, node |-> c.node, hash |-> c.hash, todo |-> x, conn |-> y,
         stall |-> c.stall, steady |-> c.steady]
  <2>1. [tx EXCEPT !.conn = y] =
          [st |-> c.st, node |-> c.node, hash |-> c.hash, todo |-> x, conn |-> y,
           stall |-> c.stall, steady |-> c.steady]
    OBVIOUS
  <2>2. [c EXCEPT !.todo = x, !.conn = y] = [[c EXCEPT !.todo = x] EXCEPT !.conn = y]
    BY Zenon
  <2>3. QED BY <1>3, <2>1, <2>2, Zenon
<1>6. [c EXCEPT !.todo = x, !.steady = y] =
        [st |-> c.st, node |-> c.node, hash |-> c.hash, todo |-> x, conn |-> c.conn,
         stall |-> c.stall, steady |-> y]
  <2>1. [tx EXCEPT !.steady = y] =
          [st |-> c.st, node |-> c.node, hash |-> c.hash, todo |-> x, conn |-> c.conn,
           stall |-> c.stall, steady |-> y]
    OBVIOUS
  <2>2. [c EXCEPT !.todo = x, !.steady = y] = [[c EXCEPT !.todo = x] EXCEPT !.steady = y]
    BY Zenon
  <2>3. QED BY <1>3, <2>1, <2>2, Zenon
<1>7. QED BY <1>1, <1>2, <1>4, <1>5, <1>6

\* A call that loses its connection.
LEMMA CallCut ==
  ASSUME NEW c \in Calls, NEW x, NEW y, NEW z
  PROVE  [c EXCEPT !.conn = x, !.stall = y, !.steady = z] =
           [st |-> c.st, node |-> c.node, hash |-> c.hash, todo |-> c.todo, conn |-> x,
            stall |-> y, steady |-> z]
<1> DEFINE cx == [st |-> c.st, node |-> c.node, hash |-> c.hash, todo |-> c.todo, conn |-> x,
                  stall |-> c.stall, steady |-> c.steady]
           cy == [st |-> c.st, node |-> c.node, hash |-> c.hash, todo |-> c.todo, conn |-> x,
                  stall |-> y, steady |-> c.steady]
<1>1. [c EXCEPT !.conn = x] = cx
  BY CallWith
<1>2. [cx EXCEPT !.stall = y] = cy
  OBVIOUS
<1>3. [cy EXCEPT !.steady = z] =
        [st |-> c.st, node |-> c.node, hash |-> c.hash, todo |-> c.todo, conn |-> x,
         stall |-> y, steady |-> z]
  OBVIOUS
<1>4. [c EXCEPT !.conn = x, !.stall = y, !.steady = z] =
        [[[c EXCEPT !.conn = x] EXCEPT !.stall = y] EXCEPT !.steady = z]
  BY Zenon
<1>5. QED BY <1>1, <1>2, <1>3, <1>4, Zenon

\* The steps of a call: what the call becomes, where only the call changes.
LEMMA CallSteps ==
  ASSUME CallInv, NEW t \in Fetches,
         \/ \E n \in Nodes, h \in Blobs : StartFetch(t, n, h) \/ RefusesList(t, n, h)
         \/ \E p \in Nodes : DialOk(t, p) \/ DialFails(t, p)
         \/ TransferEnds(t) \/ TransferBreaks(t) \/ Stalls(t) \/ Returns(t)
  PROVE  /\ UNCHANGED <<up, store, holders, wire, held, calm>>
         /\ \E c : (c = None \/ FitCall(c)) /\ fetch' = [fetch EXCEPT ![t] = c]
<1> DEFINE Goal == /\ UNCHANGED <<up, store, holders, wire, held, calm>>
                   /\ \E c : (c = None \/ FitCall(c)) /\ fetch' = [fetch EXCEPT ![t] = c]
           call == fetch[t]
<1>t. /\ fetch \in [Fetches -> Calls \cup {None}]
      /\ store \in [Nodes -> [Blobs -> SUBSET Chunks]]
  BY DEF CallInv, TypeOK
<1>f. Running(t) =>
        /\ call \in Calls /\ FitCall(call) /\ call.st = "running"
        /\ call = [st |-> call.st, node |-> call.node, hash |-> call.hash, todo |-> call.todo,
                   conn |-> call.conn, stall |-> call.stall, steady |-> call.steady]
  <2>1. Running(t) => call \in Calls /\ FitCall(call) /\ call.st = "running"
    BY <1>t, CallsFit DEF Running
  <2>2. QED BY <2>1 DEF Calls
<1>1. ASSUME NEW n \in Nodes, NEW h \in Blobs, StartFetch(t, n, h) PROVE Goal
  <2> DEFINE c == [st |-> "running", node |-> n, hash |-> h, todo |-> holders[n][h],
                   conn |-> None, stall |-> FALSE,
                   steady |-> {p \in holders[n][h] : up[p] /\ Has(p, h)}]
  <2>1. /\ fetch' = [fetch EXCEPT ![t] = c] /\ up[n]
        /\ UNCHANGED <<up, store, holders, wire, held, calm>>
    BY <1>1 DEF StartFetch
  <2>2. c \in Calls
    BY DEF CallInv, TypeOK, Calls
  <2>3. FitCall(c)
    BY <2>1, <2>2 DEF FitCall
  <2>4. QED BY <2>1, <2>3
<1>2. ASSUME NEW p \in Nodes, DialOk(t, p) PROVE Goal
  <2> DEFINE c == [st |-> call.st, node |-> call.node, hash |-> call.hash,
                   todo |-> call.todo \ {p}, conn |-> p, stall |-> call.stall, steady |-> call.steady]
  <2>1. /\ Running(t) /\ up[p] /\ UNCHANGED <<up, store, holders, wire, held, calm>>
        /\ fetch' = [fetch EXCEPT ![t].todo = @ \ {p}, ![t].conn = p]
        /\ call.conn = None
    BY <1>2 DEF DialOk, Tries
  <2>2. fetch' = [fetch EXCEPT ![t] = c]
    <3>1. fetch' = [fetch EXCEPT ![t] = [call EXCEPT !.todo = call.todo \ {p}, !.conn = p]]
      BY <1>t, <2>1
    <3>2. call \in Calls
      BY <1>f, <2>1
    <3>3. [call EXCEPT !.todo = call.todo \ {p}, !.conn = p] = c
      BY <3>2, CallWith, Zenon
    <3>4. QED BY <3>1, <3>3
  <2>3. c \in Calls
    BY <1>f, <2>1 DEF Calls
  <2>4. FitCall(c)
    <3>1. call.steady \subseteq Nodes
      BY <1>f, <2>1 DEF Calls
    <3>2. \A q \in call.steady : q \in call.todo \ {p} \/ q = p \/ Has(call.node, call.hash)
      BY <1>f, <2>1, <3>1, NoneAssumption DEF FitCall
    <3>3. QED BY <1>f, <2>1, <2>3, <3>2 DEF FitCall
  <2>5. QED BY <2>1, <2>2, <2>4
<1>3. ASSUME NEW p \in Nodes, DialFails(t, p) PROVE Goal
  <2> DEFINE c == [st |-> call.st, node |-> call.node, hash |-> call.hash,
                   todo |-> call.todo \ {p}, conn |-> call.conn, stall |-> call.stall, steady |-> call.steady \ {p}]
  <2>1. /\ Running(t) /\ UNCHANGED <<up, store, holders, wire, held, calm>>
        /\ fetch' = [fetch EXCEPT ![t].todo = @ \ {p}, ![t].steady = @ \ {p}]
    BY <1>3 DEF DialFails, Tries
  <2>2. fetch' = [fetch EXCEPT ![t] = c]
    <3>1. fetch' = [fetch EXCEPT ![t] = [call EXCEPT !.todo = call.todo \ {p},
                                                     !.steady = call.steady \ {p}]]
      BY <1>t, <2>1
    <3>2. call \in Calls
      BY <1>f, <2>1
    <3>3. [call EXCEPT !.todo = call.todo \ {p}, !.steady = call.steady \ {p}] = c
      BY <3>2, CallWith, Zenon
    <3>4. QED BY <3>1, <3>3
  <2>3. c \in Calls
    BY <1>f, <2>1 DEF Calls
  <2>4. FitCall(c)
    BY <1>f, <2>1, <2>3 DEF FitCall
  <2>5. QED BY <2>1, <2>2, <2>4
<1>4. CASE TransferEnds(t)
  <2> DEFINE c == [st |-> call.st, node |-> call.node, hash |-> call.hash,
                   todo |-> call.todo, conn |-> None, stall |-> call.stall, steady |-> call.steady]
  <2>1. /\ Running(t) /\ UNCHANGED <<up, store, holders, wire, held, calm>>
        /\ call.conn # None /\ store[call.conn][call.hash] \subseteq store[call.node][call.hash]
        /\ fetch' = [fetch EXCEPT ![t].conn = None]
    BY <1>4 DEF TransferEnds
  <2>2. fetch' = [fetch EXCEPT ![t] = c]
    <3>1. fetch' = [fetch EXCEPT ![t] = [call EXCEPT !.conn = None]]
      BY <1>t, <2>1
    <3>2. [call EXCEPT !.conn = None] = c
      BY <1>f, <2>1, CallWith
    <3>3. QED BY <3>1, <3>2
  <2>3. c \in Calls
    BY <1>f, <2>1 DEF Calls
  <2>4. call.conn \in call.steady => Has(call.node, call.hash)
    <3>1. call.node \in Nodes /\ call.hash \in Blobs
      BY <1>f, <2>1 DEF Calls
    <3>2. store[call.node][call.hash] \subseteq Chunks
      BY <1>t, <3>1
    <3>3. QED BY <1>f, <2>1, <3>2 DEF FitCall, Has
  <2>5. FitCall(c)
    BY <1>f, <2>1, <2>3, <2>4 DEF FitCall
  <2>6. QED BY <2>1, <2>2, <2>5
<1>5. CASE TransferBreaks(t)
  <2> DEFINE c == [st |-> call.st, node |-> call.node, hash |-> call.hash,
                   todo |-> call.todo, conn |-> None, stall |-> FALSE,
                   steady |-> call.steady \ {call.conn}]
  <2>1. /\ Running(t) /\ UNCHANGED <<up, store, holders, wire, held, calm>>
        /\ fetch' = [fetch EXCEPT ![t].conn = None, ![t].stall = FALSE,
                                  ![t].steady = @ \ {call.conn}]
    BY <1>5 DEF TransferBreaks
  <2>2. fetch' = [fetch EXCEPT ![t] = c]
    <3> DEFINE left == call.steady \ {call.conn}
    <3>1. fetch' = [fetch EXCEPT ![t] = [call EXCEPT !.conn = None, !.stall = FALSE,
                                                     !.steady = left]]
      BY <1>t, <2>1
    <3>2. call \in Calls
      BY <1>f, <2>1
    <3>3. [call EXCEPT !.conn = None, !.stall = FALSE, !.steady = left] = c
      BY <3>2, CallCut, Zenon
    <3>4. QED BY <3>1, <3>3
  <2>3. c \in Calls
    BY <1>f, <2>1 DEF Calls
  <2>4. FitCall(c)
    BY <1>f, <2>1, <2>3 DEF FitCall
  <2>5. QED BY <2>1, <2>2, <2>4
<1>6. CASE Returns(t)
  <2>1. /\ Running(t) /\ UNCHANGED <<up, store, holders, wire, held, calm>>
        /\ call.conn = None
        /\ \/ fetch' = [fetch EXCEPT ![t] = None]
           \/ /\ ~Has(call.node, call.hash) /\ call.todo = {}
              /\ fetch' = [fetch EXCEPT ![t].st = "err"]
    BY <1>6 DEF Returns
  <2>2. CASE fetch' = [fetch EXCEPT ![t] = None]
    BY <2>1, <2>2
  <2>3. CASE /\ ~Has(call.node, call.hash) /\ call.todo = {}
             /\ fetch' = [fetch EXCEPT ![t].st = "err"]
    <3> DEFINE c == [st |-> "err", node |-> call.node, hash |-> call.hash,
                     todo |-> call.todo, conn |-> call.conn, stall |-> call.stall, steady |-> call.steady]
    <3>1. fetch' = [fetch EXCEPT ![t] = c]
      <4>1. fetch' = [fetch EXCEPT ![t] = [call EXCEPT !.st = "err"]]
        BY <1>t, <2>3
      <4>2. [call EXCEPT !.st = "err"] = c
        BY <1>f, <2>1, CallWith
      <4>3. QED BY <4>1, <4>2
    <3>2. c \in Calls
      BY <1>f, <2>1 DEF Calls
    <3>3. call.steady = {}
      <4>1. call.steady \subseteq Nodes
        BY <1>f, <2>1 DEF Calls
      <4>2. QED BY <1>f, <2>1, <2>3, <4>1, NoneAssumption DEF FitCall
    <3>4. FitCall(c)
      BY <1>f, <2>1, <3>2, <3>3 DEF FitCall
    <3>5. QED BY <2>1, <3>1, <3>4
  <2>4. QED BY <2>1, <2>2, <2>3
<1>7. ASSUME NEW n \in Nodes, NEW h \in Blobs, RefusesList(t, n, h) PROVE Goal
  <2> DEFINE c == [st |-> "refused", node |-> n, hash |-> h, todo |-> {}, conn |-> None,
                   stall |-> FALSE, steady |-> {}]
  <2>1. /\ fetch' = [fetch EXCEPT ![t] = c] /\ up[n]
        /\ UNCHANGED <<up, store, holders, wire, held, calm>>
    BY <1>7 DEF RefusesList
  <2>2. c \in Calls
    BY DEF Calls
  <2>3. FitCall(c)
    BY <2>1, <2>2 DEF FitCall
  <2>4. QED BY <2>1, <2>3
<1>8. CASE Stalls(t)
  <2> DEFINE c == [st |-> call.st, node |-> call.node, hash |-> call.hash,
                   todo |-> call.todo, conn |-> call.conn, stall |-> TRUE,
                   steady |-> call.steady]
  <2>1. /\ Running(t) /\ UNCHANGED <<up, store, holders, wire, held, calm>>
        /\ fetch' = [fetch EXCEPT ![t].stall = TRUE]
    BY <1>8 DEF Stalls
  <2>2. fetch' = [fetch EXCEPT ![t] = c]
    <3>1. fetch' = [fetch EXCEPT ![t] = [call EXCEPT !.stall = TRUE]]
      BY <1>t, <2>1
    <3>2. [call EXCEPT !.stall = TRUE] = c
      BY <1>f, <2>1, CallWith, Zenon
    <3>3. QED BY <3>1, <3>2
  <2>3. c \in Calls
    BY <1>f, <2>1 DEF Calls
  <2>4. FitCall(c)
    BY <1>f, <2>1, <2>3 DEF FitCall
  <2>5. QED BY <2>1, <2>2, <2>4
<1>9. QED BY <1>1, <1>2, <1>3, <1>4, <1>5, <1>6, <1>7, <1>8

\* What goes on in the stores while nobody goes down harms no call.
LEMMA GrownStore ==
  ASSUME CallInv, TypeOK', UNCHANGED fetch,
         \A n \in Nodes : (up[n] => up'[n]) /\ \A h \in Blobs : store[n][h] \subseteq store'[n][h]
  PROVE  CallInv'
<1>1. \A n \in Nodes, h \in Blobs : Has(n, h) => store'[n][h] = Chunks
  <2>1. \A n \in Nodes, h \in Blobs : store'[n][h] \subseteq Chunks
    BY DEF TypeOK
  <2>2. ASSUME NEW n \in Nodes, NEW h \in Blobs, Has(n, h) PROVE store'[n][h] = Chunks
    <3>1. Chunks \subseteq store'[n][h]
      BY <2>2 DEF Has
    <3>2. QED BY <2>1, <3>1
  <2>3. QED BY <2>2
<1>2. \A t \in Fetches : fetch[t] # None =>
        fetch[t].node \in Nodes /\ fetch[t].hash \in Blobs /\ fetch[t].steady \subseteq Nodes
  BY DEF CallInv, TypeOK, Calls
<1>3. CallsAreTrue'
  <2>1. SUFFICES ASSUME NEW t \in Fetches, fetch[t] # None
                 PROVE  /\ fetch[t].st # "running" => fetch[t].conn = None /\ fetch[t].steady = {}
                        /\ \A p \in fetch[t].steady :
                             /\ up'[p] /\ store'[p][fetch[t].hash] = Chunks
                             /\ \/ p \in fetch[t].todo \/ p = fetch[t].conn
                                \/ store'[fetch[t].node][fetch[t].hash] = Chunks
    BY DEF CallsAreTrue, Has
  <2>2. FitCall(fetch[t])
    BY <2>1, CallsFit
  <2>3. QED BY <1>1, <1>2, <2>1, <2>2 DEF FitCall
<1>4. QED BY <1>3 DEF CallInv

\* What a call becomes when participant n ends.
LEMMA WithoutNodeIs ==
  ASSUME NEW c \in Calls \cup {None}, NEW n \in Nodes, NEW d, d = WithoutNode(c, n), d # None
  PROVE  /\ c # None /\ c.node # n
         /\ \/ c.st # "running" /\ d = c
            \/ /\ c.st = "running"
               /\ d = [st |-> c.st, node |-> c.node, hash |-> c.hash, todo |-> c.todo,
                       conn |-> IF c.conn = n THEN None ELSE c.conn,
                       stall |-> c.stall /\ c.conn # n, steady |-> c.steady \ {n}]
<1>1. c # None /\ c.node # n /\ c \in Calls
  BY DEF WithoutNode
<1>2. CASE c.st # "running"
  BY <1>1, <1>2 DEF WithoutNode, Calls
<1>3. CASE c.st = "running"
  <2>1. d = [c EXCEPT !.conn = IF c.conn = n THEN None ELSE c.conn,
                      !.stall = c.stall /\ c.conn # n, !.steady = c.steady \ {n}]
    BY <1>1, <1>3 DEF WithoutNode
  <2> DEFINE left == IF c.conn = n THEN None ELSE c.conn
             on == c.stall /\ c.conn # n
  <2>2. d = [c EXCEPT !.conn = left, !.stall = on, !.steady = c.steady \ {n}]
    BY <2>1
  <2> HIDE DEF left, on
  <2>3. d = [st |-> c.st, node |-> c.node, hash |-> c.hash, todo |-> c.todo,
             conn |-> left, stall |-> on, steady |-> c.steady \ {n}]
    BY <1>1, <2>2, CallCut, Zenon
  <2>4. QED BY <1>1, <1>3, <2>3 DEF left, on
<1>4. QED BY <1>2, <1>3

\* The end of a participant takes its calls along and nothing from the others
\* but their connection to it.
LEMMA CrashStep == ASSUME CallInv, NEW n \in Nodes, Crash(n) PROVE CallInv'
<1>1. /\ up' = [up EXCEPT ![n] = FALSE]
      /\ store' = [store EXCEPT ![n] = [h \in Blobs |-> {}]]
      /\ holders' = [holders EXCEPT ![n] = [h \in Blobs |-> {}]]
      /\ wire' = [wire EXCEPT ![n] = {}]
      /\ fetch' = [t \in Fetches |-> WithoutNode(fetch[t], n)]
      /\ UNCHANGED <<held, calm>>
  BY DEF Crash
<1>2. ASSUME NEW t \in Fetches, fetch'[t] # None
      PROVE  /\ fetch'[t] \in Calls /\ fetch'[t].node # n /\ fetch'[t].conn # n
             /\ up[fetch'[t].node] /\ (fetch'[t].conn # None => up[fetch'[t].conn])
             /\ fetch'[t].st # "running" => fetch'[t].conn = None /\ fetch'[t].steady = {}
             /\ \A p \in fetch'[t].steady :
                  /\ p # n /\ up[p] /\ Has(p, fetch'[t].hash)
                  /\ \/ p \in fetch'[t].todo \/ p = fetch'[t].conn
                     \/ Has(fetch'[t].node, fetch'[t].hash)
  <2>1. fetch[t] \in Calls \cup {None} /\ fetch'[t] = WithoutNode(fetch[t], n)
    BY <1>1 DEF CallInv, TypeOK
  <2>2. /\ fetch[t] # None /\ fetch[t].node # n
        /\ \/ fetch[t].st # "running" /\ fetch'[t] = fetch[t]
           \/ /\ fetch[t].st = "running"
              /\ fetch'[t] = [st |-> fetch[t].st, node |-> fetch[t].node, hash |-> fetch[t].hash,
                              todo |-> fetch[t].todo,
                              conn |-> IF fetch[t].conn = n THEN None ELSE fetch[t].conn,
                              stall |-> fetch[t].stall /\ fetch[t].conn # n,
                              steady |-> fetch[t].steady \ {n}]
    BY <1>2, <2>1, WithoutNodeIs
  <2>3. FitCall(fetch[t])
    BY <2>2, CallsFit
  <2>4. fetch'[t] \in Calls
    <3>1. (fetch[t].stall /\ fetch[t].conn # n) \in BOOLEAN
      OBVIOUS
    <3> DEFINE on == fetch[t].stall /\ fetch[t].conn # n
    <3>2. on \in BOOLEAN
      BY <3>1
    <3>3. \/ fetch'[t] = fetch[t]
          \/ fetch'[t] = [st |-> fetch[t].st, node |-> fetch[t].node, hash |-> fetch[t].hash,
                          todo |-> fetch[t].todo,
                          conn |-> IF fetch[t].conn = n THEN None ELSE fetch[t].conn,
                          stall |-> on, steady |-> fetch[t].steady \ {n}]
      BY <2>2
    <3> HIDE DEF on
    <3>4. QED BY <2>3, <3>2, <3>3 DEF FitCall, Calls
  <2>5. CASE fetch[t].st # "running" /\ fetch'[t] = fetch[t]
    BY <2>2, <2>3, <2>4, <2>5, NoneAssumption DEF FitCall
  <2>6. CASE /\ fetch[t].st = "running"
             /\ fetch'[t] = [st |-> fetch[t].st, node |-> fetch[t].node, hash |-> fetch[t].hash,
                             todo |-> fetch[t].todo,
                             conn |-> IF fetch[t].conn = n THEN None ELSE fetch[t].conn,
                             stall |-> fetch[t].stall /\ fetch[t].conn # n,
                             steady |-> fetch[t].steady \ {n}]
    BY <2>2, <2>3, <2>4, <2>6, NoneAssumption DEF FitCall
  <2>7. QED BY <2>2, <2>5, <2>6
<1>3. fetch' \in [Fetches -> Calls \cup {None}]
  BY <1>1, <1>2
<1>4. \A k \in Nodes : k # n => up'[k] = up[k] /\ store'[k] = store[k]
  BY <1>1 DEF CallInv, TypeOK
<1>5. TypeOK'
  <2>1. \A k \in Nodes : ~up'[k] =>
          \A t \in Fetches : fetch'[t] # None => k \notin {fetch'[t].node, fetch'[t].conn}
    <3>1. SUFFICES ASSUME NEW k \in Nodes, ~up'[k], NEW t \in Fetches, fetch'[t] # None
                   PROVE  k \notin {fetch'[t].node, fetch'[t].conn}
      OBVIOUS
    <3>2. k = n \/ ~up[k]
      BY <1>4, <3>1
    <3>3. QED BY <1>2, <3>1, <3>2, NoneAssumption
  <2>2. \A k \in Nodes : ~up'[k] =>
          wire'[k] = {} /\ \A h \in Blobs : store'[k][h] = {} /\ holders'[k][h] = {}
    BY <1>1 DEF CallInv, TypeOK
  <2>3. /\ up' \in [Nodes -> BOOLEAN] /\ store' \in [Nodes -> [Blobs -> SUBSET Chunks]]
        /\ holders' \in [Nodes -> [Blobs -> SUBSET Nodes]] /\ wire' \in [Nodes -> SUBSET Messages]
        /\ held' \in [Blobs -> SUBSET Nodes] /\ calm' \in BOOLEAN
    BY <1>1 DEF CallInv, TypeOK
  <2>4. QED BY <1>3, <2>1, <2>2, <2>3 DEF TypeOK
<1>6. CallsAreTrue'
  <2>1. SUFFICES ASSUME NEW t \in Fetches, fetch'[t] # None
                 PROVE  /\ fetch'[t].st # "running" => fetch'[t].conn = None /\ fetch'[t].steady = {}
                        /\ \A p \in fetch'[t].steady :
                             /\ up'[p] /\ store'[p][fetch'[t].hash] = Chunks
                             /\ \/ p \in fetch'[t].todo \/ p = fetch'[t].conn
                                \/ store'[fetch'[t].node][fetch'[t].hash] = Chunks
    BY DEF CallsAreTrue, Has
  <2>2. fetch'[t].node \in Nodes /\ fetch'[t].steady \subseteq Nodes
    BY <1>2, <2>1 DEF Calls
  <2>3. \A k \in Nodes : \A h : k # n /\ Has(k, h) => store'[k][h] = Chunks
    BY <1>4 DEF Has
  <2>4. QED BY <1>2, <1>4, <2>1, <2>2, <2>3
<1>7. QED BY <1>5, <1>6 DEF CallInv

\* Every step keeps the types and the calls true.
LEMMA CallStep == CallInv /\ [Next]_vars => CallInv'
<1> SUFFICES ASSUME CallInv, [Next]_vars PROVE CallInv'
  OBVIOUS
<1>t. TypeOK
  BY DEF CallInv
<1>u. CASE UNCHANGED vars
  BY <1>u DEF CallInv, TypeOK, CallsAreTrue, Has, vars
<1>1. CASE Negotiation \/ Calms
  <2>1. /\ UNCHANGED <<up, store, fetch, held>> /\ calm' \in BOOLEAN
        /\ wire' \in [Nodes -> SUBSET Messages]
        /\ \A k \in Nodes : ~up[k] => wire'[k] = {}
    BY <1>1, <1>t, NegotiationIs
  <2>2. /\ holders' \in [Nodes -> [Blobs -> SUBSET Nodes]]
        /\ \A k \in Nodes : ~up[k] => \A h \in Blobs : holders'[k][h] = {}
    <3>1. CASE holders' = holders
      BY <1>t, <3>1 DEF TypeOK
    <3>2. ASSUME NEW n \in Nodes, NEW m \in wire[n], m \in Messages, up[n],
                 holders' = [holders EXCEPT ![n][m.hash] = @ \cup ({m.node} \ {n})]
          PROVE  /\ holders' \in [Nodes -> [Blobs -> SUBSET Nodes]]
                 /\ \A k \in Nodes : ~up[k] => \A h \in Blobs : holders'[k][h] = {}
      <4>1. m.hash \in Blobs /\ m.node \in Nodes
        BY <3>2 DEF Messages
      <4>2. QED BY <1>t, <3>2, <4>1 DEF TypeOK
    <3>3. QED BY <1>1, <1>t, <3>1, <3>2, NegotiationIs
  <2>3. TypeOK'
    BY <1>t, <2>1, <2>2 DEF TypeOK
  <2>4. QED BY <2>1, <2>3, GrownStore
<1>2. ASSUME NEW t \in Fetches,
             \/ \E n \in Nodes, h \in Blobs : StartFetch(t, n, h) \/ RefusesList(t, n, h)
             \/ \E p \in Nodes : DialOk(t, p) \/ DialFails(t, p)
             \/ TransferEnds(t) \/ TransferBreaks(t) \/ Stalls(t) \/ Returns(t)
      PROVE  CallInv'
  <2>1. /\ UNCHANGED <<up, store, holders, wire, held, calm>>
        /\ \E c : (c = None \/ FitCall(c)) /\ fetch' = [fetch EXCEPT ![t] = c]
    BY <1>2, CallSteps
  <2>2. PICK c : (c = None \/ FitCall(c)) /\ fetch' = [fetch EXCEPT ![t] = c]
    BY <2>1
  <2>3. QED BY <2>1, <2>2, ReplacedCall
<1>3. ASSUME NEW t \in Fetches, NEW c \in Chunks, Transfer(t, c) PROVE CallInv'
  <2>1. /\ fetch[t] \in Calls /\ fetch[t] # None /\ UNCHANGED <<up, holders, wire, fetch, calm>>
        /\ store' = [store EXCEPT ![fetch[t].node][fetch[t].hash] = @ \cup {c}]
        /\ held' = [held EXCEPT ![fetch[t].hash] =
                      IF store'[fetch[t].node][fetch[t].hash] = Chunks
                      THEN @ \cup {fetch[t].node} ELSE @]
    BY <1>3, <1>t DEF Transfer, Running, TypeOK
  <2>2. fetch[t].node \in Nodes /\ fetch[t].hash \in Blobs /\ up[fetch[t].node]
    BY <2>1, CallsFit DEF Calls, FitCall
  <2>3. store' \in [Nodes -> [Blobs -> SUBSET Chunks]] /\ held' \in [Blobs -> SUBSET Nodes]
    BY <1>t, <2>1, <2>2 DEF TypeOK
  <2>4. \A n \in Nodes : ~up[n] => store'[n] = store[n]
    BY <1>t, <2>1, <2>2 DEF TypeOK
  <2>5. TypeOK'
    BY <1>t, <2>1, <2>3, <2>4 DEF TypeOK
  <2>6. \A n \in Nodes : ~Crash(n)
    BY <2>1, <2>2, <1>t DEF Crash, TypeOK
  <2>7. QED BY <1>t, <2>1, <2>5, <2>6, ChunksGrow, GrownStore
<1>4. ASSUME NEW n \in Nodes, Crash(n) PROVE CallInv'
  BY <1>4, CrashStep
<1>5. ASSUME NEW n \in Nodes, Restart(n) PROVE CallInv'
  <2>1. TypeOK'
    BY <1>5, <1>t DEF Restart, TypeOK
  <2>2. \A k \in Nodes : (up[k] => up'[k]) /\ store'[k] = store[k]
    BY <1>5, <1>t DEF Restart, TypeOK
  <2>3. QED BY <1>5, <2>1, <2>2, GrownStore DEF Restart
<1>6. ASSUME NEW n \in Nodes, NEW h \in Blobs, Add(n, h) PROVE CallInv'
  <2>1. TypeOK'
    BY <1>6, <1>t DEF Add, TypeOK
  <2>2. \A k \in Nodes : up'[k] = up[k] /\ \A b \in Blobs : store[k][b] \subseteq store'[k][b]
    BY <1>6, <1>t DEF Add, TypeOK
  <2>3. QED BY <1>6, <2>1, <2>2, GrownStore DEF Add
<1>7. QED BY <1>u, <1>1, <1>2, <1>3, <1>4, <1>5, <1>6 DEF Next, Fetching, GoesOn

\* The types hold in every state, and nothing of a participant outlives it.
THEOREM TypeCorrect == Spec => []TypeOK
<1>1. CallInv => TypeOK
  BY DEF CallInv
<1>2. QED BY <1>1, CallInit, CallStep, PTL DEF Spec

\* "A single holder leaving never fails the download as long as some holder in
\* the set can serve the rest": a call that tried its whole list and returned an
\* error had no listed provider that was there with the whole blob, and in reach,
\* since it began.
THEOREM FailsOnlyWithoutHolderHolds == Spec => []FailsOnlyWithoutHolder
<1>1. CallInv => FailsOnlyWithoutHolder
  BY DEF CallInv, CallsAreTrue, FailsOnlyWithoutHolder
<1>2. QED BY <1>1, CallInit, CallStep, PTL DEF Spec

\* No failing provider, broken transfer or concurrent call costs a participant
\* that stays up a chunk.
THEOREM ChunksStayHolds == Spec => ChunksStay
<1>1. ASSUME TypeOK, [Next]_vars, NEW n \in Nodes, up[n], up'[n], NEW h \in Blobs
      PROVE  store[n][h] \subseteq store'[n][h]
  <2>1. ~Crash(n)
    BY <1>1 DEF Crash, TypeOK
  <2>2. QED BY <1>1, <2>1, ChunksGrow
<1>2. TypeOK /\ [Next]_vars =>
        [\A n \in Nodes : up[n] /\ up'[n] =>
           \A h \in Blobs : store[n][h] \subseteq store'[n][h]]_vars
  BY <1>1
<1>3. QED BY <1>2, TypeCorrect, PTL DEF Spec, ChunksStay

-----------------------------------------------------------------------------
(* Holders.                                                                *)

\* Who has a blob whole now did have it.
WholeIsHeld == \A n \in Nodes, h \in Blobs : Has(n, h) => n \in held[h]

\* An IHave on its way names a participant that had the blob when it was sent.
SaysWhoHeld == \A n \in Nodes : \A m \in wire[n] : m.type = "IHave" => m.node \in held[m.hash]

\* The inductive invariant.
HeldInv == CallInv /\ WholeIsHeld /\ SaysWhoHeld /\ HoldersDidHold

\* Nobody has, had or announced a blob at the start: a blob has a chunk.
LEMMA HeldInit == Init => HeldInv
<1>1. Init => WholeIsHeld
  BY ChunkAssumption DEF Init, WholeIsHeld, Has
<1>2. QED BY <1>1, CallInit DEF Init, HeldInv, SaysWhoHeld, HoldersDidHold

\* A participant enters held when it gets its last chunk and never leaves it;
\* an IHave is sent of a whole blob, and only a sent one is recorded.
LEMMA HeldStep == HeldInv /\ [Next]_vars => HeldInv'
<1> SUFFICES ASSUME HeldInv, [Next]_vars PROVE (WholeIsHeld /\ SaysWhoHeld /\ HoldersDidHold)'
  BY CallStep DEF HeldInv
<1> DEFINE Goal == (WholeIsHeld /\ SaysWhoHeld /\ HoldersDidHold)'
<1>t. CallInv /\ TypeOK /\ WholeIsHeld /\ SaysWhoHeld /\ HoldersDidHold
  BY DEF HeldInv, CallInv
<1>s. ASSUME UNCHANGED <<store, holders, wire, held>> PROVE Goal
  BY <1>s, <1>t DEF WholeIsHeld, SaysWhoHeld, HoldersDidHold, Has
<1>u. CASE UNCHANGED vars
  BY <1>u, <1>s DEF vars
<1>1. CASE Negotiation \/ Calms
  <2>1. /\ UNCHANGED <<up, store, fetch, held>>
        /\ \A k \in Nodes : \A m \in wire'[k] :
             \/ m \in wire[k]
             \/ m.type = "WhoHas"
             \/ Has(m.node, m.hash) \/ m.node \in held[m.hash]
        /\ wire' \in [Nodes -> SUBSET Messages]
    BY <1>1, <1>t, NegotiationIs
  <2>2. WholeIsHeld'
    BY <1>t, <2>1 DEF WholeIsHeld, Has
  <2>3. SaysWhoHeld'
    <3>1. SUFFICES ASSUME NEW k \in Nodes, NEW m \in wire'[k], m.type = "IHave"
                   PROVE  m.node \in held[m.hash]
      BY <2>1 DEF SaysWhoHeld
    <3>2. m.node \in Nodes /\ m.hash \in Blobs
      BY <2>1 DEF Messages
    <3>3. QED BY <1>t, <2>1, <3>1, <3>2 DEF SaysWhoHeld, WholeIsHeld
  <2>4. HoldersDidHold'
    <3>1. CASE holders' = holders
      BY <1>t, <2>1, <3>1 DEF HoldersDidHold
    <3>2. ASSUME NEW n \in Nodes, NEW m \in wire[n], m \in Messages, m.type = "IHave",
                 holders' = [holders EXCEPT ![n][m.hash] = @ \cup ({m.node} \ {n})]
          PROVE  HoldersDidHold'
      <4>1. m.hash \in Blobs /\ m.node \in held[m.hash]
        BY <1>t, <3>2 DEF Messages, SaysWhoHeld
      <4>2. \A k \in Nodes, h \in Blobs :
              holders'[k][h] \subseteq holders[k][h] \cup
                {p \in {m.node} : p # k /\ h = m.hash}
        BY <1>t, <3>2, <4>1 DEF TypeOK
      <4>3. QED BY <1>t, <2>1, <4>1, <4>2 DEF HoldersDidHold
    <3>3. QED BY <1>1, <1>t, <3>1, <3>2, NegotiationIs
  <2>5. QED BY <2>2, <2>3, <2>4
<1>2. ASSUME NEW t \in Fetches,
             \/ \E n \in Nodes, h \in Blobs : StartFetch(t, n, h) \/ RefusesList(t, n, h)
             \/ \E p \in Nodes : DialOk(t, p) \/ DialFails(t, p)
             \/ TransferEnds(t) \/ TransferBreaks(t) \/ Stalls(t) \/ Returns(t)
      PROVE  Goal
  BY <1>2, <1>t, <1>s, CallSteps
<1>g. ASSUME UNCHANGED <<holders, wire>>, \A h \in Blobs : held[h] \subseteq held'[h],
             WholeIsHeld'
      PROVE  Goal
  <2>1. \A n \in Nodes : \A m \in wire[n] : m.hash \in Blobs
    BY <1>t DEF TypeOK, Messages
  <2>2. SaysWhoHeld'
    BY <1>g, <1>t, <2>1 DEF SaysWhoHeld
  <2>3. HoldersDidHold'
    BY <1>g, <1>t DEF HoldersDidHold
  <2>4. QED BY <1>g, <2>2, <2>3
<1>3. ASSUME NEW t \in Fetches, NEW c \in Chunks, Transfer(t, c) PROVE Goal
  <2> DEFINE n == fetch[t].node
             b == fetch[t].hash
  <2>1. /\ fetch[t] \in Calls /\ UNCHANGED <<holders, wire>>
        /\ store' = [store EXCEPT ![n][b] = @ \cup {c}]
        /\ held' = [held EXCEPT ![b] = IF store'[n][b] = Chunks THEN @ \cup {n} ELSE @]
    BY <1>3, <1>t DEF Transfer, Running, TypeOK
  <2>2. n \in Nodes /\ b \in Blobs
    BY <2>1 DEF Calls
  <2> HIDE DEF n, b
  <2>3. \A h \in Blobs : held[h] \subseteq held'[h]
    BY <1>t, <2>1, <2>2 DEF TypeOK
  <2>4. ASSUME NEW k \in Nodes, NEW h \in Blobs, store'[k][h] = Chunks PROVE k \in held'[h]
    <3>1. CASE k = n /\ h = b
      BY <1>t, <2>1, <2>2, <2>4, <3>1 DEF TypeOK
    <3>2. CASE ~(k = n /\ h = b)
      <4>1. store'[k][h] = store[k][h]
        BY <1>t, <2>1, <2>2, <3>2 DEF TypeOK
      <4>2. QED BY <1>t, <2>3, <2>4, <4>1 DEF WholeIsHeld, Has
    <3>3. QED BY <3>1, <3>2
  <2>5. QED BY <1>g, <2>1, <2>3, <2>4 DEF WholeIsHeld, Has
<1>4. ASSUME NEW n \in Nodes, Crash(n) PROVE Goal
  <2>1. /\ store' = [store EXCEPT ![n] = [h \in Blobs |-> {}]]
        /\ holders' = [holders EXCEPT ![n] = [h \in Blobs |-> {}]]
        /\ wire' = [wire EXCEPT ![n] = {}] /\ UNCHANGED held
    BY <1>4 DEF Crash
  <2>2. WholeIsHeld'
    <3>1. ASSUME NEW k \in Nodes, NEW h \in Blobs, store'[k][h] = Chunks PROVE k \in held[h]
      <4>1. k # n
        BY <1>t, <2>1, <3>1, ChunkAssumption DEF TypeOK
      <4>2. store[k][h] = Chunks
        BY <1>t, <2>1, <3>1, <4>1 DEF TypeOK
      <4>3. QED BY <1>t, <4>2 DEF WholeIsHeld, Has
    <3>2. QED BY <2>1, <3>1 DEF WholeIsHeld, Has
  <2>3. \A k \in Nodes : wire'[k] \subseteq wire[k]
    BY <1>t, <2>1 DEF TypeOK
  <2>4. \A k \in Nodes, h \in Blobs : holders'[k][h] \subseteq holders[k][h]
    BY <1>t, <2>1 DEF TypeOK
  <2>5. QED BY <1>t, <2>1, <2>2, <2>3, <2>4 DEF SaysWhoHeld, HoldersDidHold
<1>5. ASSUME NEW n \in Nodes, Restart(n) PROVE Goal
  BY <1>5, <1>s DEF Restart
<1>6. ASSUME NEW n \in Nodes, NEW b \in Blobs, Add(n, b) PROVE Goal
  <2>1. /\ store' = [store EXCEPT ![n][b] = Chunks] /\ UNCHANGED <<holders, wire>>
        /\ held' = [held EXCEPT ![b] = @ \cup {n}]
    BY <1>6 DEF Add
  <2>2. \A h \in Blobs : held[h] \subseteq held'[h]
    BY <1>t, <2>1 DEF TypeOK
  <2>3. ASSUME NEW k \in Nodes, NEW h \in Blobs, store'[k][h] = Chunks PROVE k \in held'[h]
    <3>1. CASE k = n /\ h = b
      BY <1>t, <2>1, <3>1 DEF TypeOK
    <3>2. CASE ~(k = n /\ h = b)
      <4>1. store'[k][h] = store[k][h]
        BY <1>t, <2>1, <3>2 DEF TypeOK
      <4>2. QED BY <1>t, <2>2, <2>3, <4>1 DEF WholeIsHeld, Has
    <3>3. QED BY <3>1, <3>2
  <2>4. QED BY <1>g, <2>1, <2>2, <2>3 DEF WholeIsHeld, Has
<1>7. QED BY <1>u, <1>1, <1>2, <1>3, <1>4, <1>5, <1>6 DEF Next, Fetching, GoesOn

\* Whatever gossip loses, repeats or echoes, a registry names only others, and
\* only participants that did have the blob whole.
THEOREM HoldersDidHoldHolds == Spec => []HoldersDidHold
<1>1. HeldInv => HoldersDidHold
  BY DEF HeldInv
<1>2. QED BY <1>1, HeldInit, HeldStep, PTL DEF Spec
=============================================================================
