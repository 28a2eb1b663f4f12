-------------------------- MODULE BootstrapProofs ---------------------------
(***************************************************************************)
(* Proofs about Bootstrap, for every set of nodes, peers' events and       *)
(* payloads, and every combination of faults of the nodes, the topic and   *)
(* Iggy: the nodes and the forwarder together implement EventFeed.         *)
(***************************************************************************)
EXTENDS Bootstrap, EventSyncProofs

-----------------------------------------------------------------------------
(* What waits on event_rx.                                                 *)

\* A channel q, what was read from it (T) and the table (D): everything waits
\* once, was not read before, and is in the table, as is all that was read.
LineOk(q, T, D) ==
  /\ \A i, j \in DOMAIN q : q[i] = q[j] => i = j
  /\ Range(q) \subseteq D \ T
  /\ T \subseteq D

\* Nothing waits twice on any event_rx, nor again once it was read.
OnceInLine == \A n \in Nodes : LineOk(rxQ[n], taken[n], db[n])

\* An empty channel is in order.
LEMMA LineEmpty ==
  ASSUME NEW T, NEW D, T \subseteq D
  PROVE  LineOk(<<>>, T, D)
  BY RangeOfEmpty DEF LineOk

\* A row that NetworkActor::run inserts and hands over is new to the channel.
LEMMA LinePush ==
  ASSUME NEW q \in Seq(Events), NEW T, NEW D, NEW e \in Events,
         LineOk(q, T, D), e \notin D
  PROVE  LineOk(Append(q, e), T, D \cup {e})
<1> DEFINE t == Append(q, e)
<1>1. Range(t) = Range(q) \cup {e}
  BY RangeOfAppend
<1>2. /\ DOMAIN t = 1..(Len(q) + 1) /\ DOMAIN q = 1..Len(q) /\ Len(q) \in Nat
      /\ \A i \in 1..Len(q) : t[i] = q[i]
      /\ t[Len(q) + 1] = e
  BY LenProperties
<1> HIDE DEF t
<1>3. \A i \in 1..Len(q) : q[i] \in D
  BY <1>2 DEF LineOk, Range
<1>4. ASSUME NEW i \in DOMAIN t, NEW j \in DOMAIN t, t[i] = t[j] PROVE i = j
  <2>1. (i \in 1..Len(q) \/ i = Len(q) + 1) /\ (j \in 1..Len(q) \/ j = Len(q) + 1)
    BY <1>2
  <2>2. CASE i \in 1..Len(q) /\ j \in 1..Len(q)
    BY <2>2, <1>2, <1>4 DEF LineOk
  <2>3. CASE i = Len(q) + 1 /\ j \in 1..Len(q)
    BY <2>3, <1>2, <1>3, <1>4
  <2>4. CASE i \in 1..Len(q) /\ j = Len(q) + 1
    BY <2>4, <1>2, <1>3, <1>4
  <2>5. QED BY <2>1, <2>2, <2>3, <2>4
<1>5. LineOk(t, T, D \cup {e})
  BY <1>1, <1>4 DEF LineOk
<1>6. QED BY <1>5 DEF t

\* What is read had not been read before, and does not wait once more.
LEMMA LineTake ==
  ASSUME NEW q \in Seq(Events), NEW T, NEW D, LineOk(q, T, D), q # <<>>
  PROVE  /\ Head(q) \in Events /\ Head(q) \in D \ T
         /\ LineOk(Tail(q), T \cup {Head(q)}, D)
<1> DEFINE t == Tail(q)
           h == Head(q)
<1>1. h \in Events /\ t \in Seq(Events) /\ Range(q) = {h} \cup Range(t)
  BY RangeOfTail
<1>2. /\ Len(q) \in Nat \ {0} /\ h = q[1] /\ Len(t) = Len(q) - 1
      /\ DOMAIN q = 1..Len(q) /\ DOMAIN t = 1..Len(t)
      /\ \A i \in 1..Len(t) : t[i] = q[i + 1]
  BY <1>1, LenProperties, EmptySeq, HeadTailProperties
<1> HIDE DEF t, h
<1>3. \A i \in 1..Len(t) : i + 1 \in 1..Len(q) /\ i + 1 # 1
  BY <1>2
<1>4. ASSUME NEW i \in DOMAIN t, NEW j \in DOMAIN t, t[i] = t[j] PROVE i = j
  <2>1. i + 1 = j + 1
    BY <1>2, <1>3, <1>4 DEF LineOk
  <2>2. QED BY <2>1, <1>2
<1>5. h \notin Range(t)
  <2>1. 1 \in DOMAIN q
    BY <1>2
  <2>2. QED BY <2>1, <1>2, <1>3 DEF LineOk, Range
<1>6. LineOk(t, T \cup {h}, D) /\ h \in D \ T
  BY <1>1, <1>4, <1>5 DEF LineOk
<1>7. QED BY <1>1, <1>6 DEF t, h

\* The steps that touch neither the channel nor what was read leave the line
\* as it is when the table only grows.
LEMMA LineKept ==
  ASSUME NEW q, NEW T, NEW D, NEW E, LineOk(q, T, D), D \subseteq E
  PROVE  LineOk(q, T, E)
  BY DEF LineOk

\* Which steps touch the channel or what was read.
LEMMA LinesKept ==
  ASSUME TypeOK, [Next]_vars,
         \A n \in Nodes : ~Take(n) /\ ~DropHandle(n) /\ ~StoreEvent(n) /\ ~Crash(n),
         \A n \in Nodes, e \in Events : ~Receive(n, e)
  PROVE  UNCHANGED <<db, rxQ, taken>>
  BY DEF Next, Application, Storage, Network, Process, Topic, vars, topicVars,
         historyVars, channelVars, Send, StoreFails, Broadcast, BroadcastFails,
         ReceiveFails, Received, Ignored, Restart, Join, Leave, Lose, Relay

\* No step of any node puts an event in line a second time.
LEMMA LinesStep == TypeOK /\ OnceInLine /\ [Next]_vars => OnceInLine'
<1> SUFFICES ASSUME TypeOK, OnceInLine, [Next]_vars, NEW k \in Nodes
             PROVE  LineOk(rxQ'[k], taken'[k], db'[k])
  BY DEF OnceInLine
<1>t. rxQ[k] \in Seq(Events) /\ LineOk(rxQ[k], taken[k], db[k])
  BY DEF TypeOK, OnceInLine
<1>f. /\ rxQ \in [Nodes -> Seq(Events)]
      /\ db \in [Nodes -> SUBSET Events]
      /\ taken \in [Nodes -> SUBSET Events]
  BY DEF TypeOK
<1>0. CASE UNCHANGED <<db, rxQ, taken>>
  BY <1>0, <1>t
<1>1. ASSUME NEW n \in Nodes, Take(n) PROVE LineOk(rxQ'[k], taken'[k], db'[k])
  <2>1. /\ rxQ' = [rxQ EXCEPT ![n] = Tail(@)] /\ rxQ[n] # <<>>
        /\ taken' = [taken EXCEPT ![n] = @ \cup {Head(rxQ[n])}]
        /\ db' = db
    BY <1>1 DEF Take
  <2>2. CASE k = n
    <3>1. /\ rxQ'[k] = Tail(rxQ[k]) /\ taken'[k] = taken[k] \cup {Head(rxQ[k])}
          /\ db'[k] = db[k]
      BY <2>1, <2>2, <1>f
    <3>2. LineOk(Tail(rxQ[k]), taken[k] \cup {Head(rxQ[k])}, db[k])
      BY <2>1, <2>2, <1>t, LineTake
    <3>3. QED BY <3>1, <3>2
  <2>3. CASE k # n
    BY <2>1, <2>3, <1>t, <1>f
  <2>4. QED BY <2>2, <2>3
<1>2. ASSUME NEW n \in Nodes, DropHandle(n) PROVE LineOk(rxQ'[k], taken'[k], db'[k])
  <2>1. rxQ'[k] \in {rxQ[k], <<>>} /\ taken'[k] = taken[k] /\ db'[k] = db[k]
    BY <1>2, <1>f DEF DropHandle
  <2>2. QED BY <2>1, <1>t, LineEmpty DEF LineOk
<1>3. ASSUME NEW n \in Nodes, StoreEvent(n) PROVE LineOk(rxQ'[k], taken'[k], db'[k])
  <2>1. rxQ' = rxQ /\ taken' = taken /\ db[k] \subseteq db'[k]
    BY <1>3, TablesGrow DEF StoreEvent
  <2>2. QED BY <2>1, <1>t, LineKept
<1>4. ASSUME NEW n \in Nodes, NEW e \in Events, Receive(n, e)
      PROVE  LineOk(rxQ'[k], taken'[k], db'[k])
  <2>1. taken' = taken /\ db[k] \subseteq db'[k]
    BY <1>4, TablesGrow DEF Receive, Received
  <2>2. CASE rxQ' = rxQ
    BY <2>1, <2>2, <1>t, LineKept
  <2>3. CASE /\ e \notin db[n]
             /\ db' = [db EXCEPT ![n] = @ \cup {e}]
             /\ rxQ' = [rxQ EXCEPT ![n] = Append(@, e)]
    <3>1. CASE k = n
      <4>1. db'[k] = db[k] \cup {e} /\ rxQ'[k] = Append(rxQ[k], e) /\ taken'[k] = taken[k]
        BY <2>1, <2>3, <3>1, <1>f
      <4>2. QED BY <4>1, <2>3, <3>1, <1>t, LinePush
    <3>2. CASE k # n
      BY <2>1, <2>3, <3>2, <1>t, <1>f
    <3>3. QED BY <3>1, <3>2
  <2>4. QED BY <1>4, <2>2, <2>3, ReceiveEffect
<1>5. ASSUME NEW n \in Nodes, Crash(n) PROVE LineOk(rxQ'[k], taken'[k], db'[k])
  <2>1. rxQ' = [rxQ EXCEPT ![n] = <<>>]
    BY <1>5 DEF Crash, ChannelsEnd
  <2>2. CASE UNCHANGED <<db, taken>>
    <3>1. rxQ'[k] \in {rxQ[k], <<>>} /\ taken'[k] = taken[k] /\ db'[k] = db[k]
      BY <2>1, <2>2, <1>f
    <3>2. QED BY <3>1, <1>t, LineEmpty DEF LineOk
  <2>3. CASE db' = [db EXCEPT ![n] = {}] /\ taken' = [taken EXCEPT ![n] = {}]
    <3>1. CASE k = n
      BY <2>1, <2>3, <3>1, <1>f, LineEmpty
    <3>2. CASE k # n
      BY <2>1, <2>3, <3>2, <1>t, <1>f
    <3>3. QED BY <3>1, <3>2
  <2>4. QED BY <1>5, <2>2, <2>3 DEF Crash, TableSurvives
<1>6. QED BY <1>0, <1>1, <1>2, <1>3, <1>4, <1>5, LinesKept

-----------------------------------------------------------------------------
(* The inbox and what of it came by the NetworkActor.                      *)

Readable == Events \cup GroupMessages

\* The channel r is what of q is an event of the events topic, in its order:
\* pos says where in q each entry of r is.
Places(pos, q, r) ==
  /\ pos \in [1..Len(r) -> 1..Len(q)]
  /\ \A k \in 1..Len(r) : q[pos[k]] = r[k]
  /\ \A k, l \in 1..Len(r) : k < l => pos[k] < pos[l]
  /\ \A i \in 1..Len(q) : q[i] \in Events => \E k \in 1..Len(r) : pos[k] = i
PartOf(q, r) == \E pos : Places(pos, q, r)

\* An empty inbox holds nothing of the NetworkActor.
LEMMA PartEmpty == PartOf(<<>>, <<>>)
<1>1. Places(<<>>, <<>>, <<>>)
  BY DEF Places
<1>2. QED BY <1>1 DEF PartOf

\* What NetworkActor::run puts in line is last in both.
LEMMA PartPush ==
  ASSUME NEW q \in Seq(Readable), NEW r \in Seq(Events), NEW e \in Events, PartOf(q, r)
  PROVE  PartOf(Append(q, e), Append(r, e))
<1> DEFINE u == Append(q, e)
           t == Append(r, e)
<1>1. PICK pos : Places(pos, q, r)
  BY DEF PartOf
<1>2. /\ Len(q) \in Nat /\ Len(r) \in Nat
      /\ Len(u) = Len(q) + 1 /\ Len(t) = Len(r) + 1
      /\ \A i \in 1..Len(q) : u[i] = q[i]
      /\ \A i \in 1..Len(r) : t[i] = r[i]
      /\ u[Len(q) + 1] = e /\ t[Len(r) + 1] = e
  BY DEF Readable
<1> HIDE DEF u, t
<1> DEFINE p == [k \in 1..Len(t) |-> IF k = Len(t) THEN Len(u) ELSE pos[k]]
<1>3. /\ \A k \in 1..Len(r) : k \in 1..Len(t) /\ p[k] = pos[k] /\ pos[k] \in 1..Len(q)
      /\ p[Len(t)] = Len(u) /\ Len(t) \in 1..Len(t)
      /\ \A k \in 1..Len(t) : k \in 1..Len(r) \/ k = Len(t)
  BY <1>1, <1>2 DEF Places
<1>4. p \in [1..Len(t) -> 1..Len(u)]
  <2>1. ASSUME NEW k \in 1..Len(t)
        PROVE  (IF k = Len(t) THEN Len(u) ELSE pos[k]) \in 1..Len(u)
    <3>0. Len(u) \in 1..Len(u)
      BY <1>2
    <3>1. CASE k = Len(t)
      BY <3>0, <3>1
    <3>2. CASE k # Len(t)
      <4>1. k \in 1..Len(r) /\ 1..Len(q) \subseteq 1..Len(u)
        BY <3>2, <1>2
      <4>2. pos[k] \in 1..Len(u)
        BY <4>1, <1>1 DEF Places
      <4>3. QED BY <3>2, <4>2
    <3>3. QED BY <3>1, <3>2
  <2>2. QED BY <2>1
<1> HIDE DEF p
<1>5. ASSUME NEW k \in 1..Len(t) PROVE u[p[k]] = t[k]
  <2>1. CASE k \in 1..Len(r)
    <3>1. p[k] = pos[k] /\ u[pos[k]] = q[pos[k]] /\ t[k] = r[k]
      BY <2>1, <1>2, <1>3
    <3>2. QED BY <3>1, <2>1, <1>1 DEF Places
  <2>2. CASE k = Len(t)
    BY <2>2, <1>2, <1>3
  <2>3. QED BY <2>1, <2>2, <1>3
<1>6. \A k, l \in 1..Len(t) : k < l => p[k] < p[l]
  BY <1>1, <1>2, <1>3 DEF Places
<1>7. ASSUME NEW i \in 1..Len(u), u[i] \in Events PROVE \E k \in 1..Len(t) : p[k] = i
  <2>1. CASE i = Len(u)
    BY <2>1, <1>3
  <2>2. CASE i \in 1..Len(q)
    BY <2>2, <1>1, <1>2, <1>3, <1>7 DEF Places
  <2>3. QED BY <2>1, <2>2, <1>2
<1>8. Places(p, u, t)
  BY <1>4, <1>5, <1>6, <1>7 DEF Places
<1>9. QED BY <1>8 DEF PartOf, u, t

\* A group message in line leaves the NetworkActor's part as it is.
LEMMA PartPushMessage ==
  ASSUME NEW q \in Seq(Readable), NEW r \in Seq(Events), NEW g \in GroupMessages, PartOf(q, r)
  PROVE  PartOf(Append(q, g), r)
<1> DEFINE u == Append(q, g)
<1>1. PICK pos : Places(pos, q, r)
  BY DEF PartOf
<1>2. /\ Len(q) \in Nat /\ Len(r) \in Nat /\ Len(u) = Len(q) + 1
      /\ \A i \in 1..Len(q) : u[i] = q[i]
      /\ u[Len(q) + 1] = g /\ g \notin Events
  BY MessageAssumption DEF Readable
<1> HIDE DEF u
<1>3. \A i \in 1..Len(u) : i \in 1..Len(q) \/ u[i] \notin Events
  BY <1>2
<1>4. pos \in [1..Len(r) -> 1..Len(u)]
  <2>1. 1..Len(q) \subseteq 1..Len(u) /\ pos \in [1..Len(r) -> 1..Len(q)]
    BY <1>1, <1>2 DEF Places
  <2>2. QED BY <2>1
<1>5. \A k \in 1..Len(r) : u[pos[k]] = r[k]
  BY <1>1, <1>2 DEF Places
<1>6. Places(pos, u, r)
  BY <1>1, <1>2, <1>3, <1>4, <1>5 DEF Places
<1>7. QED BY <1>6 DEF PartOf, u

\* An event at the head of the inbox is the head of the NetworkActor's part.
LEMMA PartTake ==
  ASSUME NEW q \in Seq(Readable), NEW r \in Seq(Events), PartOf(q, r),
         q # <<>>, Head(q) \in Events
  PROVE  r # <<>> /\ Head(r) = Head(q) /\ PartOf(Tail(q), Tail(r))
<1> DEFINE u == Tail(q)
           t == Tail(r)
<1>1. PICK pos : Places(pos, q, r)
  BY DEF PartOf
<1>2. /\ Len(q) \in Nat \ {0} /\ Len(r) \in Nat /\ Head(q) = q[1]
      /\ Len(u) = Len(q) - 1 /\ \A i \in 1..Len(u) : u[i] = q[i + 1]
  BY DEF Readable
<1>3. PICK k \in 1..Len(r) : pos[k] = 1
  BY <1>1, <1>2 DEF Places
<1>4. k = 1
  <2>1. CASE k > 1
    <3>1. 1 \in 1..Len(r) /\ 1 < k
      BY <2>1, <1>2
    <3>2. pos[1] < pos[k] /\ pos[1] \in 1..Len(q)
      BY <3>1, <1>1 DEF Places
    <3>3. QED BY <3>2, <1>2, <1>3
  <2>2. QED BY <2>1, <1>2
<1>5. r # <<>> /\ Head(r) = r[1] /\ r[1] = q[1]
  BY <1>1, <1>2, <1>3, <1>4 DEF Places
<1>6. Len(t) = Len(r) - 1 /\ \A i \in 1..Len(t) : t[i] = r[i + 1]
  BY <1>5
<1> HIDE DEF u, t
<1> DEFINE p == [l \in 1..Len(t) |-> pos[l + 1] - 1]
<1>7. ASSUME NEW l \in 1..Len(t)
      PROVE  /\ l + 1 \in 1..Len(r) /\ pos[l + 1] \in 2..Len(q)
             /\ p[l] = pos[l + 1] - 1 /\ p[l] \in 1..Len(u) /\ p[l] + 1 = pos[l + 1]
  <2>1. l + 1 \in 1..Len(r) /\ 1 \in 1..Len(r) /\ 1 < l + 1
    BY <1>2, <1>3, <1>6
  <2>2. pos[1] < pos[l + 1] /\ pos[l + 1] \in 1..Len(q)
    BY <2>1, <1>1 DEF Places
  <2>3. QED BY <2>1, <2>2, <1>2, <1>3, <1>4
<1>8. p \in [1..Len(t) -> 1..Len(u)]
  BY <1>7
<1> HIDE DEF p
<1>9. ASSUME NEW l \in 1..Len(t) PROVE u[p[l]] = t[l]
  <2>1. u[p[l]] = q[pos[l + 1]] /\ t[l] = r[l + 1] /\ l + 1 \in 1..Len(r)
    BY <1>2, <1>6, <1>7
  <2>2. QED BY <2>1, <1>1 DEF Places
<1>10. ASSUME NEW l \in 1..Len(t), NEW m \in 1..Len(t), l < m PROVE p[l] < p[m]
  <2>1. pos[l + 1] < pos[m + 1]
    BY <1>1, <1>7, <1>10 DEF Places
  <2>2. QED BY <2>1, <1>7
<1>11. ASSUME NEW i \in 1..Len(u), u[i] \in Events PROVE \E l \in 1..Len(t) : p[l] = i
  <2>1. i + 1 \in 1..Len(q) /\ q[i + 1] \in Events
    BY <1>2, <1>11
  <2>2. PICK l \in 1..Len(r) : pos[l] = i + 1
    BY <2>1, <1>1 DEF Places
  <2>3. l # 1 /\ l - 1 \in 1..Len(t)
    BY <2>2, <1>2, <1>3, <1>4, <1>6
  <2>4. p[l - 1] = pos[(l - 1) + 1] - 1 /\ (l - 1) + 1 = l
    BY <2>2, <2>3, <1>7
  <2>5. p[l - 1] = i
    BY <2>2, <2>4
  <2>6. QED BY <2>3, <2>5
<1>12. Places(p, u, t)
  BY <1>8, <1>9, <1>10, <1>11 DEF Places
<1>13. QED BY <1>12, <1>2, <1>5 DEF PartOf, u, t

\* A group message at the head of the inbox is none of the NetworkActor's.
LEMMA PartTakeMessage ==
  ASSUME NEW q \in Seq(Readable), NEW r \in Seq(Events), PartOf(q, r),
         q # <<>>, Head(q) \notin Events
  PROVE  PartOf(Tail(q), r)
<1> DEFINE u == Tail(q)
<1>1. PICK pos : Places(pos, q, r)
  BY DEF PartOf
<1>2. /\ Len(q) \in Nat \ {0} /\ Len(r) \in Nat /\ q[1] \notin Events
      /\ Len(u) = Len(q) - 1 /\ \A i \in 1..Len(u) : u[i] = q[i + 1]
      /\ \A k \in 1..Len(r) : r[k] \in Events
  BY DEF Readable
<1> HIDE DEF u
<1> DEFINE p == [k \in 1..Len(r) |-> pos[k] - 1]
<1>3. ASSUME NEW k \in 1..Len(r)
      PROVE  pos[k] \in 2..Len(q) /\ p[k] = pos[k] - 1 /\ p[k] \in 1..Len(u) /\ p[k] + 1 = pos[k]
  <2>1. pos[k] \in 1..Len(q) /\ q[pos[k]] = r[k]
    BY <1>1 DEF Places
  <2>2. pos[k] # 1
    BY <2>1, <1>2
  <2>3. QED BY <2>1, <2>2, <1>2
<1>4. p \in [1..Len(r) -> 1..Len(u)]
  BY <1>3
<1> HIDE DEF p
<1>5. \A k \in 1..Len(r) : u[p[k]] = r[k]
  BY <1>1, <1>2, <1>3 DEF Places
<1>6. ASSUME NEW k \in 1..Len(r), NEW l \in 1..Len(r), k < l PROVE p[k] < p[l]
  <2>1. pos[k] < pos[l]
    BY <1>1, <1>6 DEF Places
  <2>2. QED BY <2>1, <1>3
<1>7. ASSUME NEW i \in 1..Len(u), u[i] \in Events PROVE \E k \in 1..Len(r) : p[k] = i
  <2>1. i + 1 \in 1..Len(q) /\ q[i + 1] \in Events
    BY <1>2, <1>7
  <2>2. PICK k \in 1..Len(r) : pos[k] = i + 1
    BY <2>1, <1>1 DEF Places
  <2>3. QED BY <2>2, <1>3
<1>8. Places(p, u, r)
  BY <1>4, <1>5, <1>6, <1>7 DEF Places
<1>9. QED BY <1>8 DEF PartOf, u

-----------------------------------------------------------------------------
(* The composition.                                                        *)

\* Whatever Boot's main loop, its group forwarders and its connection to Iggy
\* do, the nodes take the steps of EventSync.
LEMMA NodesStep == [BootNext]_allVars => [Next]_vars
<1> SUFFICES ASSUME [BootNext]_allVars PROVE [Next]_vars
  OBVIOUS
<1>b. Boot \in Nodes
  BY BootAssumption
<1>1. CASE UNCHANGED allVars
  BY <1>1 DEF allVars
<1>2. CASE \E n \in Nodes : Peer(n)
  BY <1>2 DEF Peer, Next
<1>3. CASE BootNode
  BY <1>b, <1>3 DEF BootNode, Next
<1>4. CASE BootHandles
  BY <1>b, <1>4 DEF BootHandles, Next, Application
<1>5. CASE BootEnds \/ BootRestarts
  BY <1>b, <1>5 DEF BootEnds, BootRestarts, Next, Process
<1>6. CASE Iggy \/ \E g \in GroupMessages : GroupForwards(g)
  BY <1>6 DEF Iggy, GroupForwards, vars
<1>7. QED BY <1>1, <1>2, <1>3, <1>4, <1>5, <1>6 DEF BootNext

\* A bootstrap server on the topic takes no step that a node would not take:
\* all that is proved of the event path holds beside it.
THEOREM NodesImplemented == BootSpec => Spec
<1>1. BootInit => Init
  BY DEF BootInit
<1>2. QED BY <1>1, NodesStep, PTL DEF BootSpec, Spec

\* The event of each message of the Iggy topic.
feedBar == [i \in DOMAIN log |-> log[i].event]

\* The inbox: events, in line as the NetworkActor put them, and group messages
\* that came.
InboxOk ==
  /\ inbox \in Seq(Readable)
  /\ PartOf(inbox, rxQ[Boot])
  /\ Range(inbox) \subseteq Events \cup came
  /\ came \subseteq GroupMessages

\* The invariant of the refinement: in the topic is only what Boot's main
\* loop has read, and no event twice.
BootInv ==
  /\ IInv
  /\ OnceInLine
  /\ InboxOk
  /\ log \in Seq(Range(log))
  /\ Range(feedBar) \subseteq taken[Boot] \cup came

\* What the handler of one event does to the topic: nothing, or a message
\* with that event at its end.
LEMMA HandleEffect ==
  ASSUME F!Handle
  PROVE  \/ log' = log
         \/ log' = Append(log, F!Message(handled + 1, Head(inbox)))
  BY DEF F!Handle, F!SentOk, F!SentErr, F!Disabled, F!SendOk, F!NotConnected, F!SendErr

\* The message stands for the event that was read.
LEMMA MessageOf ==
  ASSUME NEW k, NEW e
  PROVE  F!Message(k, e).event = e
  BY DEF F!Message

\* What one more message does to the topic and to the feed.
LEMMA FeedAppend ==
  ASSUME log \in Seq(Range(log)), NEW m, log' = Append(log, m)
  PROVE  /\ log' \in Seq(Range(log)')
         /\ feedBar' = Append(feedBar, m.event)
         /\ Range(feedBar)' = Range(feedBar) \cup {m.event}
<1> DEFINE M == Range(log) \cup {m}
           G == {x.event : x \in M}
<1>1. log \in Seq(M) /\ m \in M
  OBVIOUS
<1>2. log' \in Seq(M) /\ Range(log') = M
  BY <1>1, RangeOfAppend
<1>3. /\ DOMAIN log = 1..Len(log) /\ Len(log) \in Nat
      /\ DOMAIN log' = 1..(Len(log) + 1)
      /\ \A i \in 1..Len(log) : log'[i] = log[i] /\ log[i] \in M
      /\ log'[Len(log) + 1] = m
  BY <1>1, LenProperties
<1> HIDE DEF M
<1>4. feedBar \in Seq(G) /\ Len(feedBar) = Len(log) /\ m.event \in G
  <2>1. feedBar \in [1..Len(log) -> G]
    BY <1>3 DEF feedBar
  <2>2. QED BY <2>1, <1>1, <1>3, SeqDef, LenProperties
<1>5. feedBar' = Append(feedBar, m.event)
  BY <1>3, <1>4 DEF feedBar
<1>6. QED BY <1>2, <1>4, <1>5, RangeOfAppend

-----------------------------------------------------------------------------
(* The invariant.                                                          *)

\* What the application of a node on a database file has read stays read.
LEMMA ReadStays ==
  ASSUME TypeOK, [Next]_vars, NEW k \in Durable
  PROVE  taken[k] \subseteq taken'[k]
<1>f. k \in Nodes /\ taken \in [Nodes -> SUBSET Events]
  BY DurableAssumption DEF TypeOK
<1>0. CASE UNCHANGED <<db, rxQ, taken>>
  BY <1>0
<1>1. ASSUME NEW n \in Nodes, Take(n) PROVE taken[k] \subseteq taken'[k]
  BY <1>1, <1>f DEF Take
<1>2. ASSUME NEW n \in Nodes, DropHandle(n) \/ StoreEvent(n)
      PROVE  taken[k] \subseteq taken'[k]
  BY <1>2 DEF DropHandle, StoreEvent
<1>3. ASSUME NEW n \in Nodes, NEW e \in Events, Receive(n, e)
      PROVE  taken[k] \subseteq taken'[k]
  BY <1>3 DEF Receive, Received
<1>4. ASSUME NEW n \in Nodes, Crash(n) PROVE taken[k] \subseteq taken'[k]
  BY <1>4, <1>f DEF Crash, TableSurvives
<1>5. QED BY <1>0, <1>1, <1>2, <1>3, <1>4, LinesKept

\* A step publishes at most one event.
LEMMA PublishedStep ==
  ASSUME IInv, [Next]_vars
  PROVE  published' = published \/ \E e \in Events : published' = published \cup {e}
<1>1. ASSUME NEW n \in Nodes, StoreEvent(n)
      PROVE  published' = published \/ \E e \in Events : published' = published \cup {e}
  <2>1. Head(appQ[n]) \in Events
    BY <1>1, RangeOfTail DEF IInv, TypeOK, StoreEvent
  <2>2. QED BY <1>1, <2>1 DEF StoreEvent
<1>2. ASSUME NEW n \in Nodes, Crash(n) \/ \E e \in Events : Receive(n, e)
      PROVE  published' = published
  BY <1>2 DEF Crash, Ends, Receive, Received
<1>3. QED BY <1>1, <1>2, TablesKept

\* A message that the handler appends carries what was first in line.
LEMMA FeedGains ==
  ASSUME log \in Seq(Range(log)), BootHandles
  PROVE  \/ log' = log
         \/ /\ log' \in Seq(Range(log)')
            /\ feedBar' = Append(feedBar, Head(inbox))
            /\ Range(feedBar)' = Range(feedBar) \cup {Head(inbox)}
<1> DEFINE e == Head(inbox)
<1>1. log' = log \/ log' = Append(log, F!Message(handled + 1, e))
  BY HandleEffect DEF BootHandles
<1>2. F!Message(handled + 1, e).event = e
  BY MessageOf
<1> HIDE DEF e
<1>3. CASE log' = Append(log, F!Message(handled + 1, e))
  BY <1>2, <1>3, FeedAppend DEF e
<1>4. QED BY <1>1, <1>3

\* Only the handler appends to the topic, and it first reads the event.
LEMMA LogKept == [BootNext]_allVars => log' = log \/ BootHandles
<1> SUFFICES ASSUME [BootNext]_allVars PROVE log' = log \/ BootHandles
  OBVIOUS
<1>1. CASE UNCHANGED allVars
  BY <1>1 DEF allVars, forwarderVars
<1>2. CASE BootNode \/ \E n \in Nodes : Peer(n)
  BY <1>2 DEF BootNode, Peer, Beside, forwarderVars
<1>3. CASE BootEnds \/ BootRestarts
  BY <1>3 DEF BootEnds, BootRestarts, F!Crash, F!Restart
<1>4. CASE Iggy
  BY <1>4 DEF Iggy, F!Reconnect, F!IggyStops, F!IggyStarts, F!LinkBreaks
<1>5. CASE \E g \in GroupMessages : GroupForwards(g)
  BY <1>5 DEF GroupForwards, F!Arrive
<1>6. QED BY <1>1, <1>2, <1>3, <1>4, <1>5 DEF BootNext

\* Only a group forwarder brings a message, and it does nothing else that the
\* feed could see.
LEMMA CameKept ==
  ASSUME [BootNext]_allVars
  PROVE  \/ came' = came
         \/ \E g \in GroupMessages : came' = came \cup {g} /\ UNCHANGED <<vars, log>>
<1>1. CASE UNCHANGED allVars
  BY <1>1 DEF allVars
<1>2. CASE BootNode \/ \E n \in Nodes : Peer(n)
  BY <1>2 DEF BootNode, Peer, Beside
<1>3. CASE BootHandles \/ BootEnds \/ BootRestarts \/ Iggy
  BY <1>3 DEF BootHandles, BootEnds, BootRestarts, Iggy
<1>4. CASE \E g \in GroupMessages : GroupForwards(g)
  BY <1>4 DEF GroupForwards, F!Arrive
<1>5. QED BY <1>1, <1>2, <1>3, <1>4 DEF BootNext

\* What a step of the handler means for the feed: it stays, or it gains an
\* event that Boot read in this very step and never before, or a message
\* that came.
LEMMA FeedEffect ==
  ASSUME BootInv, BootHandles
  PROVE  \/ log' = log
         \/ /\ log' \in Seq(Range(log)')
            /\ \E e \in Readable :
                 /\ \/ /\ e \in Events /\ e \in db[Boot] /\ e \notin taken[Boot]
                       /\ taken'[Boot] = taken[Boot] \cup {e}
                    \/ e \in came
                 /\ feedBar' = Append(feedBar, e)
                 /\ Range(feedBar)' = Range(feedBar) \cup {e}
<1> DEFINE e == Head(inbox)
<1>1. Boot \in Nodes /\ TypeOK /\ log \in Seq(Range(log)) /\ InboxOk
  BY BootAssumption DEF BootInv, IInv
<1>2. e \in Readable /\ e \in Events \cup came
  BY <1>1, RangeOfTail DEF InboxOk, BootHandles
<1>g. \/ log' = log
      \/ /\ log' \in Seq(Range(log)')
         /\ feedBar' = Append(feedBar, e)
         /\ Range(feedBar)' = Range(feedBar) \cup {e}
  BY <1>1, FeedGains
<1>h. inbox # <<>> /\ Head(inbox) = e
  BY DEF BootHandles
<1>k. e \in Events => Take(Boot)
  BY DEF BootHandles
<1> HIDE DEF e
<1>3. CASE e \in Events
  <2>1. /\ rxQ[Boot] \in Seq(Events)
        /\ LineOk(rxQ[Boot], taken[Boot], db[Boot])
        /\ taken' = [taken EXCEPT ![Boot] = @ \cup {Head(rxQ[Boot])}]
        /\ taken \in [Nodes -> SUBSET Events]
    BY <1>1, <1>3, <1>k DEF Take, TypeOK, BootInv, OnceInLine
  <2>2. rxQ[Boot] # <<>> /\ Head(rxQ[Boot]) = e
    BY <1>1, <1>3, <1>h, <2>1, PartTake DEF InboxOk
  <2>3. e \in db[Boot] /\ e \notin taken[Boot]
    BY <2>1, <2>2, LineTake
  <2>4. taken'[Boot] = taken[Boot] \cup {e}
    BY <1>1, <2>1, <2>2
  <2>5. QED BY <1>3, <2>3, <2>4, <1>2, <1>g
<1>4. CASE e \notin Events
  BY <1>4, <1>2, <1>g
<1>5. QED BY <1>3, <1>4

\* Nothing is read and nothing forwarded at the start.
LEMMA BootInvInit == BootInit => BootInv
<1> SUFFICES ASSUME BootInit PROVE BootInv
  OBVIOUS
<1>1. Init /\ log = <<>> /\ inbox = <<>> /\ came = {} /\ Boot \in Nodes
  BY BootAssumption DEF BootInit, F!Init
<1>2. IInv
  BY <1>1, InvInit
<1>3. OnceInLine
  <2>1. ASSUME NEW n \in Nodes PROVE LineOk(rxQ[n], taken[n], db[n])
    BY <1>1, LineEmpty DEF Init
  <2>2. QED BY <2>1 DEF OnceInLine
<1>4. log \in Seq(Range(log)) /\ Range(feedBar) = {}
  BY <1>1 DEF feedBar, Range
<1>5. InboxOk
  <2>1. rxQ[Boot] = <<>>
    BY <1>1 DEF Init
  <2>2. QED BY <2>1, <1>1, PartEmpty, RangeOfEmpty DEF InboxOk
<1>6. QED BY <1>2, <1>3, <1>4, <1>5 DEF BootInv

\* The writers of event_rx and its reader keep the inbox in order.
LEMMA InboxStep ==
  ASSUME InboxOk, TypeOK, [BootNext]_allVars
  PROVE  InboxOk'
<1>1. Boot \in Nodes /\ rxQ[Boot] \in Seq(Events) /\ rxQ \in [Nodes -> Seq(Events)]
  BY BootAssumption DEF TypeOK
<1>2. CASE inbox' = inbox /\ rxQ'[Boot] = rxQ[Boot] /\ came' = came
  BY <1>2 DEF InboxOk
<1>3. CASE Beside
  <2>1. ASSUME NEW e \in Events, rxQ'[Boot] = Append(rxQ[Boot], e), inbox' = Append(inbox, e)
        PROVE  InboxOk'
    <3>1. inbox' \in Seq(Readable) /\ Range(inbox') = Range(inbox) \cup {e}
      BY <2>1, RangeOfAppend DEF InboxOk, Readable
    <3>2. PartOf(inbox', rxQ'[Boot])
      BY <2>1, <1>1, PartPush DEF InboxOk
    <3>3. QED BY <3>1, <3>2, <1>3 DEF InboxOk, Beside
  <2>2. QED BY <2>1, <1>2, <1>3 DEF Beside
<1>4. ASSUME NEW g \in GroupMessages, GroupForwards(g) PROVE InboxOk'
  <2>1. inbox' = Append(inbox, g) /\ came' = came \cup {g} /\ rxQ' = rxQ
    BY <1>4 DEF GroupForwards, F!Arrive, vars, channelVars
  <2>2. inbox' \in Seq(Readable) /\ Range(inbox') = Range(inbox) \cup {g}
    BY <2>1, RangeOfAppend DEF InboxOk, Readable
  <2>3. PartOf(inbox', rxQ'[Boot])
    BY <2>1, <1>1, PartPushMessage DEF InboxOk
  <2>4. QED BY <2>1, <2>2, <2>3 DEF InboxOk
<1>5. CASE BootHandles
  <2>1. inbox # <<>> /\ inbox' = Tail(inbox) /\ came' = came
    BY <1>5 DEF BootHandles, F!Handle
  <2>2. inbox' \in Seq(Readable) /\ Range(inbox') \subseteq Range(inbox)
    BY <2>1, RangeOfTail DEF InboxOk
  <2>3. CASE Head(inbox) \in Events
    <3>1. rxQ'[Boot] = Tail(rxQ[Boot])
      BY <1>1, <1>5, <2>3 DEF BootHandles, Take
    <3>2. PartOf(inbox', rxQ'[Boot])
      BY <2>1, <2>3, <3>1, <1>1, PartTake DEF InboxOk
    <3>3. QED BY <2>1, <2>2, <3>2 DEF InboxOk
  <2>4. CASE Head(inbox) \notin Events
    <3>1. rxQ'[Boot] = rxQ[Boot]
      BY <1>5, <2>4 DEF BootHandles, vars, channelVars
    <3>2. PartOf(inbox', rxQ'[Boot])
      BY <2>1, <2>4, <3>1, <1>1, PartTakeMessage DEF InboxOk
    <3>3. QED BY <2>1, <2>2, <3>2 DEF InboxOk
  <2>5. QED BY <2>3, <2>4
<1>6. CASE BootEnds
  <2>1. inbox' = <<>> /\ rxQ'[Boot] = <<>> /\ came' = came
    BY <1>1, <1>6 DEF BootEnds, Crash, ChannelsEnd, F!Crash
  <2>2. QED BY <2>1, PartEmpty, RangeOfEmpty DEF InboxOk
<1>7. CASE BootRestarts
  BY <1>2, <1>7 DEF BootRestarts, Restart, channelVars, F!Restart
<1>8. CASE Iggy
  BY <1>2, <1>8 DEF Iggy, F!Reconnect, F!IggyStops, F!IggyStarts, F!LinkBreaks, vars, channelVars
<1>9. CASE UNCHANGED allVars
  BY <1>2, <1>9 DEF allVars, vars, channelVars
<1>10. QED BY <1>3, <1>4, <1>5, <1>6, <1>7, <1>8, <1>9 DEF BootNext, Peer, BootNode

\* Every step of the nodes, of Boot's loop and of Iggy keeps the invariant.
LEMMA BootInvStep == BootInv /\ [BootNext]_allVars => BootInv'
<1> SUFFICES ASSUME BootInv, [BootNext]_allVars PROVE BootInv'
  OBVIOUS
<1>1. [Next]_vars /\ IInv /\ TypeOK /\ OnceInLine /\ InboxOk
  BY NodesStep DEF BootInv, IInv
<1>2. IInv' /\ OnceInLine' /\ InboxOk'
  BY <1>1, InvStep, LinesStep, InboxStep
<1>3. taken[Boot] \subseteq taken'[Boot] /\ came \subseteq came'
  BY <1>1, ReadStays, CameKept, BootAssumption
<1>4. log' \in Seq(Range(log)') /\ Range(feedBar)' \subseteq taken'[Boot] \cup came'
  <2>1. CASE log' = log
    BY <2>1, <1>3 DEF BootInv, feedBar
  <2>2. CASE BootHandles /\ log' # log
    BY <2>2, <1>3, FeedEffect DEF BootInv
  <2>3. QED BY <2>1, <2>2, LogKept
<1>5. QED BY <1>2, <1>4 DEF BootInv

-----------------------------------------------------------------------------
(* The refinement.                                                         *)

\* The initial state maps to that of the feed.
LEMMA FeedInit == BootInit => Feed!Init
  BY DEF BootInit, Init, F!Init, Feed!Init

\* Every step is a Publish, a Comes, a Feed or a stutter of the feed.
LEMMA FeedStep == BootInv /\ [BootNext]_allVars => [Feed!Next]_<<published, came, feedBar>>
<1> SUFFICES ASSUME BootInv, [BootNext]_allVars
             PROVE  Feed!Next \/ UNCHANGED <<published, came, feedBar>>
  OBVIOUS
<1>1. [Next]_vars /\ IInv /\ Boot \in Nodes
  BY NodesStep, BootAssumption DEF BootInv
<1>2. CASE came' # came
  <2>1. PICK g \in GroupMessages : came' = came \cup {g} /\ UNCHANGED <<vars, log>>
    BY <1>2, CameKept
  <2>2. Feed!Comes(g)
    BY <2>1 DEF Feed!Comes, feedBar, vars, historyVars
  <2>3. QED BY <2>2 DEF Feed!Next
<1>3. CASE came' = came /\ log' = log
  <2>1. feedBar' = feedBar
    BY <1>3 DEF feedBar
  <2>2. ASSUME NEW e \in Events, published' = published \cup {e} PROVE Feed!Next
    BY <1>3, <2>1, <2>2 DEF Feed!Next, Feed!Publish, feedBar
  <2>3. QED BY <1>1, <1>3, <2>1, <2>2, PublishedStep
<1>4. CASE came' = came /\ BootHandles /\ log' # log
  <2>1. published' = published
    BY <1>4 DEF BootHandles, Take, vars, historyVars
  <2>2. PICK e \in Readable :
          /\ (e \in Events /\ e \in db[Boot] /\ e \notin taken[Boot]) \/ e \in came
          /\ feedBar' = Append(feedBar, e)
    BY <1>4, FeedEffect
  <2>3. e \in (published \ Range(feedBar)) \cup came
    BY <1>1, <2>2, MessageAssumption DEF BootInv, InboxOk, IInv, FlowsFromAuthors
  <2>4. Feed!Feed(e)
    BY <1>4, <2>1, <2>2, <2>3 DEF Feed!Feed, Feed!Range, Range, feedBar
  <2>5. QED BY <2>2, <2>4 DEF Feed!Next, Readable
<1>5. QED BY <1>2, <1>3, <1>4, LogKept

\* The nodes and the forwarder keep the promise of EventFeed: of what the
\* nodes publish on the events topic, Iggy gets each event at most once, and
\* nothing else but group messages that came, through repeats of gossip,
\* restarts of the bootstrap server and failing sends.
THEOREM FeedImplemented == BootSpec => ImplementsFeed
<1>1. BootSpec => []BootInv
  BY BootInvInit, BootInvStep, PTL DEF BootSpec
<1>2. QED BY <1>1, FeedInit, FeedStep, PTL DEF BootSpec, ImplementsFeed, Feed!Spec, feedBar
=============================================================================
