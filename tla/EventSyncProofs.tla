-------------------------- MODULE EventSyncProofs ---------------------------
(***************************************************************************)
(* Proofs about EventSync, for every set of nodes and events, every sharing *)
(* of keys and every combination of faults.                                *)
(***************************************************************************)
EXTENDS EventSync, SequenceTheorems, TLAPS

-----------------------------------------------------------------------------
(* The elements of a queue.                                                *)

\* An empty channel holds nothing.
LEMMA RangeOfEmpty == Range(<<>>) = {}
  BY DEF Range

\* A send adds one event to what the channel holds.
LEMMA RangeOfAppend ==
  ASSUME NEW S, NEW s \in Seq(S), NEW e \in S
  PROVE  /\ Append(s, e) \in Seq(S)
         /\ Range(Append(s, e)) = Range(s) \cup {e}
<1> DEFINE t == Append(s, e)
<1>1. /\ t \in Seq(S)
      /\ Len(t) = Len(s) + 1
      /\ \A i \in 1..Len(s) : t[i] = s[i]
      /\ t[Len(s) + 1] = e
  OBVIOUS
<1>2. DOMAIN s = 1..Len(s) /\ DOMAIN t = 1..(Len(s) + 1) /\ Len(s) \in Nat
  BY <1>1, LenProperties
<1> HIDE DEF t
<1>3. Range(t) \subseteq Range(s) \cup {e}
  <2>1. SUFFICES ASSUME NEW i \in 1..(Len(s) + 1)
                 PROVE  t[i] \in Range(s) \cup {e}
    BY <1>2 DEF Range
  <2>2. i \in 1..Len(s) \/ i = Len(s) + 1
    BY <1>2
  <2>3. QED BY <2>2, <1>1, <1>2 DEF Range
<1>4. Range(s) \subseteq Range(t)
  <2>1. \A i \in 1..Len(s) : i \in 1..(Len(s) + 1)
    BY <1>2
  <2>2. QED BY <2>1, <1>1, <1>2 DEF Range
<1>5. e \in Range(t)
  <2>1. Len(s) + 1 \in 1..(Len(s) + 1)
    BY <1>2
  <2>2. QED BY <2>1, <1>1, <1>2 DEF Range
<1>6. QED BY <1>1, <1>3, <1>4, <1>5 DEF t

\* A recv takes out the head and nothing else.
LEMMA RangeOfTail ==
  ASSUME NEW S, NEW s \in Seq(S), s # <<>>
  PROVE  /\ Head(s) \in S
         /\ Tail(s) \in Seq(S)
         /\ Range(s) = {Head(s)} \cup Range(Tail(s))
<1> DEFINE t == Tail(s)
<1>1. /\ Head(s) \in S /\ t \in Seq(S)
      /\ Len(t) = Len(s) - 1
      /\ \A i \in 1..Len(t) : t[i] = s[i + 1]
  BY HeadTailProperties
<1>2. /\ Len(s) \in Nat \ {0} /\ Head(s) = s[1]
      /\ DOMAIN s = 1..Len(s) /\ DOMAIN t = 1..Len(t)
  BY <1>1, LenProperties, EmptySeq
<1> HIDE DEF t
<1>3. Range(s) \subseteq {Head(s)} \cup Range(t)
  <2>1. SUFFICES ASSUME NEW i \in 1..Len(s)
                 PROVE  s[i] \in {Head(s)} \cup Range(t)
    BY <1>2 DEF Range
  <2>2. CASE i = 1
    BY <2>2, <1>2
  <2>3. CASE i # 1
    <3>1. i - 1 \in 1..Len(t) /\ (i - 1) + 1 = i
      BY <2>3, <1>1, <1>2
    <3>2. t[i - 1] = s[i]
      BY <3>1, <1>1
    <3>3. QED BY <3>1, <3>2, <1>2 DEF Range
  <2>4. QED BY <2>2, <2>3
<1>4. Head(s) \in Range(s)
  <2>1. 1 \in 1..Len(s)
    BY <1>2
  <2>2. QED BY <2>1, <1>2 DEF Range
<1>5. Range(t) \subseteq Range(s)
  <2>1. \A i \in 1..Len(t) : i + 1 \in 1..Len(s)
    BY <1>1, <1>2
  <2>2. QED BY <2>1, <1>1, <1>2 DEF Range
<1>6. QED BY <1>1, <1>3, <1>4, <1>5 DEF t

\* A recv on one queue among the queues of all nodes.
LEMMA PopOne ==
  ASSUME NEW q \in [Nodes -> Seq(Events)], NEW n \in Nodes, q[n] # <<>>
  PROVE  LET r == [q EXCEPT ![n] = Tail(@)] IN
         /\ Head(q[n]) \in Range(q[n])
         /\ Range(q[n]) = {Head(q[n])} \cup Range(r[n])
         /\ \A k \in Nodes \ {n} : r[k] = q[k]
         /\ \A k \in Nodes : Range(r[k]) \subseteq Range(q[k])
<1> DEFINE r == [q EXCEPT ![n] = Tail(@)]
<1>1. Range(q[n]) = {Head(q[n])} \cup Range(Tail(q[n]))
  BY RangeOfTail
<1>2. r[n] = Tail(q[n]) /\ \A k \in Nodes \ {n} : r[k] = q[k]
  OBVIOUS
<1>3. QED BY <1>1, <1>2

\* A send on one queue among the queues of all nodes.
LEMMA PushOne ==
  ASSUME NEW q \in [Nodes -> Seq(Events)], NEW n \in Nodes, NEW e \in Events
  PROVE  LET r == [q EXCEPT ![n] = Append(@, e)] IN
         /\ Range(r[n]) = Range(q[n]) \cup {e}
         /\ \A k \in Nodes \ {n} : r[k] = q[k]
         /\ \A k \in Nodes : Range(q[k]) \subseteq Range(r[k])
<1> DEFINE r == [q EXCEPT ![n] = Append(@, e)]
<1>1. Range(Append(q[n], e)) = Range(q[n]) \cup {e}
  BY RangeOfAppend
<1>2. r[n] = Append(q[n], e) /\ \A k \in Nodes \ {n} : r[k] = q[k]
  OBVIOUS
<1>3. QED BY <1>1, <1>2

-----------------------------------------------------------------------------
(* Type correctness.                                                       *)

\* The state from_config sets up has the types.
LEMMA TypeInit == Init => TypeOK
  BY EmptySeq DEF Init, TypeOK

\* Every action keeps the types; Crash empties what a process that is down has not.
LEMMA TypeStep == TypeOK /\ [Next]_vars => TypeOK'
<1> SUFFICES ASSUME TypeOK, [Next]_vars PROVE TypeOK'
  OBVIOUS
<1> USE DEF TypeOK, VolatileEmpty
<1> USE IdAssumption
<1>u. CASE UNCHANGED vars
  BY <1>u DEF vars, channelVars, topicVars, historyVars
<1>1. ASSUME NEW n \in Nodes, Take(n) PROVE TypeOK'
  BY <1>1, RangeOfTail DEF Take, topicVars
<1>2. ASSUME NEW n \in Nodes, DropHandle(n) PROVE TypeOK'
  BY <1>2, RangeOfSeq, EmptySeq DEF DropHandle, topicVars
<1>3. ASSUME NEW n \in Nodes, NEW e \in Events, Send(n, e) PROVE TypeOK'
  BY <1>3, RangeOfAppend DEF Send, Own, channelVars, topicVars, historyVars
<1>4. ASSUME NEW n \in Nodes, StoreEvent(n) PROVE TypeOK'
  <2>1. /\ Head(appQ[n]) \in Events
        /\ Tail(appQ[n]) \in Seq(Events)
        /\ Append(netQ[n], Head(appQ[n])) \in Seq(Events)
    BY <1>4, RangeOfTail, RangeOfAppend DEF StoreEvent
  <2>2. CASE Head(appQ[n]) \in db[n]
    BY <1>4, <2>1, <2>2 DEF StoreEvent, topicVars
  <2>3. CASE Head(appQ[n]) \notin db[n]
    <3>1. /\ appQ' = [appQ EXCEPT ![n] = Tail(@)]
          /\ netQ' = [netQ EXCEPT ![n] = Append(@, Head(appQ[n]))]
          /\ db' = [db EXCEPT ![n] = @ \cup {Head(appQ[n])}]
          /\ published' = published \cup {Head(appQ[n])}
          /\ up[n]
          /\ UNCHANGED <<up, open, rxQ, mesh, gossip, sent, handed, taken, lost>>
      BY <1>4, <2>3 DEF StoreEvent, topicVars
    <3>2. QED BY <2>1, <3>1
  <2>4. QED BY <2>2, <2>3
<1>5. ASSUME NEW n \in Nodes, StoreFails(n) PROVE TypeOK'
  BY <1>5, RangeOfTail DEF StoreFails, channelVars, topicVars, historyVars
<1>6. ASSUME NEW n \in Nodes, Broadcast(n) PROVE TypeOK'
  BY <1>6, RangeOfTail DEF Broadcast, Copied, Reached, channelVars, topicVars, historyVars
<1>7. ASSUME NEW n \in Nodes, BroadcastFails(n) PROVE TypeOK'
  BY <1>7, RangeOfTail DEF BroadcastFails, channelVars, topicVars, historyVars
<1>8. ASSUME NEW n \in Nodes, NEW e \in Events, Receive(n, e) PROVE TypeOK'
  <2>1. CASE Ignored
    BY <1>8, <2>1 DEF Receive, Received, Ignored
  <2>2. CASE db' = [db EXCEPT ![n] = @ \cup {e}] /\ HandOver(n, e)
    <3>1. Append(rxQ[n], e) \in Seq(Events)
      BY RangeOfAppend
    <3>2. rxQ' \in [Nodes -> Seq(Events)] /\ lost' \in [Nodes -> SUBSET Events]
      <4>1. CASE open[n]
        <5>1. rxQ' = [rxQ EXCEPT ![n] = Append(@, e)] /\ lost' = lost
          BY <2>2, <4>1 DEF HandOver
        <5>2. QED BY <3>1, <5>1
      <4>2. CASE ~open[n]
        <5>1. rxQ' = rxQ /\ lost' = [lost EXCEPT ![n] = @ \cup {e}]
          BY <2>2, <4>2 DEF HandOver
        <5>2. QED BY <5>1
      <4>3. QED BY <4>1, <4>2
    <3>3. handed' \in [Nodes -> [Events -> Nat]]
      <4>1. CASE handed' = handed
        BY <4>1
      <4>2. CASE handed' = [handed EXCEPT ![n][e] = @ + 1]
        <5>1. handed[n][e] + 1 \in Nat
          OBVIOUS
        <5>2. QED BY <4>2, <5>1
      <4>3. QED BY <2>2, <4>1, <4>2 DEF HandOver
    <3>4. \A k \in Nodes : ~up[k] => rxQ'[k] = <<>>
      BY <1>8, <2>2 DEF Receive, Received, HandOver
    <3>5. QED BY <1>8, <2>2, <3>2, <3>3, <3>4 DEF Receive, Received
  <2>3. QED BY <1>8, <2>1, <2>2 DEF Receive
<1>9. ASSUME NEW n \in Nodes, NEW e \in Events, ReceiveFails(n, e) PROVE TypeOK'
  BY <1>9 DEF ReceiveFails, Received, Ignored, channelVars, topicVars, historyVars
<1>10. ASSUME NEW n \in Nodes, Crash(n) PROVE TypeOK'
  <2>1. /\ Range(netQ[n]) \subseteq Events
        /\ Range(rxQ[n]) \subseteq Events
        /\ <<>> \in Seq(Events)
    BY RangeOfSeq, EmptySeq
  <2>2. /\ db' \in [Nodes -> SUBSET Events]
        /\ handed' \in [Nodes -> [Events -> Nat]]
        /\ taken' \in [Nodes -> SUBSET Events]
        /\ lost' \in [Nodes -> SUBSET Events]
    <3>1. CASE n \in Durable
      <4>1. /\ UNCHANGED <<db, handed, taken>>
            /\ lost' = [lost EXCEPT ![n] = @ \cup Range(netQ[n]) \cup Range(rxQ[n])]
        BY <1>10, <3>1 DEF Crash, TableSurvives
      <4>2. QED BY <2>1, <4>1
    <3>2. CASE n \notin Durable
      <4>1. /\ db' = [db EXCEPT ![n] = {}]
            /\ handed' = [handed EXCEPT ![n] = [e \in Events |-> 0]]
            /\ taken' = [taken EXCEPT ![n] = {}]
            /\ lost' = [lost EXCEPT ![n] = {}]
        BY <1>10, <3>2 DEF Crash, TableSurvives
      <4>2. QED BY <4>1
    <3>3. QED BY <3>1, <3>2
  <2>3. QED BY <1>10, <2>1, <2>2 DEF Crash, Ends, ChannelsEnd
<1>11. ASSUME NEW n \in Nodes, Restart(n) PROVE TypeOK'
  BY <1>11 DEF Restart, channelVars, topicVars, historyVars
<1>12. ASSUME NEW n \in Nodes, Join(n) PROVE TypeOK'
  BY <1>12 DEF Join, channelVars, topicVars, historyVars
<1>13. ASSUME NEW n \in Nodes, Leave(n) PROVE TypeOK'
  BY <1>13 DEF Leave, channelVars, topicVars, historyVars
<1>14. ASSUME NEW n \in Nodes, NEW e \in Events, Lose(n, e) PROVE TypeOK'
  BY <1>14 DEF Lose, channelVars, topicVars, historyVars
<1>15. ASSUME NEW n \in Nodes, NEW e \in Events, Relay(n, e) PROVE TypeOK'
  BY <1>15 DEF Relay, channelVars, topicVars, historyVars
<1> QED
  BY <1>u, <1>1, <1>2, <1>3, <1>4, <1>5, <1>6, <1>7, <1>8, <1>9, <1>10, <1>11, <1>12, <1>13, <1>14, <1>15
  DEF Next, Application, Storage, Network, Process, Topic

\* The type invariant of the event path (src/lib.rs), with the fact that
\* channels, topic membership and copies under way end with the process.
THEOREM TypeCorrect == Spec => []TypeOK
  BY TypeInit, TypeStep, PTL DEF Spec

-----------------------------------------------------------------------------
(* The inductive invariant.                                                *)

\* Only four kinds of step change a table or what was handed over.
LEMMA TablesKept ==
  ASSUME [Next]_vars,
         \A n \in Nodes : ~StoreEvent(n) /\ ~Crash(n),
         \A n \in Nodes, e \in Events : ~Receive(n, e)
  PROVE  UNCHANGED <<db, handed, published>>
  BY DEF Next, Application, Storage, Network, Process, Topic, vars, topicVars,
         historyVars, channelVars, Take, DropHandle, Send, StoreFails, Broadcast,
         BroadcastFails, ReceiveFails, Received, Ignored, Restart, Join, Leave,
         Lose, Relay

\* What one Receive does to the table and to the application.
LEMMA ReceiveEffect ==
  ASSUME TypeOK, NEW n \in Nodes, NEW e \in Events, Receive(n, e)
  PROVE  \/ UNCHANGED <<db, rxQ, handed, lost>>
         \/ /\ e \notin Own(n) /\ e \notin db[n]
            /\ db' = [db EXCEPT ![n] = @ \cup {e}]
            /\ \/ /\ rxQ' = [rxQ EXCEPT ![n] = Append(@, e)]
                  /\ handed' = [handed EXCEPT ![n][e] = @ + 1]
                  /\ UNCHANGED lost
               \/ /\ lost' = [lost EXCEPT ![n] = @ \cup {e}]
                  /\ UNCHANGED <<rxQ, handed>>
  BY DEF Receive, Received, Ignored, HandOver

\* What one StoreEvent does to the table and to the outbound channel.
LEMMA StoreEffect ==
  ASSUME TypeOK, NEW n \in Nodes, StoreEvent(n)
  PROVE  /\ Head(appQ[n]) \in Range(appQ[n])
         /\ \/ UNCHANGED <<db, netQ, published>>
            \/ /\ Head(appQ[n]) \notin db[n]
               /\ db' = [db EXCEPT ![n] = @ \cup {Head(appQ[n])}]
               /\ netQ' = [netQ EXCEPT ![n] = Append(@, Head(appQ[n]))]
               /\ published' = published \cup {Head(appQ[n])}
<1>1. appQ[n] \in Seq(Events) /\ appQ[n] # <<>>
  BY DEF TypeOK, StoreEvent
<1>2. Head(appQ[n]) \in Range(appQ[n])
  BY <1>1, RangeOfTail
<1>3. QED BY <1>2 DEF StoreEvent

\* Neither takes a row out of any table.
LEMMA TablesGrow ==
  ASSUME TypeOK, NEW n \in Nodes,
         StoreEvent(n) \/ \E e \in Events : Receive(n, e)
  PROVE  \A k \in Nodes : db[k] \subseteq db'[k]
<1>1. ASSUME NEW S \in SUBSET Events, db' = [db EXCEPT ![n] = @ \cup S]
      PROVE  \A k \in Nodes : db[k] \subseteq db'[k]
  BY <1>1 DEF TypeOK
<1>2. CASE db' = db
  BY <1>2
<1>3. CASE StoreEvent(n)
  <2>1. Head(appQ[n]) \in Events
    BY <1>3, RangeOfTail DEF TypeOK, StoreEvent
  <2>2. db' = db \/ db' = [db EXCEPT ![n] = @ \cup {Head(appQ[n])}]
    BY <1>3 DEF StoreEvent
  <2>3. {Head(appQ[n])} \in SUBSET Events
    BY <2>1
  <2>4. QED BY <1>1, <1>2, <2>2, <2>3
<1>4. ASSUME NEW e \in Events, Receive(n, e)
      PROVE  \A k \in Nodes : db[k] \subseteq db'[k]
  <2>1. db' = db \/ db' = [db EXCEPT ![n] = @ \cup {e}]
    BY <1>4 DEF Receive, Ignored
  <2>2. QED BY <1>1, <1>2, <2>1
<1>5. QED BY <1>3, <1>4

\* The part of IInv about deduplication.
Deduplicates == AtMostOnce /\ NoEcho /\ HandedIsKnown

\* AtMostOnce and NoEcho, with the fact that makes them inductive: an event
\* handed over is in the table that bars it.
LEMMA DedupStep ==
  ASSUME TypeOK, Deduplicates, [Next]_vars
  PROVE  Deduplicates'
<1> USE DEF Deduplicates, AtMostOnce, NoEcho, HandedIsKnown
<1>1. CASE UNCHANGED <<db, handed>>
  BY <1>1
<1>2. ASSUME NEW n \in Nodes, StoreEvent(n) PROVE Deduplicates'
  <2>1. UNCHANGED handed
    BY <1>2 DEF StoreEvent
  <2>2. \A k \in Nodes : db[k] \subseteq db'[k]
    BY <1>2, TablesGrow
  <2>3. QED BY <2>1, <2>2
<1>3. ASSUME NEW n \in Nodes, NEW e \in Events, Receive(n, e) PROVE Deduplicates'
  <2>1. CASE UNCHANGED <<db, handed>>
    BY <2>1, <1>1
  <2>2. CASE /\ e \notin Own(n) /\ e \notin db[n]
             /\ db' = [db EXCEPT ![n] = @ \cup {e}]
             /\ handed' = handed \/ handed' = [handed EXCEPT ![n][e] = @ + 1]
    <3>1. handed[n][e] = 0 /\ Source[e] # NodeId[n]
      BY <2>2 DEF TypeOK, Own
    <3>2. \A k \in Nodes : db[k] \subseteq db'[k]
      BY <2>2 DEF TypeOK
    <3>3. e \in db'[n]
      BY <2>2 DEF TypeOK
    <3>4. \A k \in Nodes, f \in Events :
            handed'[k][f] = handed[k][f] \/ (k = n /\ f = e /\ handed'[k][f] = 1)
      BY <2>2, <3>1 DEF TypeOK
    <3>5. QED BY <3>1, <3>2, <3>3, <3>4
  <2>3. QED BY <1>3, <2>1, <2>2, ReceiveEffect
<1>4. ASSUME NEW n \in Nodes, Crash(n) PROVE Deduplicates'
  <2>1. CASE UNCHANGED <<db, handed>>
    BY <2>1, <1>1
  <2>2. CASE /\ db' = [db EXCEPT ![n] = {}]
             /\ handed' = [handed EXCEPT ![n] = [e \in Events |-> 0]]
    BY <2>2 DEF TypeOK
  <2>3. QED BY <1>4, <2>1, <2>2 DEF Crash, TableSurvives
<1>5. QED BY <1>1, <1>2, <1>3, <1>4, TablesKept

\* Every published event stays in a table of its author: StoreEvent puts it
\* there, only a ":memory:" table is ever emptied.
LEMMA KeptStep ==
  ASSUME TypeOK, FlowsFromAuthors, PublishedIsKept, [Next]_vars
  PROVE  PublishedIsKept'
<1> USE DEF PublishedIsKept
<1>1. CASE UNCHANGED <<db, published>>
  BY <1>1
<1>2. ASSUME NEW n \in Nodes, StoreEvent(n) PROVE PublishedIsKept'
  <2>1. Head(appQ[n]) \in Own(n)
    BY <1>2, StoreEffect DEF FlowsFromAuthors
  <2>2. \A k \in Nodes : db[k] \subseteq db'[k]
    BY <1>2, TablesGrow
  <2>3. \A e \in published' :
          e \in published \/ (Source[e] = NodeId[n] /\ e \in db'[n])
    <3>1. CASE published' = published
      BY <3>1
    <3>2. CASE /\ db' = [db EXCEPT ![n] = @ \cup {Head(appQ[n])}]
               /\ published' = published \cup {Head(appQ[n])}
      BY <2>1, <3>2 DEF TypeOK, Own
    <3>3. QED BY <1>2, <3>1, <3>2, StoreEffect
  <2>4. QED BY <2>2, <2>3
<1>3. ASSUME NEW n \in Nodes, NEW e \in Events, Receive(n, e) PROVE PublishedIsKept'
  <2>1. \A k \in Nodes : db[k] \subseteq db'[k]
    BY <1>3, TablesGrow
  <2>2. published' = published
    BY <1>3 DEF Receive, Received
  <2>3. QED BY <2>1, <2>2
<1>4. ASSUME NEW n \in Nodes, Crash(n) PROVE PublishedIsKept'
  <2>1. published' = published
    BY <1>4 DEF Crash, Ends
  <2>2. \A k \in Durable : db'[k] = db[k]
    BY <1>4, DurableAssumption DEF Crash, TableSurvives, TypeOK
  <2>3. QED BY <2>1, <2>2
<1>5. QED BY <1>1, <1>2, <1>3, <1>4, TablesKept

\* Only StoreEvent feeds the outbound channel, from event_tx.
LEMMA BroadcastsOwnStep ==
  ASSUME TypeOK, FlowsFromAuthors, BroadcastsOwn, [Next]_vars
  PROVE  BroadcastsOwn'
<1> USE DEF BroadcastsOwn
<1>q. netQ \in [Nodes -> Seq(Events)]
  BY DEF TypeOK
<1>1. CASE UNCHANGED <<netQ, db>>
  BY <1>1 DEF Own
<1>2. ASSUME NEW n \in Nodes, StoreEvent(n) PROVE BroadcastsOwn'
  <2>1. CASE UNCHANGED <<db, netQ>>
    BY <2>1, <1>1
  <2>2. CASE /\ db' = [db EXCEPT ![n] = @ \cup {Head(appQ[n])}]
             /\ netQ' = [netQ EXCEPT ![n] = Append(@, Head(appQ[n]))]
    <3>1. Head(appQ[n]) \in Own(n)
      BY <1>2, StoreEffect DEF FlowsFromAuthors
    <3>2. /\ Range(netQ'[n]) = Range(netQ[n]) \cup {Head(appQ[n])}
          /\ \A k \in Nodes \ {n} : netQ'[k] = netQ[k]
      BY <1>q, <2>2, <3>1, PushOne DEF Own
    <3>3. /\ Head(appQ[n]) \in db'[n]
          /\ \A k \in Nodes : db[k] \subseteq db'[k]
      BY <1>2, <2>2, TablesGrow DEF TypeOK
    <3>4. ASSUME NEW k \in Nodes PROVE Range(netQ'[k]) \subseteq Own(k) \cap db'[k]
      BY <3>1, <3>2, <3>3
    <3>5. QED BY <3>4 DEF Own
  <2>3. QED BY <1>2, <2>1, <2>2, StoreEffect
<1>3. ASSUME NEW n \in Nodes, Broadcast(n) \/ BroadcastFails(n) PROVE BroadcastsOwn'
  <2>1. db' = db /\ netQ[n] # <<>> /\ netQ' = [netQ EXCEPT ![n] = Tail(@)]
    BY <1>3 DEF Broadcast, BroadcastFails
  <2>2. \A k \in Nodes : Range(netQ'[k]) \subseteq Range(netQ[k])
    BY <1>q, <2>1, PopOne
  <2>3. QED BY <2>1, <2>2 DEF Own
<1>4. ASSUME NEW n \in Nodes, NEW e \in Events, Receive(n, e) PROVE BroadcastsOwn'
  <2>1. netQ' = netQ /\ \A k \in Nodes : db[k] \subseteq db'[k]
    BY <1>4, TablesGrow DEF Receive
  <2>2. QED BY <2>1 DEF Own
<1>5. ASSUME NEW n \in Nodes, Crash(n) PROVE BroadcastsOwn'
  <2>1. Range(netQ'[n]) = {} /\ \A k \in Nodes \ {n} : netQ'[k] = netQ[k]
    <3>1. netQ' = [netQ EXCEPT ![n] = <<>>]
      BY <1>5 DEF Crash, ChannelsEnd
    <3>2. netQ'[n] = <<>> /\ \A k \in Nodes \ {n} : netQ'[k] = netQ[k]
      BY <1>q, <3>1
    <3>3. QED BY <3>2, RangeOfEmpty
  <2>2. \A k \in Nodes \ {n} : db'[k] = db[k]
    BY <1>5 DEF TypeOK, Crash, TableSurvives
  <2>3. ASSUME NEW k \in Nodes PROVE Range(netQ'[k]) \subseteq Own(k) \cap db'[k]
    BY <2>1, <2>2
  <2>4. QED BY <2>3 DEF Own
<1>6. QED
  BY <1>1, <1>2, <1>3, <1>4, <1>5
  DEF Next, Application, Storage, Network, Process, Topic, vars, topicVars,
      historyVars, channelVars, Take, DropHandle, Send, StoreFails,
      ReceiveFails, Received, Ignored, Restart, Join, Leave, Lose, Relay

\* Only Broadcast and Relay put copies on the wire.
LEMMA CopiesStep ==
  ASSUME TypeOK, FlowsFromAuthors, BroadcastsOwn, [Next]_vars
  PROVE  /\ sent' \subseteq published'
         /\ \A k \in Nodes : gossip'[k] \subseteq sent'
<1> USE DEF FlowsFromAuthors
<1>1. CASE UNCHANGED sent /\ \A k \in Nodes : gossip'[k] \subseteq gossip[k] \cup sent
  <2>1. published \subseteq published'
    BY DEF Next, Application, Storage, Network, Process, Topic, vars, topicVars,
           historyVars, channelVars, Take, DropHandle, Send, StoreEvent, StoreFails,
           Broadcast, BroadcastFails, Receive, ReceiveFails, Received, Crash, Ends,
           Restart, Join, Leave, Lose, Relay
  <2>2. QED BY <1>1, <2>1
<1>2. ASSUME NEW n \in Nodes, Broadcast(n)
      PROVE  /\ sent' \subseteq published'
             /\ \A k \in Nodes : gossip'[k] \subseteq sent'
  <2>1. Head(netQ[n]) \in published
    <3>1. netQ \in [Nodes -> Seq(Events)] /\ netQ[n] # <<>>
      BY <1>2 DEF Broadcast, TypeOK
    <3>2. Head(netQ[n]) \in Range(netQ[n])
      BY <3>1, PopOne
    <3>3. QED BY <3>2 DEF BroadcastsOwn
  <2>2. QED BY <1>2, <2>1 DEF Broadcast, Copied
<1>3. ASSUME NEW n \in Nodes,
             DropHandle(n) \/ Take(n) \/ StoreEvent(n) \/ StoreFails(n)
               \/ BroadcastFails(n) \/ Crash(n) \/ Restart(n) \/ Join(n) \/ Leave(n)
      PROVE  UNCHANGED sent /\ \A k \in Nodes : gossip'[k] \subseteq gossip[k]
  BY <1>3 DEF TypeOK, topicVars, historyVars, Take, DropHandle, StoreEvent,
         StoreFails, BroadcastFails, Crash, Ends, Restart, Join, Leave
<1>4. ASSUME NEW n \in Nodes, NEW e \in Events,
             Send(n, e) \/ Receive(n, e) \/ ReceiveFails(n, e) \/ Lose(n, e) \/ Relay(n, e)
      PROVE  UNCHANGED sent /\ \A k \in Nodes : gossip'[k] \subseteq gossip[k] \cup sent
  <2>1. CASE Send(n, e)
    BY <2>1 DEF Send, topicVars, historyVars
  <2>2. CASE Receive(n, e) \/ ReceiveFails(n, e)
    BY <2>2 DEF Receive, ReceiveFails, Received, TypeOK
  <2>3. CASE Lose(n, e)
    BY <2>3 DEF Lose, historyVars, TypeOK
  <2>4. CASE Relay(n, e)
    BY <2>4 DEF Relay, historyVars, TypeOK
  <2>5. QED BY <1>4, <2>1, <2>2, <2>3, <2>4
<1>5. CASE UNCHANGED vars
  BY <1>5 DEF vars, topicVars, historyVars
<1>6. QED
  BY <1>1, <1>2, <1>3, <1>4, <1>5
  DEF Next, Application, Storage, Network, Process, Topic

\* Only the application puts events on event_tx.
LEMMA AppQueueStep ==
  ASSUME TypeOK, FlowsFromAuthors, [Next]_vars
  PROVE  \A k \in Nodes : Range(appQ'[k]) \subseteq Own(k)
<1>q. appQ \in [Nodes -> Seq(Events)] /\ \A k \in Nodes : Range(appQ[k]) \subseteq Own(k)
  BY DEF TypeOK, FlowsFromAuthors
<1>1. CASE UNCHANGED appQ
  BY <1>q, <1>1
<1>2. ASSUME NEW n \in Nodes, NEW e \in Events, Send(n, e)
      PROVE  \A k \in Nodes : Range(appQ'[k]) \subseteq Own(k)
  <2>1. e \in Own(n) /\ appQ' = [appQ EXCEPT ![n] = Append(@, e)]
    BY <1>2 DEF Send
  <2>2. /\ Range(appQ'[n]) = Range(appQ[n]) \cup {e}
        /\ \A k \in Nodes \ {n} : appQ'[k] = appQ[k]
    BY <1>q, <2>1, PushOne DEF Own
  <2>3. QED BY <1>q, <2>1, <2>2
<1>3. ASSUME NEW n \in Nodes, StoreEvent(n) \/ StoreFails(n)
      PROVE  \A k \in Nodes : Range(appQ'[k]) \subseteq Own(k)
  <2>1. appQ[n] # <<>> /\ appQ' = [appQ EXCEPT ![n] = Tail(@)]
    BY <1>3 DEF StoreEvent, StoreFails
  <2>2. QED BY <1>q, <2>1, PopOne
<1>4. ASSUME NEW n \in Nodes, Crash(n)
      PROVE  \A k \in Nodes : Range(appQ'[k]) \subseteq Own(k)
  <2>1. appQ' = [appQ EXCEPT ![n] = <<>>]
    BY <1>4 DEF Crash, ChannelsEnd
  <2>2. appQ'[n] = <<>> /\ \A k \in Nodes \ {n} : appQ'[k] = appQ[k]
    BY <1>q, <2>1
  <2>3. QED BY <1>q, <2>2, RangeOfEmpty
<1>5. QED
  BY <1>1, <1>2, <1>3, <1>4
  DEF Next, Application, Storage, Network, Process, Topic, vars, topicVars,
      historyVars, channelVars, Take, DropHandle, Broadcast, BroadcastFails, Receive,
      ReceiveFails, Received, Restart, Join, Leave, Lose, Relay

\* Rows come from StoreEvent, which publishes them, and from copies on the wire.
LEMMA RowsStep ==
  ASSUME TypeOK, FlowsFromAuthors, [Next]_vars
  PROVE  \A k \in Nodes : db'[k] \subseteq published'
<1>q. /\ db \in [Nodes -> SUBSET Events]
      /\ \A k \in Nodes : db[k] \subseteq published /\ gossip[k] \subseteq published
  BY DEF TypeOK, FlowsFromAuthors
<1>1. CASE UNCHANGED <<db, published>>
  BY <1>q, <1>1
<1>2. ASSUME NEW n \in Nodes, StoreEvent(n)
      PROVE  \A k \in Nodes : db'[k] \subseteq published'
  <2>1. CASE UNCHANGED <<db, published>>
    BY <2>1, <1>1
  <2>2. CASE /\ db' = [db EXCEPT ![n] = @ \cup {Head(appQ[n])}]
             /\ published' = published \cup {Head(appQ[n])}
    BY <1>q, <2>2
  <2>3. QED BY <1>2, <2>1, <2>2, StoreEffect
<1>3. ASSUME NEW n \in Nodes, NEW e \in Events, Receive(n, e)
      PROVE  \A k \in Nodes : db'[k] \subseteq published'
  <2>1. published' = published /\ e \in published
    BY <1>q, <1>3 DEF Receive, Received
  <2>2. db' = db \/ db' = [db EXCEPT ![n] = @ \cup {e}]
    BY <1>3 DEF Receive, Ignored
  <2>3. QED BY <1>q, <2>1, <2>2
<1>4. ASSUME NEW n \in Nodes, Crash(n)
      PROVE  \A k \in Nodes : db'[k] \subseteq published'
  <2>1. published' = published
    BY <1>4 DEF Crash, Ends
  <2>2. db' = db \/ db' = [db EXCEPT ![n] = {}]
    BY <1>4 DEF Crash, TableSurvives
  <2>3. QED BY <1>q, <2>1, <2>2
<1>5. QED BY <1>1, <1>2, <1>3, <1>4, TablesKept

\* The three parts of FlowsFromAuthors together.
LEMMA FlowsStep ==
  ASSUME TypeOK, FlowsFromAuthors, BroadcastsOwn, [Next]_vars
  PROVE  FlowsFromAuthors'
  BY CopiesStep, AppQueueStep, RowsStep DEF FlowsFromAuthors, Own

\* An event keeps being accounted for where it is, and goes from a queue only
\* to the next place that accounts for it.
LEMMA OneAttemptStep ==
  ASSUME TypeOK, FlowsFromAuthors, OneAttempt, [Next]_vars
  PROVE  OneAttempt'
<1> DEFINE OutOK(k) == db[k] \cap Own(k) \subseteq Range(netQ[k]) \cup sent \cup lost[k]
           InOK(k) == db[k] \ Own(k) \subseteq Range(rxQ[k]) \cup taken[k] \cup lost[k]
           AllOK == \A k \in Nodes : OutOK(k) /\ InOK(k)
<1>a. AllOK
  BY DEF OneAttempt
<1>b. ASSUME AllOK' PROVE OneAttempt'
  <2>1. ASSUME NEW k \in Nodes, NEW e \in db'[k]
        PROVE  IF e \in Own(k)
               THEN e \in (Range(netQ[k]) \cup sent \cup lost[k])'
               ELSE e \in (Range(rxQ[k]) \cup taken[k] \cup lost[k])'
    BY <1>b, <2>1 DEF Own
  <2>2. QED BY <2>1 DEF OneAttempt, Own
<1>t. /\ netQ \in [Nodes -> Seq(Events)] /\ rxQ \in [Nodes -> Seq(Events)]
      /\ db \in [Nodes -> SUBSET Events]
      /\ taken \in [Nodes -> SUBSET Events] /\ lost \in [Nodes -> SUBSET Events]
  BY DEF TypeOK
<1>1. ASSUME UNCHANGED <<db, netQ, rxQ, sent, taken, lost>> PROVE AllOK'
  BY <1>1, <1>a DEF Own
<1>2. ASSUME NEW n \in Nodes, StoreEvent(n) PROVE AllOK'
  <2>0. UNCHANGED <<rxQ, sent, taken, lost>>
    BY <1>2 DEF StoreEvent
  <2>1. CASE UNCHANGED <<db, netQ>>
    BY <2>0, <2>1, <1>1
  <2>2. CASE /\ db' = [db EXCEPT ![n] = @ \cup {Head(appQ[n])}]
             /\ netQ' = [netQ EXCEPT ![n] = Append(@, Head(appQ[n]))]
    <3>1. Head(appQ[n]) \in Own(n) /\ Head(appQ[n]) \in Events
      BY <1>2, StoreEffect DEF FlowsFromAuthors, Own
    <3>2. /\ Range(netQ'[n]) = Range(netQ[n]) \cup {Head(appQ[n])}
          /\ \A k \in Nodes \ {n} : netQ'[k] = netQ[k]
      BY <1>t, <2>2, <3>1, PushOne
    <3>3. /\ db'[n] = db[n] \cup {Head(appQ[n])}
          /\ \A k \in Nodes \ {n} : db'[k] = db[k]
      BY <1>t, <2>2
    <3>4. ASSUME NEW k \in Nodes PROVE (OutOK(k) /\ InOK(k))'
      BY <1>a, <2>0, <3>1, <3>2, <3>3 DEF Own
    <3>5. QED BY <3>4
  <2>3. QED BY <1>2, <2>1, <2>2, StoreEffect
<1>3. ASSUME NEW n \in Nodes, Broadcast(n) \/ BroadcastFails(n) PROVE AllOK'
  <2>1. /\ netQ[n] # <<>> /\ netQ' = [netQ EXCEPT ![n] = Tail(@)]
        /\ UNCHANGED <<db, rxQ, taken>>
        /\ \/ sent' = sent \cup {Head(netQ[n])} /\ UNCHANGED lost
           \/ lost' = [lost EXCEPT ![n] = @ \cup {Head(netQ[n])}] /\ UNCHANGED sent
    BY <1>3 DEF Broadcast, BroadcastFails
  <2>2. /\ Range(netQ[n]) = {Head(netQ[n])} \cup Range(netQ'[n])
        /\ \A k \in Nodes \ {n} : netQ'[k] = netQ[k]
    BY <1>t, <2>1, PopOne
  <2>3. ASSUME NEW k \in Nodes PROVE (OutOK(k) /\ InOK(k))'
    BY <1>a, <1>t, <2>1, <2>2 DEF Own
  <2>4. QED BY <2>3
<1>4. ASSUME NEW n \in Nodes, NEW e \in Events, Receive(n, e) PROVE AllOK'
  <2>1. UNCHANGED <<netQ, sent, taken>>
    BY <1>4 DEF Receive, Received
  <2>2. CASE UNCHANGED <<db, rxQ, handed, lost>>
    BY <2>1, <2>2, <1>1
  <2>3. CASE /\ e \notin Own(n)
             /\ db' = [db EXCEPT ![n] = @ \cup {e}]
             /\ \/ rxQ' = [rxQ EXCEPT ![n] = Append(@, e)] /\ UNCHANGED lost
                \/ lost' = [lost EXCEPT ![n] = @ \cup {e}] /\ UNCHANGED rxQ
    <3>1. /\ db'[n] = db[n] \cup {e}
          /\ \A k \in Nodes \ {n} : db'[k] = db[k]
      BY <1>t, <2>3
    <3>2. CASE rxQ' = [rxQ EXCEPT ![n] = Append(@, e)] /\ UNCHANGED lost
      <4>1. /\ Range(rxQ'[n]) = Range(rxQ[n]) \cup {e}
            /\ \A k \in Nodes \ {n} : rxQ'[k] = rxQ[k]
        BY <1>t, <3>2, PushOne
      <4>2. ASSUME NEW k \in Nodes PROVE (OutOK(k) /\ InOK(k))'
        BY <1>a, <2>1, <2>3, <3>1, <3>2, <4>1 DEF Own
      <4>3. QED BY <4>2
    <3>3. CASE lost' = [lost EXCEPT ![n] = @ \cup {e}] /\ UNCHANGED rxQ
      <4>1. ASSUME NEW k \in Nodes PROVE (OutOK(k) /\ InOK(k))'
        BY <1>a, <1>t, <2>1, <2>3, <3>1, <3>3 DEF Own
      <4>2. QED BY <4>1
    <3>4. QED BY <2>3, <3>2, <3>3
  <2>4. QED BY <1>4, <2>2, <2>3, ReceiveEffect
<1>5. ASSUME NEW n \in Nodes, Take(n) \/ DropHandle(n) PROVE AllOK'
  <2>1. UNCHANGED <<db, netQ, sent>>
    BY <1>5 DEF Take, DropHandle
  <2>2. CASE Take(n)
    <3>1. /\ rxQ[n] # <<>> /\ rxQ' = [rxQ EXCEPT ![n] = Tail(@)]
          /\ taken' = [taken EXCEPT ![n] = @ \cup {Head(rxQ[n])}]
          /\ UNCHANGED lost
      BY <2>2 DEF Take
    <3>2. /\ Range(rxQ[n]) = {Head(rxQ[n])} \cup Range(rxQ'[n])
          /\ \A k \in Nodes \ {n} : rxQ'[k] = rxQ[k]
      BY <1>t, <3>1, PopOne
    <3>3. ASSUME NEW k \in Nodes PROVE (OutOK(k) /\ InOK(k))'
      BY <1>a, <1>t, <2>1, <3>1, <3>2 DEF Own
    <3>4. QED BY <3>3
  <2>3. CASE DropHandle(n)
    <3>1. /\ rxQ' = [rxQ EXCEPT ![n] = <<>>]
          /\ lost' = [lost EXCEPT ![n] = @ \cup Range(rxQ[n])]
          /\ UNCHANGED taken
      BY <2>3 DEF DropHandle
    <3>2. ASSUME NEW k \in Nodes PROVE (OutOK(k) /\ InOK(k))'
      BY <1>a, <1>t, <2>1, <3>1 DEF Own
    <3>3. QED BY <3>2
  <2>4. QED BY <1>5, <2>2, <2>3
<1>6. ASSUME NEW n \in Nodes, Crash(n) PROVE AllOK'
  <2>1. /\ netQ' = [netQ EXCEPT ![n] = <<>>] /\ rxQ' = [rxQ EXCEPT ![n] = <<>>]
        /\ UNCHANGED sent
    BY <1>6 DEF Crash, ChannelsEnd, Ends
  <2>2. CASE /\ lost' = [lost EXCEPT ![n] = @ \cup Range(netQ[n]) \cup Range(rxQ[n])]
             /\ UNCHANGED <<db, taken>>
    <3>1. ASSUME NEW k \in Nodes PROVE (OutOK(k) /\ InOK(k))'
      BY <1>a, <1>t, <2>1, <2>2 DEF Own
    <3>2. QED BY <3>1
  <2>3. CASE /\ db' = [db EXCEPT ![n] = {}]
             /\ taken' = [taken EXCEPT ![n] = {}]
             /\ lost' = [lost EXCEPT ![n] = {}]
    <3>1. ASSUME NEW k \in Nodes PROVE (OutOK(k) /\ InOK(k))'
      BY <1>a, <1>t, <2>1, <2>3 DEF Own
    <3>2. QED BY <3>1
  <2>4. QED BY <1>6, <2>2, <2>3 DEF Crash, TableSurvives
<1>7. ASSUME NEW n \in Nodes,
             \/ StoreFails(n) \/ Restart(n) \/ Join(n) \/ Leave(n)
             \/ \E e \in Events :
                  Send(n, e) \/ ReceiveFails(n, e) \/ Lose(n, e) \/ Relay(n, e)
      PROVE  UNCHANGED <<db, netQ, rxQ, sent, taken, lost>>
  BY <1>7 DEF Send, StoreFails, ReceiveFails, Received, Ignored, Restart, Join, Leave,
         Lose, Relay, historyVars, channelVars
<1>8. AllOK'
  <2>1. CASE UNCHANGED vars
    BY <2>1, <1>1 DEF vars, channelVars, historyVars
  <2>2. CASE Next
    <3> HIDE DEF AllOK
    <3>1. QED
      BY <2>2, <1>1, <1>2, <1>3, <1>4, <1>5, <1>6, <1>7
      DEF Next, Application, Storage, Network, Process, Topic
  <2>3. QED BY <2>1, <2>2
<1>9. QED BY <1>8, <1>b

\* The inductive invariant holds at the start.
LEMMA InvInit == Init => IInv
<1> SUFFICES ASSUME Init PROVE IInv
  OBVIOUS
<1>1. TypeOK
  BY TypeInit
<1>2. /\ AtMostOnce /\ NoEcho /\ HandedIsKnown /\ OneAttempt /\ PublishedIsKept
  BY DEF Init, AtMostOnce, NoEcho, HandedIsKnown, OneAttempt, PublishedIsKept
<1>3. BroadcastsOwn /\ FlowsFromAuthors
  BY RangeOfEmpty DEF Init, BroadcastsOwn, FlowsFromAuthors
<1>4. QED BY <1>1, <1>2, <1>3 DEF IInv

\* Every step keeps the inductive invariant.
LEMMA InvStep == IInv /\ [Next]_vars => IInv'
<1> SUFFICES ASSUME IInv, [Next]_vars PROVE IInv'
  OBVIOUS
<1>1. TypeOK'
  BY TypeStep DEF IInv
<1>2. AtMostOnce' /\ NoEcho' /\ HandedIsKnown'
  BY DedupStep DEF IInv, Deduplicates
<1>3. BroadcastsOwn' /\ FlowsFromAuthors'
  BY BroadcastsOwnStep, FlowsStep DEF IInv
<1>4. PublishedIsKept' /\ OneAttempt'
  BY KeptStep, OneAttemptStep DEF IInv
<1>5. QED BY <1>1, <1>2, <1>3, <1>4 DEF IInv

\* Everything the event path keeps true at all times, whatever crashes, fails,
\* is lost or repeated.
THEOREM Invariance == Spec => []IInv
  BY InvInit, InvStep, PTL DEF Spec

\* src/lib.rs, INSERT OR IGNORE and its rows > 0 test: an application is handed
\* an event at most once for as long as the table of its node lasts.
THEOREM Deduplication == Spec => []AtMostOnce
<1>1. IInv => AtMostOnce
  BY DEF IInv
<1>2. QED BY <1>1, Invariance, PTL

\* NetworkActor::run, event.source != self.node_id: no node hands its
\* application an event of its own, with or without a database file.
THEOREM NoEchoEver == Spec => []NoEcho
<1>1. IInv => NoEcho
  BY DEF IInv
<1>2. QED BY <1>1, Invariance, PTL

\* StorageActor::run stores before it forwards: through every crash, an event
\* on the wire or in some table is still in a table of its author.
THEOREM AuthorKeeps == Spec => []AuthorKeepsIt
<1>1. IInv => AuthorKeepsIt
  BY DEF IInv, FlowsFromAuthors, PublishedIsKept, AuthorKeepsIt
<1>2. QED BY <1>1, Invariance, PTL

\* The two actors send each event on at most once after its row is in: an
\* event in a table is on its way, has arrived, or fell to a recorded fault.
THEOREM NothingElseLost == Spec => []OneAttempt
<1>1. IInv => OneAttempt
  BY DEF IInv
<1>2. QED BY <1>1, Invariance, PTL

-----------------------------------------------------------------------------
(* The event path implements the abstract log.                             *)

\* What stands for the log's handed in ImplementsLog.
handedBar == [n \in Nodes |-> {e \in Events : handed[n][e] > 0}]

\* The initial states map to the initial state of the abstract log.
LEMMA LogInit == Init => Log!Init
  BY DEF Init, Log!Init

\* Every step is a Publish, a Learn, a Forget or a stutter of the abstract log.
LEMMA LogStep == IInv /\ [Next]_vars => [Log!Next]_(Log!logVars)
<1> SUFFICES ASSUME IInv, [Next]_vars PROVE [Log!Next]_(Log!logVars)
  OBVIOUS
<1>t. TypeOK
  BY DEF IInv
<1>1. CASE UNCHANGED <<db, handed, published>>
  BY <1>1 DEF Log!logVars
<1>2. ASSUME NEW n \in Nodes, StoreEvent(n) PROVE [Log!Next]_(Log!logVars)
  <2>1. UNCHANGED handed
    BY <1>2 DEF StoreEvent
  <2>2. CASE UNCHANGED <<db, netQ, published>>
    BY <2>1, <2>2, <1>1
  <2>3. CASE /\ Head(appQ[n]) \notin db[n]
             /\ db' = [db EXCEPT ![n] = @ \cup {Head(appQ[n])}]
             /\ published' = published \cup {Head(appQ[n])}
    <3>1. Head(appQ[n]) \in Events /\ Source[Head(appQ[n])] = NodeId[n]
      BY <1>2, <1>t, StoreEffect DEF IInv, FlowsFromAuthors, Own
    <3>2. Log!Publish(n, Head(appQ[n]))
      BY <2>1, <2>3, <3>1 DEF Log!Publish
    <3>3. QED BY <3>1, <3>2 DEF Log!Next
  <2>4. QED BY <1>2, <1>t, <2>2, <2>3, StoreEffect
<1>3. ASSUME NEW n \in Nodes, NEW e \in Events, Receive(n, e)
      PROVE  [Log!Next]_(Log!logVars)
  <2>1. published' = published /\ e \in published
    BY <1>3 DEF Receive, Received, IInv, FlowsFromAuthors
  <2>2. CASE UNCHANGED <<db, handed>>
    BY <2>1, <2>2, <1>1
  <2>3. CASE /\ e \notin Own(n) /\ e \notin db[n]
             /\ db' = [db EXCEPT ![n] = @ \cup {e}]
             /\ handed' = handed \/ handed' = [handed EXCEPT ![n][e] = @ + 1]
    <3>1. handedBar' = handedBar \/ handedBar' = [handedBar EXCEPT ![n] = @ \cup {e}]
      <4>1. CASE handed' = handed
        BY <4>1 DEF handedBar
      <4>2. CASE handed' = [handed EXCEPT ![n][e] = @ + 1]
        <5>1. \A k \in Nodes, f \in Events :
                handed'[k][f] > 0 <=> handed[k][f] > 0 \/ (k = n /\ f = e)
          BY <4>2, <1>t DEF TypeOK
        <5>2. ASSUME NEW k \in Nodes
              PROVE  handedBar'[k] = IF k = n THEN handedBar[n] \cup {e} ELSE handedBar[k]
          BY <5>1 DEF handedBar
        <5>3. QED BY <5>2 DEF handedBar
      <4>3. QED BY <2>3, <4>1, <4>2
    <3>2. Source[e] # NodeId[n] /\ e \in published \ db[n]
      BY <2>1, <2>3 DEF Own
    <3>3. Log!Learn(n, e)
      BY <2>1, <2>3, <3>1, <3>2 DEF Log!Learn, handedBar
    <3>4. QED BY <3>3 DEF Log!Next
  <2>4. QED BY <1>3, <1>t, <2>2, <2>3, ReceiveEffect
<1>4. ASSUME NEW n \in Nodes, Crash(n) PROVE [Log!Next]_(Log!logVars)
  <2>1. published' = published
    BY <1>4 DEF Crash, Ends
  <2>2. CASE UNCHANGED <<db, handed>>
    BY <2>1, <2>2, <1>1
  <2>3. CASE /\ n \notin Durable
             /\ db' = [db EXCEPT ![n] = {}]
             /\ handed' = [handed EXCEPT ![n] = [e \in Events |-> 0]]
    <3>1. handedBar' = [handedBar EXCEPT ![n] = {}]
      <4>1. ASSUME NEW k \in Nodes
            PROVE  handedBar'[k] = IF k = n THEN {} ELSE handedBar[k]
        BY <2>3, <1>t DEF TypeOK, handedBar
      <4>2. QED BY <4>1 DEF handedBar
    <3>2. Log!Forget(n)
      BY <2>1, <2>3, <3>1 DEF Log!Forget, handedBar
    <3>3. QED BY <3>2 DEF Log!Next
  <2>4. QED BY <1>4, <2>2, <2>3 DEF Crash, TableSurvives
<1>5. QED BY <1>1, <1>2, <1>3, <1>4, TablesKept

\* The event path of src/lib.rs keeps the promise of EventLog: an application
\* learns only what a node published, once, and never its own node's events.
THEOREM Implementation == Spec => ImplementsLog
  BY InvInit, InvStep, LogInit, LogStep, Invariance, PTL
  DEF Spec, ImplementsLog, Log!Spec
=============================================================================
