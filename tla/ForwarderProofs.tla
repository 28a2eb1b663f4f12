--------------------------- MODULE ForwarderProofs ----------------------------
(***************************************************************************)
(* Proofs about Forwarder, for every set of events, ids and faults and     *)
(* every bound on the arrivals.                                            *)
(***************************************************************************)
EXTENDS Forwarder, FiniteSetTheorems, SequenceTheorems, TLAPS

-----------------------------------------------------------------------------
(* Type correctness.                                                       *)

\* What an event says, by the assumptions on Content.
LEMMA ContentType ==
  ASSUME NEW e \in Events
  PROVE  LET c == Content[e] IN
         /\ c.kind \in Kinds
         /\ c.group \in Groups \cup {None} /\ c.ws \in Workspaces \cup {None}
         /\ c.board \in Boards \cup {None} /\ c.topic \in Groups
         /\ c.kind = "board" => c.ws \in Workspaces /\ c.board \in Boards
         /\ c.kind = "chat" => c.ws \in Workspaces
         /\ c.kind = "item" => c.board \in Boards
         /\ c.kind = "workspace" => c.ws \in Workspaces /\ c.group \in Groups
  BY ContentAssumption, NoneAssumption, FieldAssumption

\* A RawEvent names a group and a workspace, or "unknown".
LEMMA MessageType ==
  ASSUME TypeOK, NEW e \in Events, Convertible(Content[e]), NEW n \in Nat
  PROVE  /\ Message(n, e) \in Messages
         /\ Message(n, e).n = n
         /\ Message(n, e).event = e
         /\ Message(n, e).group = Scope(Content[e]).group
         /\ Message(n, e).ws = Scope(Content[e]).ws
<1> DEFINE c == Content[e]
<1>1. /\ c.kind \in {"group", "workspace", "board", "chat", "file", "item"}
      /\ c.group \in Groups \cup {None} /\ c.ws \in Workspaces \cup {None}
      /\ c.topic \in Groups
      /\ c.kind \in {"board", "chat"} => c.ws \in Workspaces
      /\ c.kind = "item" => c.board \in Boards
  BY ContentType DEF Convertible, Kinds
<1> HIDE DEF c
<1>2. Scope(c) \in [group : Groups \cup {None}, ws : Workspaces \cup {None}]
  <2>1. CASE c.kind \in {"group", "workspace"}
    BY <1>1, <2>1 DEF Scope
  <2>2. CASE c.kind \in {"board", "chat"}
    BY <1>1, <2>2 DEF Scope, Or, TypeOK
  <2>3. CASE c.kind = "file"
    BY <1>1, <2>3 DEF Scope, Or
  <2>4. CASE c.kind = "item"
    <3>1. /\ boardWorkspace[c.board] \in Workspaces \cup {None}
          /\ Scope(c) = ScopeOfBoard(c.board)
      BY <1>1, <2>4 DEF Scope, TypeOK
    <3>2. QED BY <3>1 DEF ScopeOfBoard, TypeOK
  <2>5. QED BY <1>1, <2>1, <2>2, <2>3, <2>4
<1>3. QED BY <1>2 DEF Message, Messages, c

\* A process starts with everything empty, before any event was handled.
LEMMA TypeInit == Init => TypeOK
<1> SUFFICES ASSUME Init PROVE TypeOK
  OBVIOUS
<1>1. inbox \in Seq(Events) /\ log \in Seq(Messages) /\ heard \in Seq(Events)
  BY EmptySeq DEF Init
<1>2. /\ workspaceGroup \in [Workspaces -> Groups \cup {None}]
      /\ boardWorkspace \in [Boards -> Workspaces \cup {None}]
  BY DEF Init, NoGroups, NoWorkspaces
<1>3. counts \in [received : Nat, converted : Nat, forwarded : Nat, sent : Nat]
  BY DEF Init, NoCounts
<1>4. QED BY <1>1, <1>2, <1>3 DEF Init, TypeOK

\* What the handler of one event does: the maps follow the event whatever
\* becomes of its message; at most that one message is appended.
LEMMA HandleStep ==
  ASSUME TypeOK, Handle
  PROVE  LET e == Head(inbox)
             msg == Message(handled + 1, e) IN
         /\ e \in Events /\ Tail(inbox) \in Seq(Events)
         /\ heard' = Append(heard, e) /\ heard' \in Seq(Events)
         /\ Len(heard') = Len(heard) + 1
         /\ \A i \in 1..Len(heard) : heard'[i] = heard[i]
         /\ heard'[Len(heard')] = e
         /\ handled' = handled + 1
         /\ workspaceGroup' \in [Workspaces -> Groups \cup {None}]
         /\ boardWorkspace' \in [Boards -> Workspaces \cup {None}]
         /\ Convertible(Content[e]) => msg \in Messages /\ msg.n = handled + 1
         /\ log' # log => Convertible(Content[e]) /\ log' = Append(log, msg)
         /\ counts' \in [received : Nat, converted : Nat, forwarded : Nat, sent : Nat]
         /\ missed' \in {missed, missed \cup {handled + 1}}
<1> DEFINE e == Head(inbox)
           msg == Message(handled + 1, e)
           c == Content[e]
<1>1. e \in Events /\ Tail(inbox) \in Seq(Events)
  BY HeadTailProperties DEF Handle, TypeOK
<1>2. /\ heard' = Append(heard, e) /\ heard' \in Seq(Events)
      /\ Len(heard') = Len(heard) + 1
      /\ \A i \in 1..Len(heard) : heard'[i] = heard[i]
      /\ heard'[Len(heard')] = e
  <2>1. heard' = Append(heard, e) /\ heard \in Seq(Events)
    BY DEF Handle, TypeOK
  <2>2. QED BY <1>1, <2>1, AppendProperties
<1>3. handled' = handled + 1 /\ handled + 1 \in Nat
  BY DEF Handle, TypeOK
<1>4. /\ workspaceGroup' \in [Workspaces -> Groups \cup {None}]
      /\ boardWorkspace' \in [Boards -> Workspaces \cup {None}]
  <2>1. /\ workspaceGroup' = WorkspaceGroupWith(c)
        /\ boardWorkspace' = BoardWorkspaceWith(c)
    BY DEF Handle
  <2>2. c.group \in Groups \cup {None} /\ c.ws \in Workspaces \cup {None}
    BY <1>1, ContentType
  <2>3. QED BY <2>1, <2>2 DEF WorkspaceGroupWith, BoardWorkspaceWith, TypeOK
<1>5. Convertible(c) => msg \in Messages /\ msg.n = handled + 1
  BY <1>1, <1>3, MessageType
<1> HIDE DEF msg, c
<1>6. \/ Convertible(c) /\ (SentOk(msg) \/ SentErr(msg))
      \/ /\ ~Convertible(c)
         /\ counts' = [counts EXCEPT !.received = @ + 1]
         /\ UNCHANGED <<client, lastError, link, log, missed>>
  BY DEF Handle, msg, c
<1>7. log' # log => Convertible(c) /\ log' = Append(log, msg)
  BY <1>6 DEF SentOk, SentErr, Disabled, NotConnected, SendOk, SendErr
<1>8. counts' \in [received : Nat, converted : Nat, forwarded : Nat, sent : Nat]
  <2>t. counts \in [received : Nat, converted : Nat, forwarded : Nat, sent : Nat]
    BY DEF TypeOK
  <2>1. CASE SentOk(msg)
    BY <2>t, <2>1 DEF SentOk
  <2>2. CASE SentErr(msg)
    <3>1. counts' = [counts EXCEPT !.received = @ + 1, !.converted = @ + 1]
      BY <2>2 DEF SentErr
    <3>2. counts' = [received |-> counts.received + 1, converted |-> counts.converted + 1,
                     forwarded |-> counts.forwarded, sent |-> counts.sent]
      BY <2>t, <3>1
    <3>3. QED BY <2>t, <3>2
  <2>3. CASE counts' = [counts EXCEPT !.received = @ + 1]
    BY <2>t, <2>3
  <2>4. QED BY <1>6, <2>1, <2>2, <2>3
<1>9. missed' \in {missed, missed \cup {handled + 1}}
  BY <1>5, <1>6 DEF SentOk, SentErr
<1>10. QED
  BY <1>1, <1>2, <1>3, <1>4, <1>5, <1>7, <1>8, <1>9 DEF msg, c

\* Every step keeps the types, and the connection goes with the process, the
\* link with the server.
LEMMA TypeStep == TypeOK /\ [Next]_vars => TypeOK'
<1> SUFFICES ASSUME TypeOK, [Next]_vars PROVE TypeOK'
  OBVIOUS
<1>u. CASE UNCHANGED vars
  BY <1>u DEF TypeOK, vars, trackerVars, iggyVars, serverVars, historyVars
<1>1. ASSUME NEW e \in Events, Arrive(e) PROVE TypeOK'
  <2>1. inbox' \in Seq(Events)
    BY <1>1 DEF Arrive, TypeOK
  <2>2. QED
    BY <1>1, <2>1 DEF TypeOK, Arrive, trackerVars, iggyVars, serverVars, historyVars
<1>2. CASE Handle
  <2>1. log' \in Seq(Messages)
    <3>1. log \in Seq(Messages)
      BY DEF TypeOK
    <3>2. CASE log' # log
      <4>1. PICK msg \in Messages : log' = Append(log, msg)
        BY <1>2, <3>2, HandleStep
      <4>2. QED BY <3>1, <4>1, AppendProperties
    <3>3. QED BY <3>1, <3>2
  <2>2. missed' \subseteq 1..handled'
    <3>1. /\ handled' = handled + 1 /\ handled \in Nat /\ missed \subseteq 1..handled
          /\ missed' \in {missed, missed \cup {handled + 1}}
      BY <1>2, HandleStep DEF TypeOK
    <3>2. QED BY <3>1
  <2>3. /\ client' \in BOOLEAN /\ lastError' \in BOOLEAN /\ link' \in BOOLEAN
        /\ ~(up /\ enabled) => ~client'
        /\ link' => client' /\ iggyUp
    <3>t. /\ client \in BOOLEAN /\ lastError \in BOOLEAN /\ link \in BOOLEAN
          /\ ~(up /\ enabled) => ~client
          /\ link => client /\ iggyUp
      BY DEF TypeOK
    <3>1. CASE UNCHANGED <<client, lastError, link>>
      BY <3>t, <3>1
    <3>2. CASE \E msg : SentOk(msg)
      <4>1. /\ UNCHANGED <<client, link>>
            /\ lastError' = lastError \/ lastError' = FALSE
        BY <3>2 DEF SentOk, Disabled, SendOk
      <4>2. QED BY <3>t, <4>1
    <3>3. CASE \E msg : SentErr(msg)
      <4>1. PICK msg : NotConnected \/ SendErr(msg)
        BY <3>3 DEF SentErr
      <4>2. CASE NotConnected
        BY <3>t, <4>2 DEF NotConnected
      <4>3. CASE SendErr(msg)
        <5>1. lastError' = TRUE /\ client' = FALSE /\ link' = FALSE
          BY <4>3 DEF SendErr
        <5>2. QED BY <5>1
      <4>4. QED BY <4>1, <4>2, <4>3
    <3>4. QED BY <1>2, <3>1, <3>2, <3>3 DEF Handle
  <2>4. /\ UNCHANGED <<up, enabled, iggyUp, topicReady>> /\ inbox' = Tail(inbox)
    BY <1>2 DEF Handle
  <2>5. handled' \in Nat
    BY <1>2 DEF Handle, TypeOK
  <2>6. QED BY <1>2, <2>1, <2>2, <2>3, <2>4, <2>5, HandleStep DEF TypeOK
<1>3. CASE Reconnect
  BY <1>3 DEF TypeOK, Reconnect, Connect, trackerVars, historyVars
<1>4. CASE Crash
  BY <1>4, EmptySeq DEF TypeOK, Crash, NoGroups, NoWorkspaces, NoCounts
<1>5. CASE Restart
  BY <1>5 DEF TypeOK, Restart, trackerVars, serverVars, historyVars
<1>6. CASE IggyStops
  BY <1>6 DEF TypeOK, IggyStops, trackerVars, iggyVars, historyVars
<1>7. CASE IggyStarts
  BY <1>7 DEF TypeOK, IggyStarts, trackerVars, iggyVars, historyVars
<1>8. CASE LinkBreaks
  BY <1>8 DEF TypeOK, LinkBreaks, trackerVars, iggyVars, historyVars
<1>9. QED
  BY <1>u, <1>1, <1>2, <1>3, <1>4, <1>5, <1>6, <1>7, <1>8 DEF Next

\* The types hold in every state; in particular a client is held only by a
\* process that is up with Iggy enabled.
THEOREM TypeCorrect == Spec => []TypeOK
<1>1. QED BY TypeInit, TypeStep, PTL DEF Spec

-----------------------------------------------------------------------------
(* The order of the log.                                                   *)

\* A process that is down, or just started, has heard and counted nothing.
DownIsEmpty ==
  ~up => /\ heard = <<>> /\ missed = {} /\ counts = NoCounts
         /\ workspaceGroup = NoGroups /\ boardWorkspace = NoWorkspaces

\* What this run heard is among what all runs handled ...
HeardIsHandled == Len(heard) <= handled

\* ... and so is all that is in the log: the next event is behind all of it.
LogIsHandled == \A i \in DOMAIN log : log[i].n \in 1..handled

LogInv == TypeOK /\ DownIsEmpty /\ HeardIsHandled /\ LogIsHandled /\ ForwardedInOrder

\* The steps between two events leave what the invariants are about alone.
LEMMA OtherSteps ==
  ASSUME [Next]_vars, ~Handle, ~Crash, ~Restart
  PROVE  UNCHANGED <<up, enabled, trackerVars, counts, log, historyVars>>
<1> USE DEF trackerVars, iggyVars, serverVars, historyVars
<1>u. CASE UNCHANGED vars
  BY <1>u DEF vars
<1>1. CASE \E e \in Events : Arrive(e)
  BY <1>1 DEF Arrive
<1>2. CASE Reconnect
  BY <1>2 DEF Reconnect
<1>3. CASE IggyStops \/ IggyStarts \/ LinkBreaks
  BY <1>3 DEF IggyStops, IggyStarts, LinkBreaks
<1>4. QED BY <1>u, <1>1, <1>2, <1>3 DEF Next

\* One message more at the end of the log.
Appended(msg) ==
  LET L == Len(log) + 1 IN
    /\ Len(log) \in Nat
    /\ DOMAIN log = 1..Len(log) /\ DOMAIN log' = 1..L
    /\ log'[L] = msg
    /\ \A i \in DOMAIN log : log'[i] = log[i]

\* An event leaves at most one message, and that one is the event's own.
LEMMA LogGrows ==
  ASSUME TypeOK, Handle
  PROVE  LET e == Head(inbox)
             msg == Message(handled + 1, e) IN
         \/ log' = log
         \/ Convertible(Content[e]) /\ msg \in Messages /\ msg.n = handled + 1 /\ Appended(msg)
<1> DEFINE msg == Message(handled + 1, Head(inbox))
<1>1. SUFFICES ASSUME log' # log
               PROVE  /\ Convertible(Content[Head(inbox)])
                      /\ msg \in Messages /\ msg.n = handled + 1 /\ Appended(msg)
  OBVIOUS
<1>2. /\ Convertible(Content[Head(inbox)]) /\ msg \in Messages /\ msg.n = handled + 1
      /\ log' = Append(log, msg) /\ log \in Seq(Messages)
  BY <1>1, HandleStep DEF TypeOK
<1> HIDE DEF msg
<1>3. /\ log' \in Seq(Messages) /\ Len(log) \in Nat
      /\ DOMAIN log = 1..Len(log)
      /\ Len(log') = Len(log) + 1
      /\ \A i \in 1..Len(log) : log'[i] = log[i]
      /\ log'[Len(log) + 1] = msg
  BY <1>2, AppendProperties, LenProperties
<1>4. DOMAIN log' = 1..(Len(log) + 1)
  BY <1>3, LenProperties
<1>5. QED BY <1>2, <1>3, <1>4 DEF Appended

\* The message of the event at hand carries the next number, those before it
\* smaller ones; nothing else touches the log, and the numbers survive a crash.
LEMMA LogStep == LogInv /\ [Next]_vars => LogInv'
<1> SUFFICES ASSUME LogInv, [Next]_vars PROVE LogInv'
  OBVIOUS
<1>t. TypeOK /\ TypeOK'
  BY TypeStep DEF LogInv
<1>l. /\ \A s \in Seq(Events) : Len(s) \in Nat
      /\ Len(<<>>) = 0 /\ handled \in Nat /\ heard \in Seq(Events)
  BY <1>t, LenProperties, EmptySeq DEF TypeOK
<1> USE DEF LogInv
<1>1. CASE Handle
  <2>1. handled' = handled + 1 /\ Len(heard') = Len(heard) + 1 /\ up'
    BY <1>t, <1>1, HandleStep DEF Handle
  <2>2. DownIsEmpty' /\ HeardIsHandled'
    BY <1>l, <2>1 DEF DownIsEmpty, HeardIsHandled
  <2>3. CASE log' = log
    BY <1>t, <1>l, <2>1, <2>2, <2>3 DEF LogIsHandled, ForwardedInOrder
  <2>4. CASE log' # log
    <3>1. PICK msg \in Messages : msg.n = handled + 1 /\ Appended(msg)
      BY <1>t, <1>1, <2>4, LogGrows
    <3>2. LogIsHandled'
      BY <1>l, <2>1, <3>1 DEF LogIsHandled, Appended
    <3>3. ForwardedInOrder'
      <4>1. SUFFICES ASSUME NEW i \in DOMAIN log', NEW j \in DOMAIN log', i < j
                     PROVE  log'[i].n < log'[j].n
        BY DEF ForwardedInOrder
      <4>2. i \in DOMAIN log /\ log[i].n \in 1..handled /\ log'[i] = log[i]
        BY <3>1, <4>1 DEF Appended, LogIsHandled
      <4>3. CASE j \in DOMAIN log
        BY <3>1, <4>1, <4>2, <4>3 DEF ForwardedInOrder, Appended
      <4>4. CASE j \notin DOMAIN log
        <5>1. log'[j].n = handled + 1
          BY <3>1, <4>4 DEF Appended
        <5>2. QED BY <1>l, <4>2, <5>1
      <4>5. QED BY <4>3, <4>4
    <3>4. QED BY <1>t, <2>2, <3>2, <3>3
  <2>5. QED BY <2>3, <2>4
<1>2. CASE Crash
  <2>1. log' = log /\ handled' = handled /\ heard' = <<>>
    BY <1>2 DEF Crash
  <2>2. DownIsEmpty'
    BY <1>2 DEF Crash, DownIsEmpty
  <2>3. QED BY <1>t, <1>l, <2>1, <2>2 DEF HeardIsHandled, LogIsHandled, ForwardedInOrder
<1>3. CASE Restart
  <2>1. log' = log /\ handled' = handled /\ heard' = heard /\ up'
    BY <1>3 DEF Restart, historyVars
  <2>2. QED BY <1>t, <2>1 DEF DownIsEmpty, HeardIsHandled, LogIsHandled, ForwardedInOrder
<1>4. CASE ~Handle /\ ~Crash /\ ~Restart
  <2>1. UNCHANGED <<up, workspaceGroup, boardWorkspace, counts, log, handled, heard, missed>>
    BY <1>4, OtherSteps DEF trackerVars, historyVars
  <2>2. QED
    BY <1>t, <2>1 DEF DownIsEmpty, HeardIsHandled, LogIsHandled, ForwardedInOrder
<1>5. QED BY <1>1, <1>2, <1>3, <1>4

\* Nothing is in the log at first.
LEMMA LogInit == Init => LogInv
<1> SUFFICES ASSUME Init PROVE LogInv
  OBVIOUS
<1>1. TypeOK /\ Len(<<>>) = 0 /\ DOMAIN <<>> = {}
  BY TypeInit, EmptySeq
<1>2. QED
  BY <1>1 DEF Init, LogInv, DownIsEmpty, HeardIsHandled, LogIsHandled, ForwardedInOrder

\* The strengthened invariant of the log.
LEMMA LogInvHolds == Spec => []LogInv
<1>1. QED BY LogInit, LogStep, PTL DEF Spec

\* An event is in the Iggy topic at most once and behind those handled before
\* it, through outages, crashes, restarts and sends whose outcome is unknown.
THEOREM ForwardedInOrderHolds == Spec => []ForwardedInOrder
<1>1. LogInv => ForwardedInOrder
  BY DEF LogInv
<1>2. QED BY <1>1, LogInvHolds, PTL

-----------------------------------------------------------------------------
(* The counters.                                                           *)

\* The messages that are in the log although their send returned Err.
Doubtful == {i \in OfThisRun : log[i].n \in missed}

\* Both sets of messages, and the events missed, are finite.
LEMMA FiniteCounts ==
  ASSUME TypeOK
  PROVE  /\ IsFiniteSet(OfThisRun) /\ Cardinality(OfThisRun) \in Nat
         /\ IsFiniteSet(Doubtful) /\ Cardinality(Doubtful) \in Nat
         /\ IsFiniteSet(missed) /\ Cardinality(missed) \in Nat
<1> USE FS_Interval
<1>l. /\ Len(log) \in Nat /\ DOMAIN log = 1..Len(log)
      /\ handled \in Nat /\ missed \subseteq 1..handled
  BY LenProperties DEF TypeOK
<1>1. IsFiniteSet(1..Len(log)) /\ OfThisRun \in SUBSET (1..Len(log))
  <2>1. 1 \in Int /\ Len(log) \in Int
    BY <1>l
  <2>2. QED BY <1>l, <2>1 DEF OfThisRun
<1>2. IsFiniteSet(OfThisRun) /\ Doubtful \in SUBSET OfThisRun
  BY <1>1, FS_Subset DEF Doubtful
<1>3. IsFiniteSet(1..handled) /\ missed \in SUBSET (1..handled)
  <2>1. 1 \in Int /\ handled \in Int
    BY <1>l
  <2>2. QED BY <1>l, <2>1
<1>4. IsFiniteSet(Doubtful) /\ IsFiniteSet(missed)
  BY <1>2, <1>3, FS_Subset
<1>5. QED BY <1>2, <1>4, FS_CardinalityType

\* The events before this run stay what they are until the run ends.
LEMMA BeforeStep ==
  ASSUME LogInv, Handle
  PROVE  /\ Before \in Int /\ Before' = Before /\ Before <= handled
         /\ Len(heard) \in Nat /\ Len(heard') = Len(heard) + 1
         /\ handled \in Nat /\ handled' = handled + 1
<1>1. /\ handled' = handled + 1 /\ Len(heard') = Len(heard) + 1
      /\ Len(heard) \in Nat /\ handled \in Nat
  BY HandleStep, LenProperties DEF LogInv, TypeOK
<1>2. QED BY <1>1 DEF Before

\* A run that has heard nothing has no message in the log.
LEMMA RunEnds ==
  ASSUME LogInv, handled' = handled, log' = log, heard' = <<>>
  PROVE  OfThisRun' = {}
<1>1. handled \in Nat
  BY DEF LogInv, TypeOK
<1>2. Before' = handled
  <2>1. Len(heard') = 0
    BY EmptySeq
  <2>2. handled' - Len(heard') = handled
    BY <1>1, <2>1
  <2>3. QED BY <2>2 DEF Before
<1>3. ASSUME NEW i \in DOMAIN log PROVE ~(log[i].n > handled)
  <2>1. log[i].n \in 1..handled
    BY DEF LogInv, LogIsHandled
  <2>2. QED BY <1>1, <2>1
<1>4. QED BY <1>2, <1>3 DEF OfThisRun

\* What one event adds to the messages of this run, and to those in doubt.
LEMMA RunGrows ==
  ASSUME LogInv, Handle
  PROVE  LET L == Len(log) + 1
             N == handled + 1 IN
         /\ N \notin missed /\ L \notin OfThisRun
         /\ log' = log => OfThisRun' = OfThisRun /\ Doubtful' = Doubtful
         /\ log' # log =>
              /\ OfThisRun' = OfThisRun \cup {L}
              /\ log'[L].n = N /\ \A i \in OfThisRun : log'[i] = log[i]
              /\ Doubtful' = IF missed' = missed THEN Doubtful ELSE Doubtful \cup {L}
<1> DEFINE L == Len(log) + 1
           N == handled + 1
<1>1. /\ Before \in Int /\ Before' = Before /\ Before <= handled /\ handled \in Nat
      /\ missed \subseteq 1..handled
      /\ missed' \in {missed, missed \cup {N}}
      /\ DOMAIN log = 1..Len(log) /\ Len(log) \in Nat
      /\ \A i \in DOMAIN log : log[i].n \in 1..handled
  BY BeforeStep, HandleStep, LenProperties DEF LogInv, LogIsHandled, TypeOK
<1>2. N \notin missed /\ L \notin OfThisRun
  BY <1>1 DEF OfThisRun
<1>3. ASSUME log' = log PROVE OfThisRun' = OfThisRun /\ Doubtful' = Doubtful
  <2>1. OfThisRun' = OfThisRun
    BY <1>1, <1>3 DEF OfThisRun
  <2>2. \A i \in OfThisRun : log'[i].n = log[i].n /\ log[i].n # N
    BY <1>1, <1>3 DEF OfThisRun
  <2>3. QED BY <1>1, <2>1, <2>2 DEF Doubtful
<1>4. ASSUME log' # log
      PROVE  /\ OfThisRun' = OfThisRun \cup {L}
             /\ log'[L].n = N /\ \A i \in OfThisRun : log'[i] = log[i]
             /\ Doubtful' = IF missed' = missed THEN Doubtful ELSE Doubtful \cup {L}
  <2>1. PICK msg \in Messages : msg.n = N /\ Appended(msg)
    BY <1>4, LogGrows DEF LogInv
  <2>2. /\ DOMAIN log' = 1..L /\ log'[L].n = N
        /\ \A i \in DOMAIN log : log'[i] = log[i]
    BY <2>1 DEF Appended
  <2>3. OfThisRun' = OfThisRun \cup {L}
    BY <1>1, <2>2 DEF OfThisRun
  <2>4. \A i \in OfThisRun : log'[i] = log[i] /\ log[i].n # N
    BY <1>1, <2>2 DEF OfThisRun
  <2>5. CASE missed' = missed
    BY <1>2, <2>2, <2>3, <2>4, <2>5 DEF Doubtful
  <2>6. CASE missed' # missed
    <3>1. missed' = missed \cup {N}
      BY <1>1, <2>6
    <3>2. QED BY <1>2, <2>2, <2>3, <2>4, <2>6, <3>1 DEF Doubtful
  <2>7. QED BY <2>2, <2>3, <2>4, <2>5, <2>6
<1>5. QED BY <1>2, <1>3, <1>4

\* With Iggy enabled an event that becomes a message is either counted as sent
\* and appended, or missed, appended or not.
LEMMA Outcomes ==
  ASSUME TypeOK, Handle, enabled
  PROVE  LET N == handled + 1
             c == Content[Head(inbox)] IN
         \/ /\ ~Convertible(c)
            /\ UNCHANGED <<log, missed>>
            /\ counts' = [counts EXCEPT !.received = @ + 1]
         \/ /\ log' # log /\ missed' = missed
            /\ counts' = [received  |-> counts.received + 1,
                          converted |-> counts.converted + 1,
                          forwarded |-> counts.forwarded + 1,
                          sent      |-> counts.sent + 1]
         \/ /\ missed' = missed \cup {N}
            /\ counts' = [counts EXCEPT !.received = @ + 1, !.converted = @ + 1]
<1> DEFINE c == Content[Head(inbox)]
           msg == Message(handled + 1, Head(inbox))
<1>1. Convertible(c) => msg \in Messages /\ msg.n = handled + 1
  BY HandleStep
<1> HIDE DEF msg, c
<1>2. \/ Convertible(c) /\ (SentOk(msg) \/ SentErr(msg))
      \/ /\ ~Convertible(c)
         /\ counts' = [counts EXCEPT !.received = @ + 1]
         /\ UNCHANGED <<log, missed>>
  BY DEF Handle, msg, c
<1>3. ASSUME Convertible(c), SentOk(msg)
      PROVE  /\ log' # log /\ missed' = missed
             /\ counts' = [received  |-> counts.received + 1,
                           converted |-> counts.converted + 1,
                           forwarded |-> counts.forwarded + 1,
                           sent      |-> counts.sent + 1]
  <2>1. log' = Append(log, msg)
    BY <1>3 DEF SentOk, SendOk, Disabled
  <2>2. Len(log') = Len(log) + 1 /\ Len(log) \in Nat
    BY <1>1, <1>3, <2>1, AppendProperties, LenProperties DEF TypeOK
  <2>3. QED BY <1>3, <2>2 DEF SentOk
<1>4. ASSUME Convertible(c), SentErr(msg)
      PROVE  /\ missed' = missed \cup {handled + 1}
             /\ counts' = [counts EXCEPT !.received = @ + 1, !.converted = @ + 1]
  BY <1>1, <1>4 DEF SentErr
<1>5. QED BY <1>2, <1>3, <1>4 DEF c

\* The numbers follow each outcome of an event, and start again with the run.
LEMMA CountsStep == LogInv /\ CountsAreTrue /\ [Next]_vars => CountsAreTrue'
<1> SUFFICES ASSUME LogInv, CountsAreTrue, [Next]_vars, enabled'
             PROVE  CountsAreTrue'
  BY DEF CountsAreTrue
<1>t. TypeOK /\ TypeOK' /\ LogInv'
  BY TypeStep, LogStep DEF LogInv
<1>c. counts \in [received : Nat, converted : Nat, forwarded : Nat, sent : Nat]
  BY <1>t DEF TypeOK
<1>1. CASE Handle
  <2> DEFINE L == Len(log) + 1
             N == handled + 1
             e == Head(inbox)
             Of(S) == {log[i].n : i \in S}
  <2>1. /\ enabled
        /\ counts.sent = counts.forwarded
        /\ counts.sent = Cardinality(OfThisRun) - Cardinality(Doubtful)
        /\ counts.converted - counts.forwarded = Cardinality(missed)
        /\ \A p \in DOMAIN heard :
             Convertible(Content[heard[p]]) => Before + p \in missed \cup Of(OfThisRun)
    <3>1. enabled
      BY <1>1 DEF Handle
    <3>2. QED BY <3>1 DEF CountsAreTrue, Doubtful
  <2>2. /\ IsFiniteSet(OfThisRun) /\ Cardinality(OfThisRun) \in Nat
        /\ IsFiniteSet(Doubtful) /\ Cardinality(Doubtful) \in Nat
        /\ IsFiniteSet(missed) /\ Cardinality(missed) \in Nat
    BY <1>t, FiniteCounts
  <2>3. /\ N \notin missed /\ L \notin OfThisRun /\ L \notin Doubtful
        /\ log' = log => OfThisRun' = OfThisRun /\ Doubtful' = Doubtful
        /\ log' # log =>
             /\ OfThisRun' = OfThisRun \cup {L}
             /\ log'[L].n = N /\ \A i \in OfThisRun : log'[i] = log[i]
             /\ Doubtful' = IF missed' = missed THEN Doubtful ELSE Doubtful \cup {L}
    BY <1>1, RunGrows DEF Doubtful
  <2>4. /\ Cardinality(OfThisRun \cup {L}) = Cardinality(OfThisRun) + 1
        /\ Cardinality(Doubtful \cup {L}) = Cardinality(Doubtful) + 1
        /\ Cardinality(missed \cup {N}) = Cardinality(missed) + 1
    BY <2>2, <2>3, FS_AddElement
  <2>5. \/ /\ ~Convertible(Content[e])
           /\ UNCHANGED <<log, missed>>
           /\ counts' = [counts EXCEPT !.received = @ + 1]
        \/ /\ log' # log /\ missed' = missed
           /\ counts' = [received  |-> counts.received + 1,
                         converted |-> counts.converted + 1,
                         forwarded |-> counts.forwarded + 1,
                         sent      |-> counts.sent + 1]
        \/ /\ missed' = missed \cup {N}
           /\ counts' = [counts EXCEPT !.received = @ + 1, !.converted = @ + 1]
    BY <1>t, <1>1, <2>1, Outcomes
  <2>6. /\ counts'.sent = counts'.forwarded
        /\ counts'.sent = Cardinality(OfThisRun') - Cardinality(Doubtful')
        /\ counts'.converted - counts'.forwarded = Cardinality(missed')
    <3>1. CASE /\ log' = log /\ missed' = missed
               /\ counts' = [counts EXCEPT !.received = @ + 1]
      <4>1. /\ counts'.sent = counts.sent /\ counts'.forwarded = counts.forwarded
            /\ counts'.converted = counts.converted
        BY <1>c, <3>1
      <4>2. /\ Cardinality(OfThisRun') = Cardinality(OfThisRun)
            /\ Cardinality(Doubtful') = Cardinality(Doubtful)
            /\ Cardinality(missed') = Cardinality(missed)
        BY <2>3, <3>1
      <4>3. QED BY <1>c, <2>1, <2>2, <4>1, <4>2
    <3>2. CASE /\ log' # log /\ missed' = missed
               /\ counts' = [received  |-> counts.received + 1,
                             converted |-> counts.converted + 1,
                             forwarded |-> counts.forwarded + 1,
                             sent      |-> counts.sent + 1]
      <4>1. /\ counts'.sent = counts.sent + 1 /\ counts'.forwarded = counts.forwarded + 1
            /\ counts'.converted = counts.converted + 1
        BY <3>2
      <4>2. /\ Cardinality(OfThisRun') = Cardinality(OfThisRun) + 1
            /\ Cardinality(Doubtful') = Cardinality(Doubtful)
            /\ Cardinality(missed') = Cardinality(missed)
        BY <2>3, <2>4, <3>2
      <4>3. /\ counts.sent + 1 = counts.forwarded + 1
            /\ counts.sent + 1 = (Cardinality(OfThisRun) + 1) - Cardinality(Doubtful)
            /\ (counts.converted + 1) - (counts.forwarded + 1) = Cardinality(missed)
        BY <1>c, <2>1, <2>2
      <4>4. QED BY <4>1, <4>2, <4>3, Zenon
    <3>3. CASE /\ missed' = missed \cup {N}
               /\ counts' = [counts EXCEPT !.received = @ + 1, !.converted = @ + 1]
      <4>1. /\ counts'.sent = counts.sent /\ counts'.forwarded = counts.forwarded
            /\ counts'.converted = counts.converted + 1
        BY <1>c, <3>3
      <4>2. Cardinality(OfThisRun') - Cardinality(Doubtful')
              = Cardinality(OfThisRun) - Cardinality(Doubtful)
        <5>1. CASE log' = log
          BY <2>3, <5>1
        <5>2. CASE log' # log
          <6>1. missed' # missed
            BY <2>3, <3>3
          <6>2. OfThisRun' = OfThisRun \cup {L} /\ Doubtful' = Doubtful \cup {L}
            BY <2>3, <5>2, <6>1
          <6>3. QED BY <2>2, <2>4, <6>2
        <5>3. QED BY <5>1, <5>2
      <4>3. QED BY <1>c, <2>1, <2>2, <2>4, <3>3, <4>1, <4>2
    <3>4. QED BY <2>5, <3>1, <3>2, <3>3
  <2>7. ASSUME NEW p \in DOMAIN heard', Convertible(Content[heard'[p]])
        PROVE  Before' + p \in missed' \cup {log'[i].n : i \in OfThisRun'}
    <3>1. /\ Before' = Before /\ Before \in Int
          /\ handled \in Nat /\ Len(heard) \in Nat /\ Len(heard') = Len(heard) + 1
      BY <1>1, BeforeStep
    <3>2. /\ DOMAIN heard = 1..Len(heard) /\ DOMAIN heard' = 1..(Len(heard) + 1)
          /\ \A i \in 1..Len(heard) : heard'[i] = heard[i]
          /\ heard'[Len(heard) + 1] = e
      BY <1>t, <1>1, <3>1, HandleStep, LenProperties DEF TypeOK
    <3>3. missed \subseteq missed' /\ Of(OfThisRun) \subseteq {log'[i].n : i \in OfThisRun'}
      BY <2>3, <2>5
    <3>4. CASE p \in DOMAIN heard
      BY <2>1, <2>7, <3>1, <3>2, <3>3, <3>4
    <3>5. CASE p = Len(heard) + 1
      <4>1. Before' + p = N /\ Convertible(Content[e])
        BY <2>7, <3>1, <3>2, <3>5 DEF Before
      <4>2. N \in missed' \/ log' # log
        BY <2>5, <4>1
      <4>3. QED BY <2>3, <4>1, <4>2
    <3>6. QED BY <3>1, <3>2, <3>4, <3>5
  <2>8. QED BY <2>6, <2>7 DEF CountsAreTrue, Doubtful
<1>2. CASE Crash \/ Restart
  <2>0. handled' = handled /\ log' = log
    BY <1>2 DEF Crash, Restart, historyVars
  <2>1. heard' = <<>> /\ missed' = {} /\ counts' = NoCounts
    <3>1. CASE Crash
      BY <3>1 DEF Crash
    <3>2. CASE Restart
      BY <3>2 DEF Restart, historyVars, LogInv, DownIsEmpty
    <3>3. QED BY <1>2, <3>1, <3>2
  <2>2. OfThisRun' = {} /\ Doubtful' = {}
    BY <2>0, <2>1, RunEnds DEF Doubtful
  <2>3. DOMAIN heard' = {}
    BY <2>1
  <2>4. QED BY <2>1, <2>2, <2>3, FS_EmptySet DEF CountsAreTrue, Doubtful, NoCounts
<1>3. CASE ~Handle /\ ~Crash /\ ~Restart
  <2>1. UNCHANGED <<enabled, counts, log, handled, heard, missed>>
    BY <1>3, OtherSteps DEF trackerVars, historyVars
  <2>2. OfThisRun' = OfThisRun /\ Before' = Before
    BY <2>1 DEF OfThisRun, Before
  <2>3. QED BY <2>1, <2>2 DEF CountsAreTrue
<1>4. QED BY <1>1, <1>2, <1>3

\* The heartbeat's numbers say what became of the events of this run: what was
\* sent is in the log, what was converted and not forwarded was missed, and no
\* event that should have become a message is neither.
THEOREM CountsAreTrueHolds == Spec => []CountsAreTrue
<1>1. Init => CountsAreTrue
  <2> SUFFICES ASSUME Init PROVE CountsAreTrue
    OBVIOUS
  <2>1. OfThisRun = {} /\ Doubtful = {} /\ DOMAIN heard = {}
    BY DEF Init, OfThisRun, Doubtful
  <2>2. QED BY <2>1, FS_EmptySet DEF Init, CountsAreTrue, Doubtful, NoCounts
<1>2. QED BY <1>1, LogInvHolds, CountsStep, PTL DEF Spec

-----------------------------------------------------------------------------
(* Scopes.                                                                 *)

\* The latest of the positions in S.
Latest(S) == CHOOSE i \in S : \A j \in S : j <= i

\* A set of positions that is not empty has a latest one.
LEMMA LatestIs ==
  ASSUME NEW n \in Nat, NEW S \in SUBSET (1..n), S # {}
  PROVE  Latest(S) \in S /\ \A j \in S : j <= Latest(S)
<1> DEFINE R == OpToRel(<, Nat)
           T == {n - i : i \in S}
<1>1. IsWellFoundedOn(R, Nat)
  BY NatLessThanWellFounded
<1>2. T \subseteq Nat /\ T # {}
  <2>1. \A i \in S : i \in 1..n /\ n - i \in Nat
    OBVIOUS
  <2>2. QED BY <2>1
<1>3. PICK x \in T : \A y \in T : ~(<<y, x>> \in R)
  BY <1>1, <1>2, WFMin
<1>4. \A y \in T : x <= y
  <2>1. SUFFICES ASSUME NEW y \in T PROVE x <= y
    OBVIOUS
  <2>2. x \in Nat /\ y \in Nat
    BY <1>2
  <2>3. <<y, x>> \notin R
    BY <1>3
  <2>4. ~(y < x)
    BY <2>2, <2>3 DEF OpToRel
  <2>5. QED BY <2>2, <2>4
<1>5. PICK i \in S : x = n - i
  BY <1>3
<1>6. \A j \in S : j <= i
  <2>1. SUFFICES ASSUME NEW j \in S PROVE j <= i
    OBVIOUS
  <2>2. n - i <= n - j /\ i \in 1..n /\ j \in 1..n
    BY <1>4, <1>5
  <2>3. QED BY <2>2
<1>7. QED BY <1>6 DEF Latest

\* The position behind all others is the latest.
LEMMA LatestNew ==
  ASSUME NEW n \in Nat, NEW S \in SUBSET (1..n)
  PROVE  Latest(S \cup {n + 1}) = n + 1
<1>1. \A j \in S \cup {n + 1} : j <= n + 1
  OBVIOUS
<1>2. \A i \in S \cup {n + 1} : (\A j \in S \cup {n + 1} : j <= i) => i = n + 1
  OBVIOUS
<1>3. QED BY <1>1, <1>2 DEF Latest

\* The creations of workspace w, and of board b, among the first p events of h.
MadeWorkspace(h, p, w) ==
  {i \in 1..p : Content[h[i]].kind = "workspace" /\ Content[h[i]].ws = w}
MadeBoard(h, p, b) ==
  {i \in 1..p : Content[h[i]].kind = "board" /\ Content[h[i]].board = b}

\* GroupHeard and WorkspaceHeard of an arbitrary sequence of events.
GroupIn(h, p, w) ==
  LET S == MadeWorkspace(h, p, w) IN IF S = {} THEN None ELSE Content[h[Latest(S)]].group
WorkspaceIn(h, p, b) ==
  LET S == MadeBoard(h, p, b) IN IF S = {} THEN None ELSE Content[h[Latest(S)]].ws

\* The model's own definitions say the same of the events heard.
LEMMA HeardIs ==
  \A p \in Nat : /\ \A w : GroupHeard(p, w) = GroupIn(heard, p, w)
                 /\ \A b : WorkspaceHeard(p, b) = WorkspaceIn(heard, p, b)
<1> SUFFICES ASSUME NEW p \in Nat
             PROVE  /\ \A w : GroupHeard(p, w) = GroupIn(heard, p, w)
                    /\ \A b : WorkspaceHeard(p, b) = WorkspaceIn(heard, p, b)
  OBVIOUS
<1>1. ASSUME NEW S \in SUBSET (1..p), S # {} PROVE Latest(S) # 0
  BY <1>1, LatestIs
<1>2. ASSUME NEW w PROVE GroupHeard(p, w) = GroupIn(heard, p, w)
  <2> DEFINE S == MadeWorkspace(heard, p, w)
  <2>1. S \in SUBSET (1..p)
    BY DEF MadeWorkspace
  <2>2. GroupHeard(p, w) = LET i == IF S = {} THEN 0 ELSE Latest(S)
                           IN  IF i = 0 THEN None ELSE Content[heard[i]].group
    BY DEF GroupHeard, LastHeard, MadeWorkspace, Latest
  <2>3. QED BY <1>1, <2>1, <2>2 DEF GroupIn
<1>3. ASSUME NEW b PROVE WorkspaceHeard(p, b) = WorkspaceIn(heard, p, b)
  <2> DEFINE S == MadeBoard(heard, p, b)
  <2>1. S \in SUBSET (1..p)
    BY DEF MadeBoard
  <2>2. WorkspaceHeard(p, b) = LET i == IF S = {} THEN 0 ELSE Latest(S)
                               IN  IF i = 0 THEN None ELSE Content[heard[i]].ws
    BY DEF WorkspaceHeard, LastHeard, MadeBoard, Latest
  <2>3. QED BY <1>1, <2>1, <2>2 DEF WorkspaceIn
<1>4. QED BY <1>2, <1>3

\* What the first p events give does not depend on those after them ...
LEMMA HeardBefore ==
  ASSUME NEW g, NEW h, NEW p \in Nat, \A i \in 1..p : h[i] = g[i]
  PROVE  /\ \A w : GroupIn(h, p, w) = GroupIn(g, p, w)
         /\ \A b : WorkspaceIn(h, p, b) = WorkspaceIn(g, p, b)
<1>1. ASSUME NEW w PROVE GroupIn(h, p, w) = GroupIn(g, p, w)
  <2>1. MadeWorkspace(h, p, w) = MadeWorkspace(g, p, w)
    BY DEF MadeWorkspace
  <2>2. MadeWorkspace(g, p, w) \in SUBSET (1..p)
    BY DEF MadeWorkspace
  <2>3. QED BY <2>1, <2>2, LatestIs DEF GroupIn
<1>2. ASSUME NEW b PROVE WorkspaceIn(h, p, b) = WorkspaceIn(g, p, b)
  <2>1. MadeBoard(h, p, b) = MadeBoard(g, p, b)
    BY DEF MadeBoard
  <2>2. MadeBoard(g, p, b) \in SUBSET (1..p)
    BY DEF MadeBoard
  <2>3. QED BY <2>1, <2>2, LatestIs DEF WorkspaceIn
<1>3. QED BY <1>1, <1>2

\* ... and the next event changes what it creates.
LEMMA HeardNext ==
  ASSUME NEW h, NEW p \in Nat
  PROVE  LET c == Content[h[p + 1]] IN
         /\ \A w : GroupIn(h, p + 1, w) =
                   IF c.kind = "workspace" /\ c.ws = w THEN c.group ELSE GroupIn(h, p, w)
         /\ \A b : WorkspaceIn(h, p + 1, b) =
                   IF c.kind = "board" /\ c.board = b THEN c.ws ELSE WorkspaceIn(h, p, b)
<1> DEFINE c == Content[h[p + 1]]
<1>1. 1..(p + 1) = (1..p) \cup {p + 1} /\ p + 1 \notin 1..p
  OBVIOUS
<1>2. ASSUME NEW w
      PROVE  GroupIn(h, p + 1, w) =
               IF c.kind = "workspace" /\ c.ws = w THEN c.group ELSE GroupIn(h, p, w)
  <2> DEFINE S == MadeWorkspace(h, p, w)
             T == MadeWorkspace(h, p + 1, w)
  <2>1. S \in SUBSET (1..p)
    BY DEF MadeWorkspace
  <2>2. CASE c.kind = "workspace" /\ c.ws = w
    <3>1. T = S \cup {p + 1}
      BY <1>1, <2>2 DEF MadeWorkspace
    <3>2. T # {} /\ Latest(T) = p + 1
      BY <2>1, <3>1, LatestNew
    <3>3. QED BY <2>2, <3>2 DEF GroupIn
  <2>3. CASE ~(c.kind = "workspace" /\ c.ws = w)
    <3>1. T = S
      BY <1>1, <2>3 DEF MadeWorkspace
    <3>2. QED BY <2>3, <3>1 DEF GroupIn
  <2>4. QED BY <2>2, <2>3
<1>3. ASSUME NEW b
      PROVE  WorkspaceIn(h, p + 1, b) =
               IF c.kind = "board" /\ c.board = b THEN c.ws ELSE WorkspaceIn(h, p, b)
  <2> DEFINE S == MadeBoard(h, p, b)
             T == MadeBoard(h, p + 1, b)
  <2>1. S \in SUBSET (1..p)
    BY DEF MadeBoard
  <2>2. CASE c.kind = "board" /\ c.board = b
    <3>1. T = S \cup {p + 1}
      BY <1>1, <2>2 DEF MadeBoard
    <3>2. T # {} /\ Latest(T) = p + 1
      BY <2>1, <3>1, LatestNew
    <3>3. QED BY <2>2, <3>2 DEF WorkspaceIn
  <2>3. CASE ~(c.kind = "board" /\ c.board = b)
    <3>1. T = S
      BY <1>1, <2>3 DEF MadeBoard
    <3>2. QED BY <2>3, <3>1 DEF WorkspaceIn
  <2>4. QED BY <2>2, <2>3
<1>4. QED BY <1>2, <1>3

\* The ScopeTracker knows what the events heard so far give, no more and no less.
MapsAsHeard ==
  /\ \A w \in Workspaces : workspaceGroup[w] = GroupIn(heard, Len(heard), w)
  /\ \A b \in Boards : boardWorkspace[b] = WorkspaceIn(heard, Len(heard), b)

\* What ScopeAsHeard asks of one message, m.n - b being its place in h.
Scoped(h, b, m) ==
  LET p == m.n - b
      c == Content[h[p]]
  IN  /\ c.kind = "item" =>
           /\ m.ws = WorkspaceIn(h, p, c.board)
           /\ m.group = (IF m.ws = None THEN None ELSE GroupIn(h, p, m.ws))
      /\ c.kind \in {"board", "chat"} =>
           m.group = Or(GroupIn(h, p, c.ws), c.topic)

ScopeInv == LogInv /\ MapsAsHeard /\ \A i \in OfThisRun : Scoped(heard, Before, log[i])

\* The place of a message of this run is that of an event heard.
LEMMA PlaceHeard ==
  LogInv => /\ Before \in Nat /\ Len(heard) \in Nat /\ handled = Before + Len(heard)
            /\ \A i \in OfThisRun : log[i].n - Before \in 1..Len(heard)
<1> SUFFICES ASSUME LogInv
             PROVE  /\ Before \in Nat /\ Len(heard) \in Nat /\ handled = Before + Len(heard)
                    /\ \A i \in OfThisRun : log[i].n - Before \in 1..Len(heard)
  OBVIOUS
<1>1. handled \in Nat /\ Len(heard) \in Nat /\ Len(heard) <= handled
  BY LenProperties DEF LogInv, TypeOK, HeardIsHandled
<1>2. Before \in Nat /\ handled = Before + Len(heard)
  BY <1>1 DEF Before
<1>3. ASSUME NEW i \in OfThisRun PROVE log[i].n - Before \in 1..Len(heard)
  <2>1. log[i].n \in 1..handled /\ log[i].n > Before
    BY DEF OfThisRun, LogInv, LogIsHandled
  <2>2. QED BY <1>1, <1>2, <2>1
<1>4. QED BY <1>1, <1>2, <1>3

\* The strengthened invariant says what ScopeAsHeard says, and more.
LEMMA ScopeInvImplies == ScopeInv => ScopeAsHeard
<1> SUFFICES ASSUME ScopeInv, NEW i \in OfThisRun
             PROVE  LET p == log[i].n - Before
                        c == Content[heard[p]]
                    IN  /\ c.kind = "item" =>
                             /\ log[i].ws = WorkspaceHeard(p, c.board)
                             /\ log[i].group = (IF log[i].ws = None THEN None
                                                ELSE GroupHeard(p, log[i].ws))
                        /\ c.kind \in {"board", "chat"} =>
                             log[i].group = Or(GroupHeard(p, c.ws), c.topic)
  BY DEF ScopeAsHeard
<1> DEFINE p == log[i].n - Before
<1>1. p \in Nat /\ Scoped(heard, Before, log[i])
  BY PlaceHeard DEF ScopeInv
<1>2. /\ \A w : GroupHeard(p, w) = GroupIn(heard, p, w)
      /\ \A b : WorkspaceHeard(p, b) = WorkspaceIn(heard, p, b)
  BY <1>1, HeardIs
<1>3. QED BY <1>1, <1>2 DEF Scoped

\* The maps follow the events, and each message is placed by the maps as they
\* are when its event is handled; an element changes neither map, a chat and a
\* board not the one they are placed by.
LEMMA ScopeStep == ScopeInv /\ [Next]_vars => ScopeInv'
<1> SUFFICES ASSUME ScopeInv, [Next]_vars PROVE ScopeInv'
  OBVIOUS
<1>t. /\ LogInv /\ LogInv' /\ TypeOK
      /\ MapsAsHeard /\ \A i \in OfThisRun : Scoped(heard, Before, log[i])
  BY LogStep DEF ScopeInv, LogInv
<1>1. CASE Handle
  <2> DEFINE N == Len(heard)
             e == Head(inbox)
             c == Content[e]
  <2>1. /\ Before' = Before /\ N \in Nat /\ handled + 1 = Before + (N + 1) /\ Before \in Nat
        /\ \A i \in OfThisRun : log[i].n - Before \in 1..N
    BY <1>t, <1>1, BeforeStep, PlaceHeard
  <2>2. /\ e \in Events /\ Len(heard') = N + 1
        /\ \A i \in 1..N : heard'[i] = heard[i]
        /\ heard'[N + 1] = e
    BY <1>t, <1>1, HandleStep
  <2>3. ASSUME NEW p \in 0..N
        PROVE  /\ \A w : GroupIn(heard', p, w) = GroupIn(heard, p, w)
               /\ \A b : WorkspaceIn(heard', p, b) = WorkspaceIn(heard, p, b)
    <3>1. p \in Nat /\ \A i \in 1..p : heard'[i] = heard[i]
      BY <2>1, <2>2
    <3>2. QED BY <3>1, HeardBefore
  <2>4. /\ \A w : GroupIn(heard', N + 1, w) =
                  IF c.kind = "workspace" /\ c.ws = w THEN c.group ELSE GroupIn(heard, N, w)
        /\ \A b : WorkspaceIn(heard', N + 1, b) =
                  IF c.kind = "board" /\ c.board = b THEN c.ws ELSE WorkspaceIn(heard, N, b)
    <3>1. N \in 0..N
      BY <2>1
    <3>2. LET d == Content[heard'[N + 1]] IN
          /\ \A w : GroupIn(heard', N + 1, w) =
                    IF d.kind = "workspace" /\ d.ws = w THEN d.group ELSE GroupIn(heard', N, w)
          /\ \A b : WorkspaceIn(heard', N + 1, b) =
                    IF d.kind = "board" /\ d.board = b THEN d.ws ELSE WorkspaceIn(heard', N, b)
      BY <2>1, HeardNext
    <3>3. Content[heard'[N + 1]] = c
      BY <2>2
    <3> HIDE DEF c, N
    <3>4. QED BY <2>3, <3>1, <3>2, <3>3
  <2>5. MapsAsHeard'
    <3>1. workspaceGroup' = WorkspaceGroupWith(c) /\ boardWorkspace' = BoardWorkspaceWith(c)
      BY <1>1 DEF Handle
    <3>2. \A w \in Workspaces : workspaceGroup'[w] = GroupIn(heard', N + 1, w)
      BY <1>t, <2>4, <3>1 DEF WorkspaceGroupWith, TracksWorkspace, MapsAsHeard
    <3>3. \A b \in Boards : boardWorkspace'[b] = WorkspaceIn(heard', N + 1, b)
      BY <1>t, <2>4, <3>1 DEF BoardWorkspaceWith, TracksBoard, MapsAsHeard
    <3>4. QED BY <2>2, <3>2, <3>3 DEF MapsAsHeard
  <2>6. ASSUME NEW i \in OfThisRun PROVE Scoped(heard', Before, log[i])
    <3> DEFINE p == log[i].n - Before
    <3>1. p \in 1..N /\ p \in 0..N
      BY <2>1
    <3>2. heard'[p] = heard[p]
      BY <2>2, <3>1
    <3>3. /\ \A w : GroupIn(heard', p, w) = GroupIn(heard, p, w)
          /\ \A b : WorkspaceIn(heard', p, b) = WorkspaceIn(heard, p, b)
      BY <2>3, <3>1
    <3>4. Scoped(heard, Before, log[i])
      BY <1>t
    <3>5. QED BY <3>2, <3>3, <3>4 DEF Scoped
  <2>7. ASSUME Convertible(c) PROVE Scoped(heard', Before, Message(handled + 1, e))
    <3> DEFINE m == Message(handled + 1, e)
    <3>1. /\ m.n = handled + 1 /\ m.group = Scope(c).group /\ m.ws = Scope(c).ws
      <4>1. handled + 1 \in Nat
        BY <2>1
      <4>2. QED BY <1>t, <2>2, <2>7, <4>1, MessageType
    <3> HIDE DEF m
    <3>2. m.n - Before = N + 1
      BY <2>1, <3>1
    <3>3. /\ c.kind = "board" => c.ws \in Workspaces /\ c.board \in Boards
          /\ c.kind = "chat" => c.ws \in Workspaces
          /\ c.kind = "item" => c.board \in Boards
      BY <2>2, ContentType
    <3>4. ASSUME c.kind = "item"
          PROVE  /\ m.ws = WorkspaceIn(heard', N + 1, c.board)
                 /\ m.group = (IF m.ws = None THEN None ELSE GroupIn(heard', N + 1, m.ws))
      <4>1. m.ws = boardWorkspace[c.board] /\ m.ws \in Workspaces \cup {None}
        BY <1>t, <3>1, <3>3, <3>4 DEF Scope, ScopeOfBoard, TypeOK
      <4>2. m.group = IF m.ws = None THEN None ELSE workspaceGroup[m.ws]
        BY <3>1, <3>4, <4>1 DEF Scope, ScopeOfBoard
      <4>3. m.ws = WorkspaceIn(heard', N + 1, c.board)
        BY <1>t, <2>4, <3>3, <3>4, <4>1 DEF MapsAsHeard
      <4>4. m.ws \in Workspaces => workspaceGroup[m.ws] = GroupIn(heard', N + 1, m.ws)
        BY <1>t, <2>4, <3>4 DEF MapsAsHeard
      <4>5. QED BY <4>1, <4>2, <4>3, <4>4
    <3>5. ASSUME c.kind \in {"board", "chat"}
          PROVE  m.group = Or(GroupIn(heard', N + 1, c.ws), c.topic)
      <4>1. m.group = Or(workspaceGroup[c.ws], c.topic)
        BY <3>1, <3>5 DEF Scope
      <4>2. workspaceGroup[c.ws] = GroupIn(heard', N + 1, c.ws)
        BY <1>t, <2>4, <3>3, <3>5 DEF MapsAsHeard
      <4>3. QED BY <4>1, <4>2
    <3>6. Content[heard'[m.n - Before]] = c
      BY <2>2, <3>2
    <3> HIDE DEF c, N
    <3>7. Scoped(heard', Before, m)
      BY <3>2, <3>4, <3>5, <3>6 DEF Scoped
    <3>8. QED BY <3>7 DEF m
  <2>8. ASSUME NEW i \in OfThisRun' PROVE Scoped(heard', Before', log'[i])
    <3>1. CASE log' = log
      <4>1. i \in OfThisRun
        BY <1>t, <1>1, <3>1, RunGrows
      <4>2. QED BY <2>1, <2>6, <3>1, <4>1
    <3>2. CASE log' # log
      <4>1. Convertible(c) /\ Appended(Message(handled + 1, e))
        BY <1>t, <1>1, <3>2, LogGrows
      <4>2. /\ OfThisRun' = OfThisRun \cup {Len(log) + 1}
            /\ \A j \in OfThisRun : log'[j] = log[j]
        BY <1>t, <1>1, <3>2, RunGrows
      <4>3. log'[Len(log) + 1] = Message(handled + 1, e)
        BY <4>1 DEF Appended
      <4>4. QED BY <2>1, <2>6, <2>7, <4>1, <4>2, <4>3
    <3>3. QED BY <3>1, <3>2
  <2>9. QED BY <1>t, <2>5, <2>8 DEF ScopeInv
<1>2. CASE Crash
  <2>1. /\ heard' = <<>> /\ log' = log /\ handled' = handled
        /\ workspaceGroup' = NoGroups /\ boardWorkspace' = NoWorkspaces
    BY <1>2 DEF Crash
  <2>2. Len(heard') = 0
    BY <2>1, EmptySeq
  <2>3. MapsAsHeard'
    <3>1. /\ \A w : GroupIn(heard', 0, w) = None
          /\ \A b : WorkspaceIn(heard', 0, b) = None
      BY DEF GroupIn, WorkspaceIn, MadeWorkspace, MadeBoard
    <3>2. QED BY <2>1, <2>2, <3>1 DEF MapsAsHeard, NoGroups, NoWorkspaces
  <2>4. OfThisRun' = {}
    BY <1>t, <2>1, RunEnds
  <2>5. QED BY <1>t, <2>3, <2>4 DEF ScopeInv
<1>3. CASE ~Handle /\ ~Crash
  <2>1. UNCHANGED <<workspaceGroup, boardWorkspace, log, handled, heard>>
    <3>1. CASE Restart
      BY <3>1 DEF Restart, trackerVars, historyVars
    <3>2. CASE ~Restart
      BY <1>3, <3>2, OtherSteps DEF trackerVars, historyVars
    <3>3. QED BY <3>1, <3>2
  <2>2. OfThisRun' = OfThisRun /\ Before' = Before /\ MapsAsHeard'
    BY <1>t, <2>1 DEF OfThisRun, Before, MapsAsHeard
  <2>3. QED BY <1>t, <2>1, <2>2 DEF ScopeInv
<1>4. QED BY <1>1, <1>2, <1>3

\* Every message of this run is placed by what was created before it in this
\* run, whatever became of the messages in between.
THEOREM ScopeAsHeardHolds == Spec => []ScopeAsHeard
<1>1. Init => ScopeInv
  <2> SUFFICES ASSUME Init PROVE ScopeInv
    OBVIOUS
  <2>1. OfThisRun = {}
    BY DEF Init, OfThisRun
  <2>2. MapsAsHeard
    <3>1. /\ \A w : GroupIn(heard, 0, w) = None
          /\ \A b : WorkspaceIn(heard, 0, b) = None
      BY DEF GroupIn, WorkspaceIn, MadeWorkspace, MadeBoard
    <3>2. Len(heard) = 0
      BY EmptySeq DEF Init
    <3>3. QED BY <3>1, <3>2 DEF Init, MapsAsHeard, NoGroups, NoWorkspaces
  <2>3. QED BY <2>1, <2>2, LogInit DEF ScopeInv
<1>2. QED BY <1>1, ScopeStep, ScopeInvImplies, PTL DEF Spec
=============================================================================
