----------------------------- MODULE Forwarder ------------------------------
(***************************************************************************)
(* The bootstrap server's forwarder (src/bin/xaeroflux_bootstrap.rs): one  *)
(* select! loop that reads the node's event_rx, turns the NetworkEvents    *)
(* among its payloads into RawEvents, placing each in the group and        *)
(* workspace the ScopeTracker knows, and sends them to an Iggy topic over  *)
(* a connection that it drops at the first error and opens again at a      *)
(* timer tick.                                                             *)
(*                                                                         *)
(* The handler of one event is one action: nothing but the end of the      *)
(* process and Iggy itself can come between its awaits, and a crash after  *)
(* Iggy's append leaves what a crash right after the handler leaves.       *)
(* The Iggy server and the TCP link to it are external.                    *)
(***************************************************************************)
EXTENDS Naturals, Sequences, FiniteSets

CONSTANTS
  Events,       \* what may arrive on event_rx
  Content,      \* the parsed payload of each event, with its source
  Groups,       \* group ids, with whatever else a source may name
  Workspaces,   \* workspace ids
  Boards,       \* board ids
  None,         \* no id: an unset map entry, the "unknown" scope, ""
  MaxArrivals,  \* bound: events that ever reach the loop
  Faults        \* the kinds of fault the environment may inject

\* GroupCreated and GroupRenamed are "group"; WhiteboardElementAdded and the
\* two notebook events with text are "item", with blank text "blank"; "other"
\* is a NetworkEvent that lens does not want, "foreign" no NetworkEvent.
Kinds == {"group", "workspace", "board", "chat", "file", "item",
          "blank", "other", "foreign"}

FaultKinds == {"crash", "outage", "break", "nocreate"}

ASSUME ContentAssumption ==
  Content \in [Events -> [kind  : Kinds,
                          group : Groups \cup {None},
                          ws    : Workspaces \cup {None},
                          board : Boards \cup {None},
                          topic : Groups]]
ASSUME NoneAssumption == None \notin Groups \cup Workspaces \cup Boards
ASSUME FieldAssumption ==
  \A e \in Events :
    /\ Content[e].kind \in {"group", "workspace"} => Content[e].group # None
    /\ Content[e].kind \in {"workspace", "board", "chat"} => Content[e].ws # None
    /\ Content[e].kind \in {"board", "item", "blank"} => Content[e].board # None
ASSUME ArrivalAssumption == MaxArrivals \in Nat
ASSUME ForwarderFaultAssumption == Faults \subseteq FaultKinds

VARIABLES
  up,              \* the bootstrap process runs
  inbox,           \* event_rx
  enabled,         \* IGGY_ENABLED of this run
  workspaceGroup,  \* ScopeTracker.workspace_to_group
  boardWorkspace,  \* ScopeTracker.board_to_workspace
  client,          \* IggyConnection.client is Some
  lastError,       \* IggyConnection.last_error is Some
  counts,          \* events_received, _converted, _forwarded, messages_sent
  \* outside the process
  iggyUp,          \* the server answers
  link,            \* the connection that client holds is alive
  topicReady,      \* stream and topic exist
  log,             \* the messages of the Iggy topic
  \* history
  handled,         \* events the loop has handled, over all runs
  heard,           \* those of this run, in order
  missed           \* the events of this run whose send returned Err

trackerVars == <<workspaceGroup, boardWorkspace>>
iggyVars    == <<enabled, client, lastError>>
serverVars  == <<iggyUp, link, topicReady>>
historyVars == <<handled, heard, missed>>
vars == <<up, inbox, trackerVars, iggyVars, counts, serverVars, log, historyVars>>

NoCounts == [received |-> 0, converted |-> 0, forwarded |-> 0, sent |-> 0]
Messages == [n : Nat, event : Events, group : Groups \cup {None}, ws : Workspaces \cup {None}]

\* The types, and that a process that is down holds no connection.
TypeOK ==
  /\ up \in BOOLEAN
  /\ inbox \in Seq(Events)
  /\ enabled \in BOOLEAN
  /\ workspaceGroup \in [Workspaces -> Groups \cup {None}]
  /\ boardWorkspace \in [Boards -> Workspaces \cup {None}]
  /\ client \in BOOLEAN /\ lastError \in BOOLEAN
  /\ counts \in [received : Nat, converted : Nat, forwarded : Nat, sent : Nat]
  /\ iggyUp \in BOOLEAN /\ link \in BOOLEAN /\ topicReady \in BOOLEAN
  /\ log \in Seq(Messages)
  /\ handled \in Nat
  /\ heard \in Seq(Events)
  /\ missed \subseteq 1..handled
  /\ ~(up /\ enabled) => ~client
  /\ link => client /\ iggyUp

\* ScopeTracker::new.
NoGroups     == [w \in Workspaces |-> None]
NoWorkspaces == [b \in Boards |-> None]

\* A process starts with the maps, the connection and the counters empty.
Init ==
  /\ up = TRUE
  /\ inbox = <<>>
  /\ enabled \in BOOLEAN
  /\ workspaceGroup = NoGroups
  /\ boardWorkspace = NoWorkspaces
  /\ client = FALSE
  /\ lastError = FALSE
  /\ counts = NoCounts
  /\ iggyUp \in BOOLEAN
  /\ link = FALSE
  /\ topicReady = FALSE
  /\ log = <<>>
  /\ handled = 0
  /\ heard = <<>>
  /\ missed = {}

-----------------------------------------------------------------------------
(* ScopeTracker and convert_network_event.                                 *)

\* MUTANT of TracksBoard: a board of a workspace not heard of is not tracked.
TracksBoardIfPlaced(c) == c.kind = "board" /\ workspaceGroup[c.ws] # None

TracksWorkspace(c) == c.kind = "workspace"
TracksBoard(c)     == c.kind = "board"

\* What the maps hold once the event is tracked, later creations replacing
\* earlier ones.
WorkspaceGroupWith(c) ==
  [w \in Workspaces |-> IF TracksWorkspace(c) /\ w = c.ws THEN c.group ELSE workspaceGroup[w]]
BoardWorkspaceWith(c) ==
  [b \in Boards |-> IF TracksBoard(c) /\ b = c.board THEN c.ws ELSE boardWorkspace[b]]

Or(x, default) == IF x = None THEN default ELSE x

\* get_scope_for_board.
ScopeOfBoard(b) ==
  LET w == boardWorkspace[b]
  IN  [group |-> IF w = None THEN None ELSE workspaceGroup[w], ws |-> w]

\* The group and the workspace of the RawEvent, by kind.
Scope(c) ==
  CASE c.kind \in {"group", "workspace"} -> [group |-> c.group, ws |-> c.ws]
    [] c.kind \in {"board", "chat"} -> [group |-> Or(workspaceGroup[c.ws], c.topic), ws |-> c.ws]
    [] c.kind = "file" -> [group |-> Or(c.group, c.topic), ws |-> c.ws]
    [] c.kind = "item" -> ScopeOfBoard(c.board)

\* MUTANT of Convertible: a chat or a board of an unknown workspace is not
\* forwarded, the topic's group does not stand in.
ConvertibleIfPlaced(c) ==
  /\ c.kind \notin {"blank", "other", "foreign"}
  /\ c.kind \in {"board", "chat"} => workspaceGroup[c.ws] # None

\* The events that become a RawEvent.
Convertible(c) == c.kind \notin {"blank", "other", "foreign"}

\* The n-th event handled, with external_id for its identity; RawEvent.id is
\* made afresh.
Message(n, e) ==
  LET s == Scope(Content[e]) IN [n |-> n, event |-> e, group |-> s.group, ws |-> s.ws]

-----------------------------------------------------------------------------
(* send_raw_event: its outcome and what it leaves of the connection.       *)

Disabled ==
  /\ ~enabled
  /\ UNCHANGED <<client, lastError, link, log>>

NotConnected ==
  /\ enabled /\ ~client
  /\ lastError' = TRUE
  /\ UNCHANGED <<client, link, log>>

SendOk(msg) ==
  /\ enabled /\ client
  /\ link /\ topicReady
  /\ log' = Append(log, msg)
  /\ lastError' = FALSE
  /\ UNCHANGED <<client, link>>

\* MUTANT of SendErr: connect and send once more before giving up.
SendErrSendsAgain(msg) ==
  /\ enabled /\ client
  /\ \/ ~(link /\ topicReady) /\ log' = log
     \/ /\ "break" \in Faults /\ link /\ topicReady
        /\ log' = log \o <<msg, msg>>
  /\ lastError' = TRUE
  /\ client' = FALSE
  /\ link' = FALSE

\* MUTANT of SendErr: the dead client is kept.
SendErrKeepsClient(msg) ==
  /\ enabled /\ client
  /\ \/ ~(link /\ topicReady) /\ log' = log
     \/ /\ "break" \in Faults /\ link /\ topicReady
        /\ log' \in {log, Append(log, msg)}
  /\ lastError' = TRUE
  /\ link' = FALSE
  /\ UNCHANGED client

\* On a dead connection, or one that breaks under way, whether or not the
\* server appended the message.
SendErr(msg) ==
  /\ enabled /\ client
  /\ \/ ~(link /\ topicReady) /\ log' = log
     \/ /\ "break" \in Faults /\ link /\ topicReady
        /\ log' \in {log, Append(log, msg)}
  /\ lastError' = TRUE
  /\ client' = FALSE
  /\ link' = FALSE

SentOk(msg) ==
  /\ Disabled \/ SendOk(msg)
  /\ counts' = [received  |-> counts.received + 1,
                converted |-> counts.converted + 1,
                forwarded |-> counts.forwarded + 1,
                sent      |-> IF enabled THEN counts.sent + 1 ELSE counts.sent]
  /\ UNCHANGED missed

\* MUTANT of SentErr: the forwarded counter is bumped before the result.
SentErrCounts(msg) ==
  /\ NotConnected \/ SendErr(msg)
  /\ counts' = [counts EXCEPT !.received = @ + 1, !.converted = @ + 1, !.forwarded = @ + 1]
  /\ missed' = missed \cup {msg.n}

\* Logged, and the event is not sent again.
SentErr(msg) ==
  /\ NotConnected \/ SendErr(msg)
  /\ counts' = [counts EXCEPT !.received = @ + 1, !.converted = @ + 1]
  /\ missed' = missed \cup {msg.n}

-----------------------------------------------------------------------------
(* The arms of the select! loop.                                           *)

\* What comes onto event_rx: the NetworkActor's events, and those of the
\* group topics, which may repeat.
Arrive(e) ==
  /\ up
  /\ handled + Len(inbox) < MaxArrivals
  /\ inbox' = Append(inbox, e)
  /\ UNCHANGED <<up, trackerVars, iggyVars, counts, serverVars, log, historyVars>>

\* MUTANT of Handle: an event is converted, and tracked, only when there is
\* a connection to send it on.
HandleIfConnected ==
  /\ up
  /\ inbox # <<>>
  /\ inbox' = Tail(inbox)
  /\ handled' = handled + 1
  /\ heard' = Append(heard, Head(inbox))
  /\ LET c == Content[Head(inbox)] IN
       IF Convertible(c) /\ (client \/ ~enabled)
       THEN /\ workspaceGroup' = WorkspaceGroupWith(c)
            /\ boardWorkspace' = BoardWorkspaceWith(c)
            /\ SentOk(Message(handled + 1, Head(inbox))) \/ SentErr(Message(handled + 1, Head(inbox)))
       ELSE /\ counts' = [counts EXCEPT !.received = @ + 1]
            /\ UNCHANGED <<trackerVars, client, lastError, link, log, missed>>
  /\ UNCHANGED <<up, enabled, iggyUp, topicReady>>

\* One event of event_rx: count, convert and track, send, count.
Handle ==
  /\ up
  /\ inbox # <<>>
  /\ inbox' = Tail(inbox)
  /\ handled' = handled + 1
  /\ heard' = Append(heard, Head(inbox))
  /\ LET c == Content[Head(inbox)] IN
       /\ workspaceGroup' = WorkspaceGroupWith(c)
       /\ boardWorkspace' = BoardWorkspaceWith(c)
       /\ \/ /\ Convertible(c)
             /\ SentOk(Message(handled + 1, Head(inbox))) \/ SentErr(Message(handled + 1, Head(inbox)))
          \/ /\ ~Convertible(c)
             /\ counts' = [counts EXCEPT !.received = @ + 1]
             /\ UNCHANGED <<client, lastError, link, log, missed>>
  /\ UNCHANGED <<up, enabled, iggyUp, topicReady>>

\* IggyConnection::connect on a server that answers: the errors of
\* create_stream and create_topic are taken for "already exists".
Connect ==
  /\ iggyUp
  /\ client' = TRUE
  /\ link' = TRUE
  /\ lastError' = FALSE
  /\ \/ topicReady' = TRUE
     \/ "nocreate" \in Faults /\ UNCHANGED topicReady

\* MUTANT of Reconnect: IGGY_ENABLED=0 is not looked at.
ReconnectAnyway ==
  /\ up /\ ~client
  /\ Connect
  /\ UNCHANGED <<up, inbox, enabled, trackerVars, counts, iggyUp, log, historyVars>>

\* The connect before the loop, and the arm of iggy_retry, every 30 seconds;
\* a connect that fails changes nothing, last_error neither.
Reconnect ==
  /\ up /\ enabled /\ ~client
  /\ Connect
  /\ UNCHANGED <<up, inbox, enabled, trackerVars, counts, iggyUp, log, historyVars>>

-----------------------------------------------------------------------------
(* The process and the server.                                             *)

\* Inbox, maps, counters and connection go with the process.
Crash ==
  /\ "crash" \in Faults
  /\ up
  /\ up' = FALSE
  /\ inbox' = <<>>
  /\ workspaceGroup' = NoGroups
  /\ boardWorkspace' = NoWorkspaces
  /\ client' = FALSE
  /\ lastError' = FALSE
  /\ counts' = NoCounts
  /\ link' = FALSE
  /\ heard' = <<>>
  /\ missed' = {}
  /\ UNCHANGED <<enabled, iggyUp, topicReady, log, handled>>

\* main again, with the IGGY_ENABLED it is given now.
Restart ==
  /\ ~up
  /\ up' = TRUE
  /\ enabled' \in BOOLEAN
  /\ UNCHANGED <<inbox, trackerVars, client, lastError, counts, serverVars, log, historyVars>>

IggyStops ==
  /\ "outage" \in Faults
  /\ iggyUp
  /\ iggyUp' = FALSE
  /\ link' = FALSE
  /\ UNCHANGED <<up, inbox, trackerVars, iggyVars, counts, topicReady, log, historyVars>>

IggyStarts ==
  /\ ~iggyUp
  /\ iggyUp' = TRUE
  /\ UNCHANGED <<up, inbox, trackerVars, iggyVars, counts, link, topicReady, log, historyVars>>

\* The TCP connection breaks while no send is under way; the client does not
\* notice until the next one.
LinkBreaks ==
  /\ "break" \in Faults
  /\ link
  /\ link' = FALSE
  /\ UNCHANGED <<up, inbox, trackerVars, iggyVars, counts, iggyUp, topicReady, log, historyVars>>

-----------------------------------------------------------------------------
Next ==
  \/ \E e \in Events : Arrive(e)
  \/ Handle \/ Reconnect
  \/ Crash \/ Restart
  \/ IggyStops \/ IggyStarts \/ LinkBreaks

Spec == Init /\ [][Next]_vars

\* select! picks among its ready arms at random, so that neither the events
\* nor the ticks can starve each other; operators restart what stopped.
Fairness == WF_vars(Handle) /\ WF_vars(Reconnect) /\ WF_vars(Restart) /\ WF_vars(IggyStarts)

FairSpec == Spec /\ Fairness

-----------------------------------------------------------------------------
(* What the log says.                                                      *)

\* The handled events before this run.
Before == handled - Len(heard)

\* The messages this run appended.
OfThisRun == {i \in DOMAIN log : log[i].n > Before}

\* The latest of the first p events of this run that satisfies Test, or 0.
LastHeard(p, Test(_)) ==
  LET S == {i \in 1..p : Test(Content[heard[i]])}
  IN  IF S = {} THEN 0 ELSE CHOOSE i \in S : \A j \in S : j <= i

\* The group and the workspace that the first p events give, by definition:
\* the group of the last creation of the workspace, the workspace of the
\* last creation of the board, in whichever order the two came.
GroupHeard(p, w) ==
  LET i == LastHeard(p, LAMBDA c : c.kind = "workspace" /\ c.ws = w)
  IN  IF i = 0 THEN None ELSE Content[heard[i]].group
WorkspaceHeard(p, b) ==
  LET i == LastHeard(p, LAMBDA c : c.kind = "board" /\ c.board = b)
  IN  IF i = 0 THEN None ELSE Content[heard[i]].ws

\* A board's element or cell is forwarded under the workspace and the group
\* that the creations heard since the start place it in, in either order and
\* even if they came while Iggy was away, and under "unknown" only if they
\* have not come (get_scope_for_board); a board or a chat goes under its
\* workspace's group, or under the topic's.
ScopeAsHeard ==
  \A i \in OfThisRun :
    LET p == log[i].n - Before
        c == Content[heard[p]]
    IN  /\ c.kind = "item" =>
             /\ log[i].ws = WorkspaceHeard(p, c.board)
             /\ log[i].group = (IF log[i].ws = None THEN None ELSE GroupHeard(p, log[i].ws))
        /\ c.kind \in {"board", "chat"} =>
             log[i].group = Or(GroupHeard(p, c.ws), c.topic)

\* An event is in the Iggy topic at most once and behind those handled
\* before it, through outages, restarts, and sends that fail after the
\* server appended: there is no second attempt (send_raw_event).
ForwardedInOrder ==
  \A i, j \in DOMAIN log : i < j => log[i].n < log[j].n

\* The heartbeat's numbers: with Iggy enabled, "sent" and "fwd" are the same
\* and each stands for a message in the topic, and "conv" less "fwd" is what
\* was missed; a message of this run is missing only if its send failed.
CountsAreTrue ==
  enabled =>
    /\ counts.sent = counts.forwarded
    /\ counts.sent = Cardinality(OfThisRun) - Cardinality({i \in OfThisRun : log[i].n \in missed})
    /\ counts.converted - counts.forwarded = Cardinality(missed)
    /\ \A p \in DOMAIN heard :
         Convertible(Content[heard[p]]) =>
           Before + p \in missed \cup {log[i].n : i \in OfThisRun}

\* Once Iggy and the process stay up, whatever left the forwarder without a
\* connection, or with one that a send found dead, it gets a live one again:
\* after an outage at start-up ("will retry", main) as after a failed send.
Reconnects ==
  <>[](up /\ enabled /\ iggyUp) => []((~client \/ lastError) => <>link)
=============================================================================
