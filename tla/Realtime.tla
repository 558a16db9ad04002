------------------------------ MODULE Realtime ------------------------------
(***************************************************************************)
(* Updates pushed to clients: the transmitter and its queue                *)
(* (src/api/routes/ws/web-socket-transmitter.ts), the Socket.IO channel    *)
(* and the WebSocket RPC channel with its subscription managers and their  *)
(* ping loops (src/api/routes/ws/channels/).                               *)
(*                                                                         *)
(* An event of the store is handled in stages, one for each kind of topic  *)
(* it concerns.  A stage looks for listeners, awaits a query and sends     *)
(* what it returned.  The queue runs one event at a time, but a handler    *)
(* that takes too long only loses its place: it goes on beside the next.   *)
(***************************************************************************)
EXTENDS Integers, Sequences, FiniteSets, FiniteSetsExt

CONSTANTS
  RpcClient,      \* WebSocket RPC connections
  IoClient,       \* Socket.IO connections
  Topic,          \* what a client can subscribe to
  Manager,        \* the subscription managers of the RPC channel
  ManagerOf,      \* the manager that keeps the subscribers of a topic
  Event,          \* what the store notifies of, one for each entity
  StagesOf,       \* the topics an event is sent on, in order
  OneQuery,       \* events queried once, before looking for listeners
  ById,           \* events whose query returns what the event names
  EndsIfMissing,  \* events whose handler returns if the query finds nothing
  NoTask,
  Interest,       \* bound: the topics a client may ask for
  MaxVersion,     \* bound: changes of an entity
  MaxChanges,     \* bound: changes of all entities
  MaxWaiting,     \* bound: events waiting in the queue
  MaxOverdue      \* bound: handlers that go on after their timeout

Client == RpcClient \cup IoClient
TopicsOf(e) == {StagesOf[e][i] : i \in DOMAIN StagesOf[e]}

ASSUME RealtimeAssumption ==
  /\ RpcClient \cap IoClient = {}
  /\ ManagerOf \in [Topic -> Manager]
  /\ StagesOf \in [Event -> Seq(Topic) \ {<<>>}]
  /\ \A e, f \in Event : e # f => TopicsOf(e) \cap TopicsOf(f) = {}
  /\ OneQuery \subseteq EndsIfMissing
  /\ Interest \in [Client -> SUBSET Topic]
  /\ MaxVersion \in [Event -> Nat]
  /\ {MaxChanges, MaxWaiting, MaxOverdue} \subseteq Nat

\* A handler of an event: the stage it is in, and what its query returned.
Task == {t \in [event : Event, version : Nat, stage : Nat,
                phase : {"check", "send"}, read : Nat] :
           /\ t.version <= MaxVersion[t.event]
           /\ t.stage \in 1 .. Len(StagesOf[t.event])
           /\ t.read <= MaxVersion[t.event]}

ASSUME NoTaskAssumption == NoTask \notin Task

VARIABLES
  conn,       \* the state of a client's connection
  subs,       \* <<client, topic>>: subscribers of both channels
  listening,  \* <<client, topic>>: 'close' and 'pong' listeners of a socket
  live,       \* <<client, manager>>: liveSockets
  beating,    \* managers whose heartbeatInterval is set
  pinged,     \* <<client, manager>>: pings whose pong is under way
  stuck,      \* <<client, topic>>: sends the client has not taken yet
  version,    \* the last committed version of an entity
  waiting,    \* the queue of the transmitter
  current,    \* the handler that holds the queue
  overdue,    \* handlers the queue no longer waits for
  owed        \* the version a subscriber was subscribed for and has not got

clientVars == <<conn, subs, listening, live, beating, pinged, stuck>>
queueVars == <<version, waiting, current, overdue>>
rvars == <<clientVars, queueVars, owed>>

RTypeOK ==
  /\ conn \in [Client -> {"none", "open", "hung"}]
  /\ \A c \in IoClient : conn[c] # "hung"
  /\ subs \subseteq Client \X Topic
  /\ listening \subseteq RpcClient \X Topic
  /\ live \cup pinged \subseteq RpcClient \X Manager
  /\ beating \subseteq Manager
  /\ stuck \subseteq RpcClient \X Topic
  /\ version \in [Event -> Nat]
  /\ \A e \in Event : version[e] <= MaxVersion[e]
  /\ waiting \in Seq([event : Event, version : Nat])
  /\ \A i \in DOMAIN waiting : waiting[i].version <= MaxVersion[waiting[i].event]
  /\ current \in Task \cup {NoTask}
  /\ overdue \subseteq Task
  /\ owed \in [Client \X Topic -> Nat]

RInit ==
  /\ conn = [c \in Client |-> "none"]
  /\ subs = {} /\ listening = {} /\ live = {} /\ beating = {}
  /\ pinged = {} /\ stuck = {}
  /\ version = [e \in Event |-> 0]
  /\ waiting = <<>>
  /\ current = NoTask
  /\ overdue = {}
  /\ owed = [p \in Client \X Topic |-> 0]

-----------------------------------------------------------------------------
(* SubscriptionManager. *)

RpcSubs(m) == {p \in subs : p[1] \in RpcClient /\ ManagerOf[p[2]] = m}

\* removeSubscription for each of the pairs; a manager without topics stops
\* its heartbeat.
RemoveSubscription(pairs) ==
  /\ subs' = subs \ pairs
  /\ beating' = {m \in beating : RpcSubs(m) \ pairs # {}}
  /\ owed' = [p \in DOMAIN owed |-> IF p \in pairs THEN 0 ELSE owed[p]]

ManagersOf(pairs) == {<<p[1], ManagerOf[p[2]]>> : p \in pairs}

AddSubscription(c, t) ==
  /\ conn[c] = "open"
  /\ subs' = subs \cup {<<c, t>>}
  /\ listening' = listening \cup {<<c, t>>}
  /\ live' = live \cup ManagersOf({<<c, t>>})
  /\ beating' = IF RpcSubs(ManagerOf[t]) = {} THEN beating \cup {ManagerOf[t]}
                                              ELSE beating
  /\ UNCHANGED <<conn, pinged, stuck, queueVars, owed>>

Unsubscribe_AllManagers(c, t) ==
  /\ conn[c] = "open"
  /\ RemoveSubscription({<<c, t>>})
  /\ live' = {p \in live : p[1] # c}
  /\ UNCHANGED <<conn, listening, pinged, stuck, queueVars>>

\* The live mark of a socket is the manager's, not the topic's.
Unsubscribe(c, t) ==
  /\ conn[c] = "open"
  /\ RemoveSubscription({<<c, t>>})
  /\ live' = live \ ManagersOf({<<c, t>>})
  /\ UNCHANGED <<conn, listening, pinged, stuck, queueVars>>

LiveAfterTick_Keeps(asked) == live

\* Every socket that is pinged is taken for dead until its pong.
LiveAfterTick(asked) == live \ asked

\* One round of the ping loop over topics and their clients.  A client with
\* several topics of this manager is live only when the first of them is
\* visited, which is the order of a Map that the model leaves open.  Sockets
\* that do answer do so within the interval.
Tick(m) ==
  LET askedFor == RpcSubs(m)
      clients == {p[1] : p \in askedFor}
      alive == {c \in clients : <<c, m>> \in live}
  IN
  /\ m \in beating
  /\ \A c \in RpcClient : <<c, m>> \notin pinged
  /\ \E first \in [clients -> Topic] :
       /\ \A c \in clients : <<c, first[c]>> \in askedFor
       /\ RemoveSubscription(
            {p \in askedFor : p[1] \notin alive \/ p[2] # first[p[1]]})
  /\ live' = LiveAfterTick(clients \X {m})
  /\ pinged' = pinged \cup {<<c, m>> : c \in {d \in alive : conn[d] = "open"}}
  /\ UNCHANGED <<conn, listening, stuck, queueVars>>

\* The listeners of every manager the socket subscribed in hear a pong.
Pong(c) ==
  /\ \E m \in Manager : <<c, m>> \in pinged
  /\ live' = live \cup ManagersOf({p \in listening : p[1] = c})
  /\ pinged' = {p \in pinged : p[1] # c}
  /\ UNCHANGED <<conn, subs, listening, beating, stuck, queueVars, owed>>

-----------------------------------------------------------------------------
(* Connections. *)

RpcConnect(c) ==
  /\ conn[c] = "none"
  /\ conn' = [conn EXCEPT ![c] = "open"]
  /\ UNCHANGED <<subs, listening, live, beating, pinged, stuck, queueVars, owed>>

\* A client that neither answers nor closes.
RpcHangs(c) ==
  /\ conn[c] = "open"
  /\ conn' = [conn EXCEPT ![c] = "hung"]
  /\ pinged' = {p \in pinged : p[1] # c}
  /\ UNCHANGED <<subs, listening, live, beating, stuck, queueVars, owed>>

CloseListeners_Subscribed(c) == {p \in subs : p[1] = c}

\* The subscriptions that the 'close' listeners of a socket remove.
CloseListeners(c) == {p \in listening : p[1] = c}

\* Sends under way fail and find nothing to remove.
RpcClose(c) ==
  /\ conn[c] \in {"open", "hung"}
  /\ conn' = [conn EXCEPT ![c] = "none"]
  /\ stuck' = {p \in stuck : p[1] # c}
  /\ RemoveSubscription(CloseListeners(c))
  /\ live' = live \ ManagersOf(CloseListeners(c))
  /\ listening' = listening \ CloseListeners(c)
  /\ pinged' = {p \in pinged : p[1] # c}
  /\ UNCHANGED queueVars

\* Socket.IO: a handshake that names topics, then the client's requests.
IoConnect(c, topics) ==
  /\ conn[c] = "none"
  /\ conn' = [conn EXCEPT ![c] = "open"]
  /\ subs' = subs \cup ({c} \X topics)
  /\ UNCHANGED <<listening, live, beating, pinged, stuck, queueVars, owed>>

IoSubscribe(c, t) ==
  /\ conn[c] = "open"
  /\ subs' = subs \cup {<<c, t>>}
  /\ UNCHANGED <<conn, listening, live, beating, pinged, stuck, queueVars, owed>>

IoUnsubscribe(c, t) ==
  /\ conn[c] = "open"
  /\ RemoveSubscription({<<c, t>>})
  /\ UNCHANGED <<conn, listening, live, pinged, stuck, queueVars>>

IoDisconnect(c) ==
  /\ conn[c] = "open"
  /\ conn' = [conn EXCEPT ![c] = "none"]
  /\ RemoveSubscription({c} \X Topic)
  /\ UNCHANGED <<listening, live, pinged, stuck, queueVars>>

-----------------------------------------------------------------------------
(* Changes of the store and their notifications. *)

Committed(e) ==
  /\ version[e] < MaxVersion[e]
  /\ MapThenSumSet(LAMBDA f : version[f], Event) < MaxChanges
  /\ version' = [version EXCEPT ![e] = @ + 1]

Named_Next(e, v) == v + 1

\* The version a notification names: some only name the entity.
Named(e, v) == IF e \in ById THEN v ELSE 0

\* A committed change whose NOTIFY arrives: its subscribers wait for it.
Notified(e) ==
  /\ Committed(e)
  /\ Len(waiting) < MaxWaiting
  /\ waiting' = Append(waiting, [event |-> e, version |-> Named(e, version'[e])])
  /\ owed' = [p \in DOMAIN owed |->
                IF p \in subs /\ p[2] \in TopicsOf(e) THEN version'[e]
                                                      ELSE owed[p]]
  /\ UNCHANGED <<clientVars, current, overdue>>

\* A NOTIFY that fails is logged and forgotten.
NotificationLost(e) ==
  /\ Committed(e)
  /\ UNCHANGED <<clientVars, waiting, current, overdue, owed>>

-----------------------------------------------------------------------------
(* WebSocketTransmitter. *)

StartTask ==
  /\ current = NoTask
  /\ waiting # <<>>
  /\ current' = [event |-> Head(waiting).event, version |-> Head(waiting).version,
                 stage |-> 1, phase |-> "check", read |-> 0]
  /\ waiting' = Tail(waiting)
  /\ UNCHANGED <<clientVars, version, overdue, owed>>

\* The queue gives up on its task, which is not cancelled.
TaskTimesOut ==
  /\ current # NoTask
  /\ Cardinality(overdue) < MaxOverdue
  /\ overdue' = overdue \cup {current}
  /\ current' = NoTask
  /\ UNCHANGED <<clientVars, version, waiting, owed>>

Tasks == overdue \cup ({current} \ {NoTask})

Becomes(task, next) ==
  /\ IF task = current
       THEN current' = next /\ UNCHANGED overdue
       ELSE overdue' = (overdue \ {task}) \cup ({next} \ {NoTask})
            /\ UNCHANGED current
  /\ UNCHANGED <<version, waiting>>

TopicOf(task) == StagesOf[task.event][task.stage]

NextStage(task) ==
  IF task.stage = Len(StagesOf[task.event]) THEN NoTask
  ELSE IF task.event \in OneQuery THEN [task EXCEPT !.stage = @ + 1]
  ELSE [task EXCEPT !.stage = @ + 1, !.phase = "check", !.read = 0]

HasListeners_Io(t) == \E c \in IoClient : <<c, t>> \in subs

HasListeners(t) == \E c \in Client : <<c, t>> \in subs

Query(task) ==
  /\ task.phase = "check"
  /\ task.event \in OneQuery \/ HasListeners(TopicOf(task))
  /\ LET found == IF task.event \in ById THEN task.version
                                         ELSE version[task.event]
     IN Becomes(task, [task EXCEPT !.phase = "send", !.read = found])
  /\ UNCHANGED <<clientVars, owed>>

SkipStage(task) ==
  /\ task.phase = "check"
  /\ task.event \notin OneQuery
  /\ ~HasListeners(TopicOf(task))
  /\ Becomes(task, NextStage(task))
  /\ UNCHANGED <<clientVars, owed>>

\* Subscribers that get a version, or will never get it, are not owed it.
Settle(pairs, v) ==
  owed' = [p \in DOMAIN owed |-> IF p \in pairs /\ owed[p] <= v THEN 0
                                                                ELSE owed[p]]

\* Whom the two channels send a payload to.
Subscribers(t) == {p \in subs : p[2] = t}

\* A client that reads slowly has not taken its payload at once, one that
\* hangs never does.
Send(task) ==
  LET to == Subscribers(TopicOf(task))
      rpc == {p \in to : p[1] \in RpcClient}
  IN
  /\ task.phase = "send"
  /\ Settle({p \in to : conn[p[1]] = "open"}, task.read)
  /\ \E slow \in SUBSET rpc :
       /\ {p \in rpc : conn[p[1]] = "hung"} \subseteq slow
       /\ stuck' = stuck \cup slow
  /\ Becomes(task, NextStage(task))
  /\ UNCHANGED <<conn, subs, listening, live, beating, pinged>>

SendEnds(c, t) ==
  /\ <<c, t>> \in stuck
  /\ conn[c] = "open"
  /\ stuck' = stuck \ {<<c, t>>}
  /\ UNCHANGED <<conn, subs, listening, live, beating, pinged, queueVars, owed>>

\* A send to an RPC client ran into its timeout, or failed.  That takes off
\* the topic a client which answers every ping but reads slowly, also if it
\* left and came back since the send.  Sends of a pair are not counted:
\* another may still be under way.
SendTimesOut(c, t) ==
  /\ <<c, t>> \in stuck
  /\ stuck' \in {stuck, stuck \ {<<c, t>>}}
  /\ RemoveSubscription({<<c, t>>})
  /\ live' = live \ ManagersOf({<<c, t>>})
  /\ UNCHANGED <<conn, listening, pinged, queueVars>>

\* The handler leaves out a stage or, if it ends here, all that follow.
Without(task, ends) ==
  LET left == {StagesOf[task.event][i] :
                 i \in task.stage .. Len(StagesOf[task.event])}
  IN /\ Becomes(task, IF ends THEN NoTask ELSE NextStage(task))
     /\ Settle(Client \X (IF ends THEN left ELSE {TopicOf(task)}), task.read)
     /\ UNCHANGED clientVars

NotFound(task) ==
  /\ task.phase = "send"
  /\ task.event \in EndsIfMissing => task.stage = 1
  /\ Without(task, task.event \in EndsIfMissing)

QueryFails(task) ==
  /\ task.phase = "send"
  /\ task.event \in OneQuery => task.stage = 1
  /\ Without(task, task.event \in OneQuery)

-----------------------------------------------------------------------------
RpcNext ==
  \/ \E c \in RpcClient :
       \/ RpcConnect(c) \/ RpcHangs(c) \/ RpcClose(c) \/ Pong(c)
       \/ \E t \in Interest[c] :
            \/ AddSubscription(c, t) \/ Unsubscribe(c, t)
            \/ SendEnds(c, t) \/ SendTimesOut(c, t)
  \/ \E m \in Manager : Tick(m)

IoNext ==
  \E c \in IoClient :
    \/ IoDisconnect(c)
    \/ \E topics \in SUBSET Interest[c] : IoConnect(c, topics)
    \/ \E t \in Interest[c] : IoSubscribe(c, t) \/ IoUnsubscribe(c, t)

TransmitterNext ==
  \/ \E e \in Event : Notified(e) \/ NotificationLost(e)
  \/ StartTask \/ TaskTimesOut
  \/ \E task \in Tasks :
       \/ Query(task) \/ SkipStage(task) \/ Send(task)
       \/ NotFound(task) \/ QueryFails(task)

RNext == RpcNext \/ IoNext \/ TransmitterNext

\* Timers fire and open sockets answer pings.
RFairness ==
  /\ \A m \in Manager : WF_rvars(Tick(m))
  /\ \A c \in RpcClient : WF_rvars(Pong(c))

RSpec == RInit /\ [][RNext]_rvars /\ RFairness

-----------------------------------------------------------------------------
(* Properties. *)

\* A closed socket is in no subscription and no liveSockets set, although a
\* pong puts a socket back that is not subscribed any more.
ClosedLeavesNothing ==
  \A c \in RpcClient :
    conn[c] = "none" =>
      \A p \in subs \cup live : p[1] # c

\* "Client did not respond to a previous ping, it's dead": a client that
\* answers every ping and whose sends end in time loses a subscription only
\* by its own request.
ResponsiveKeepsSubscription ==
  [][\A p \in subs \ subs' :
       p[1] \in RpcClient /\ conn'[p[1]] = "open" =>
         Unsubscribe(p[1], p[2]) \/ SendTimesOut(p[1], p[2])]_rvars

\* The client asks for no other topic of the same manager.
OnlyTopic(p) ==
  \A t \in Interest[p[1]] : ManagerOf[t] = ManagerOf[p[2]] => t = p[2]

\* A client that answers every ping, whose sends end in time and that asks
\* for one topic of a manager loses that subscription only by its own
\* request: whatever it does in the other managers, whatever the others of
\* this manager do, and with pings, pongs and new subscriptions in any order.
OnlyTopicIsKept ==
  [][\A p \in subs \ subs' :
       p[1] \in RpcClient /\ conn'[p[1]] = "open" /\ OnlyTopic(p) =>
         Unsubscribe(p[1], p[2]) \/ SendTimesOut(p[1], p[2])]_rvars

\* A client that hangs without closing is taken off every topic.
HungClientIsDropped ==
  \A c \in RpcClient :
    conn[c] = "hung" ~> \A t \in Topic : <<c, t>> \notin subs

\* A handler that will still send the client at least what it is owed.
WillSend(task, p) ==
  /\ \E i \in task.stage .. Len(StagesOf[task.event]) :
       StagesOf[task.event][i] = p[2]
  /\ task.phase = "send" /\ (task.event \in OneQuery \/ p[2] = TopicOf(task))
       => task.read >= owed[p]
  /\ task.event \in ById => task.version >= owed[p]

\* A client subscribed when a change was notified gets that version or a
\* newer one, unless it goes or the query has no answer: as long as it did
\* not, a handler that will send it waits or runs.  No timeout of the queue,
\* failed stage, other channel or late subscriber withholds it.
OwedIsUnderWay ==
  \A p \in Client \X Topic :
    owed[p] > 0 /\ conn[p[1]] = "open" =>
      \/ \E i \in DOMAIN waiting :
           /\ p[2] \in TopicsOf(waiting[i].event)
           /\ waiting[i].event \in ById => waiting[i].version >= owed[p]
      \/ \E task \in Tasks : WillSend(task, p)

=============================================================================
