--------------------------- MODULE RealtimeProofs ---------------------------
(***************************************************************************)
(* Proofs about Realtime, for any clients, topics and managers, any        *)
(* events and stages, and any number of handlers at once.                  *)
(***************************************************************************)
EXTENDS Realtime, SequenceTheorems, TLAPS

\* The steps that change connections and subscriptions, and those that only
\* move the queue.
ClientStep == RpcNext \/ IoNext
QueueStep == \E e \in Event : Notified(e) \/ NotificationLost(e)
TaskStep == \E task \in Tasks : \/ Query(task) \/ SkipStage(task) \/ Send(task)
                                \/ NotFound(task) \/ QueryFails(task)

LEMMA StepKinds ==
  RNext <=> ClientStep \/ QueueStep \/ StartTask \/ TaskTimesOut \/ TaskStep
BY DEF RNext, ClientStep, QueueStep, TaskStep, TransmitterNext

-----------------------------------------------------------------------------
(* Types. *)

Item == [event : Event, version : Nat]

\* The parts of RTypeOK about clients, and about the queue.
ClientTypes ==
  /\ conn \in [Client -> {"none", "open", "hung"}]
  /\ \A c \in IoClient : conn[c] # "hung"
  /\ subs \subseteq Client \X Topic
  /\ listening \subseteq RpcClient \X Topic
  /\ live \cup pinged \subseteq RpcClient \X Manager
  /\ beating \subseteq Manager
  /\ stuck \subseteq RpcClient \X Topic

QueueTypes ==
  /\ version \in [Event -> Nat]
  /\ \A e \in Event : version[e] <= MaxVersion[e]
  /\ waiting \in Seq([event : Event, version : Nat])
  /\ \A i \in DOMAIN waiting : waiting[i].version <= MaxVersion[waiting[i].event]

LEMMA TypeParts ==
  RTypeOK <=> /\ ClientTypes /\ QueueTypes
              /\ current \in Task \cup {NoTask} /\ overdue \subseteq Task
              /\ owed \in [Client \X Topic -> Nat]
BY DEF RTypeOK, ClientTypes, QueueTypes

LEMMA RemoveTypes ==
  ASSUME RTypeOK, NEW pairs, RemoveSubscription(pairs)
  PROVE  /\ subs' \subseteq Client \X Topic
         /\ beating' \subseteq Manager
         /\ owed' \in [Client \X Topic -> Nat]
         /\ \A p \in Client \X Topic : owed'[p] = IF p \in pairs THEN 0 ELSE owed[p]
BY DEF RTypeOK, RemoveSubscription

LEMMA RpcTypes ==
  ASSUME RTypeOK, RpcNext
  PROVE  ClientTypes' /\ owed' \in [Client \X Topic -> Nat] /\ UNCHANGED queueVars
<1> USE RealtimeAssumption DEF Client
<1>1. ASSUME NEW c \in RpcClient, RpcConnect(c) \/ RpcHangs(c)
      PROVE  ClientTypes' /\ owed' = owed /\ UNCHANGED queueVars
  BY <1>1 DEF RTypeOK, ClientTypes, RpcConnect, RpcHangs, queueVars
<1>2. ASSUME NEW c \in RpcClient, RpcClose(c)
      PROVE  ClientTypes' /\ owed' \in [Client \X Topic -> Nat] /\ UNCHANGED queueVars
  <2>1. RemoveSubscription(CloseListeners(c))
    BY <1>2 DEF RpcClose
  <2> QED BY <1>2, <2>1, RemoveTypes DEF RTypeOK, ClientTypes, RpcClose, queueVars
<1>3. ASSUME NEW c \in RpcClient, Pong(c)
      PROVE  ClientTypes' /\ owed' = owed /\ UNCHANGED queueVars
  BY <1>3 DEF RTypeOK, ClientTypes, Pong, ManagersOf, queueVars
<1>4. ASSUME NEW c \in RpcClient, NEW t \in Interest[c], AddSubscription(c, t)
      PROVE  ClientTypes' /\ owed' = owed /\ UNCHANGED queueVars
  <2>1. t \in Topic /\ ManagerOf[t] \in Manager
    OBVIOUS
  <2>2. ManagersOf({<<c, t>>}) \subseteq RpcClient \X Manager
    BY <2>1 DEF ManagersOf
  <2>3. <<c, t>> \in RpcClient \X Topic /\ <<c, t>> \in Client \X Topic
    BY <2>1
  <2>4. /\ subs' = subs \cup {<<c, t>>} /\ listening' = listening \cup {<<c, t>>}
        /\ live' = live \cup ManagersOf({<<c, t>>})
        /\ beating' \subseteq beating \cup {ManagerOf[t]}
        /\ UNCHANGED <<conn, pinged, stuck, queueVars, owed>>
    BY <1>4 DEF AddSubscription
  <2> QED BY <2>1, <2>2, <2>3, <2>4 DEF RTypeOK, ClientTypes
<1>5. ASSUME NEW c \in RpcClient, NEW t \in Interest[c], Unsubscribe(c, t) \/ SendTimesOut(c, t)
      PROVE  ClientTypes' /\ owed' \in [Client \X Topic -> Nat] /\ UNCHANGED queueVars
  <2>1. RemoveSubscription({<<c, t>>})
    BY <1>5 DEF Unsubscribe, SendTimesOut
  <2> QED BY <1>5, <2>1, RemoveTypes DEF RTypeOK, ClientTypes, Unsubscribe, SendTimesOut, queueVars
<1>6. ASSUME NEW m \in Manager, Tick(m)
      PROVE  ClientTypes' /\ owed' \in [Client \X Topic -> Nat] /\ UNCHANGED queueVars
  <2>1. PICK pairs : RemoveSubscription(pairs)
    BY <1>6 DEF Tick
  <2>2. live' \subseteq live /\ UNCHANGED <<conn, listening, stuck, queueVars>>
    BY <1>6 DEF Tick, LiveAfterTick
  <2>3. pinged' \subseteq RpcClient \X Manager
    <3>1. \A c : c \in {p[1] : p \in RpcSubs(m)} => c \in RpcClient
      BY DEF RpcSubs
    <3>2. \A q \in pinged' : q \in pinged \/ \E c \in {p[1] : p \in RpcSubs(m)} : q = <<c, m>>
      BY <1>6 DEF Tick
    <3>3. pinged \subseteq RpcClient \X Manager
      BY DEF RTypeOK
    <3> QED BY <3>1, <3>2, <3>3
  <2> QED BY <2>1, <2>2, <2>3, RemoveTypes DEF RTypeOK, ClientTypes
<1>7. ASSUME NEW c \in RpcClient, NEW t \in Interest[c], SendEnds(c, t)
      PROVE  ClientTypes' /\ owed' = owed /\ UNCHANGED queueVars
  BY <1>7 DEF RTypeOK, ClientTypes, SendEnds
<1> QED BY <1>1, <1>2, <1>3, <1>4, <1>5, <1>6, <1>7 DEF RpcNext, RTypeOK

LEMMA IoTypes ==
  ASSUME RTypeOK, IoNext
  PROVE  ClientTypes' /\ owed' \in [Client \X Topic -> Nat] /\ UNCHANGED queueVars
<1> USE RealtimeAssumption DEF Client
<1>1. ASSUME NEW c \in IoClient, IoDisconnect(c)
      PROVE  ClientTypes' /\ owed' \in [Client \X Topic -> Nat] /\ UNCHANGED queueVars
  <2>1. RemoveSubscription({c} \X Topic)
    BY <1>1 DEF IoDisconnect
  <2> QED BY <1>1, <2>1, RemoveTypes DEF RTypeOK, ClientTypes, IoDisconnect, queueVars
<1>2. ASSUME NEW c \in IoClient, NEW topics \in SUBSET Interest[c], IoConnect(c, topics)
      PROVE  ClientTypes' /\ owed' = owed /\ UNCHANGED queueVars
  BY <1>2 DEF RTypeOK, ClientTypes, IoConnect, queueVars
<1>3. ASSUME NEW c \in IoClient, NEW t \in Interest[c], IoSubscribe(c, t)
      PROVE  ClientTypes' /\ owed' = owed /\ UNCHANGED queueVars
  BY <1>3 DEF RTypeOK, ClientTypes, IoSubscribe, queueVars
<1>4. ASSUME NEW c \in IoClient, NEW t \in Interest[c], IoUnsubscribe(c, t)
      PROVE  ClientTypes' /\ owed' \in [Client \X Topic -> Nat] /\ UNCHANGED queueVars
  <2>1. RemoveSubscription({<<c, t>>})
    BY <1>4 DEF IoUnsubscribe
  <2> QED BY <1>4, <2>1, RemoveTypes DEF RTypeOK, ClientTypes, IoUnsubscribe, queueVars
<1> QED BY <1>1, <1>2, <1>3, <1>4 DEF IoNext, RTypeOK

\* A handler's next stage is a stage of its event.
LEMMA NextStageTypes ==
  ASSUME NEW task \in Task
  PROVE  /\ task.stage = Len(StagesOf[task.event]) => NextStage(task) = NoTask
         /\ task.stage # Len(StagesOf[task.event]) =>
              /\ NextStage(task) \in Task
              /\ NextStage(task).event = task.event
              /\ NextStage(task).version = task.version
              /\ NextStage(task).stage = task.stage + 1
              /\ IF task.event \in OneQuery
                   THEN /\ NextStage(task).phase = task.phase
                        /\ NextStage(task).read = task.read
                   ELSE NextStage(task).phase = "check"
<1>1. /\ task \in [event : Event, version : Nat, stage : Nat,
                   phase : {"check", "send"}, read : Nat]
      /\ Len(StagesOf[task.event]) \in Nat
  BY RealtimeAssumption DEF Task
<1>2. 0 <= MaxVersion[task.event]
  BY <1>1, RealtimeAssumption
<1>3. task.stage \in 1 .. Len(StagesOf[task.event]) /\ task.version <= MaxVersion[task.event]
  BY DEF Task
<1>4. CASE task.stage = Len(StagesOf[task.event])
  BY <1>4 DEF NextStage
<1>5. CASE task.stage # Len(StagesOf[task.event]) /\ task.event \in OneQuery
  <2>1. NextStage(task) = [task EXCEPT !.stage = task.stage + 1]
    BY <1>5 DEF NextStage
  <2> QED BY <1>1, <1>3, <1>5, <2>1 DEF Task
<1>6. CASE task.stage # Len(StagesOf[task.event]) /\ task.event \notin OneQuery
  <2>1. NextStage(task) = [event |-> task.event, version |-> task.version,
                           stage |-> task.stage + 1, phase |-> "check", read |-> 0]
    BY <1>1, <1>6 DEF NextStage
  <2> QED BY <1>1, <1>2, <1>3, <1>6, <2>1 DEF Task
<1> QED BY <1>4, <1>5, <1>6

\* Settling only ever takes a debt to 0.
LEMMA SettleOwed ==
  ASSUME RTypeOK, NEW pairs, NEW v \in Nat, Settle(pairs, v)
  PROVE  /\ owed' \in [Client \X Topic -> Nat]
         /\ \A p \in Client \X Topic :
              owed'[p] = IF p \in pairs /\ owed[p] <= v THEN 0 ELSE owed[p]
<1>1. owed \in [Client \X Topic -> Nat]
  BY DEF RTypeOK
<1>2. owed' = [p \in Client \X Topic |-> IF p \in pairs /\ owed[p] <= v THEN 0 ELSE owed[p]]
  BY <1>1 DEF Settle
<1> QED BY <1>1, <1>2

LEMMA BecomesTypes ==
  ASSUME RTypeOK, NEW task \in Tasks, NEW next \in Task \cup {NoTask}, Becomes(task, next)
  PROVE  /\ current' \in Task \cup {NoTask} /\ overdue' \subseteq Task
         /\ UNCHANGED <<version, waiting>>
BY DEF RTypeOK, Becomes

LEMMA TasksAreTasks == RTypeOK => Tasks \subseteq Task
BY DEF RTypeOK, Tasks

LEMMA TaskTypes ==
  ASSUME RTypeOK, TaskStep
  PROVE  RTypeOK'
<1>1. PICK task \in Tasks : \/ Query(task) \/ SkipStage(task) \/ Send(task)
                            \/ NotFound(task) \/ QueryFails(task)
  BY DEF TaskStep
<1>2. task \in Task
  BY TasksAreTasks
<1>3. NextStage(task) \in Task \cup {NoTask}
  BY <1>2, NextStageTypes
<1>4. CASE Query(task)
  <2> DEFINE found == IF task.event \in ById THEN task.version ELSE version[task.event]
             next == [task EXCEPT !.phase = "send", !.read = found]
  <2>1. found \in Nat /\ found <= MaxVersion[task.event]
    BY <1>2 DEF Task, RTypeOK
  <2>2. next \in Task
    BY <1>2, <2>1 DEF Task
  <2>3. Becomes(task, next) /\ UNCHANGED <<clientVars, owed>>
    BY <1>4 DEF Query
  <2> QED BY <2>2, <2>3, BecomesTypes DEF RTypeOK, clientVars
<1>5. CASE SkipStage(task)
  BY <1>3, <1>5, BecomesTypes DEF SkipStage, RTypeOK, clientVars
<1>6. CASE Send(task)
  <2>1. Becomes(task, NextStage(task)) /\ UNCHANGED <<conn, subs, listening, live, beating, pinged>>
    BY <1>6 DEF Send
  <2>2. owed' \in [Client \X Topic -> Nat]
    <3>1. PICK pairs : Settle(pairs, task.read)
      BY <1>6 DEF Send
    <3>2. task.read \in Nat
      BY <1>2 DEF Task
    <3> QED BY <3>1, <3>2, SettleOwed
  <2>3. stuck' \subseteq RpcClient \X Topic
    BY <1>6 DEF Send, Subscribers, RTypeOK, Client
  <2> QED BY <1>3, <2>1, <2>2, <2>3, BecomesTypes DEF RTypeOK
<1>7. CASE NotFound(task) \/ QueryFails(task)
  <2>1. /\ \E pairs : Settle(pairs, task.read)
        /\ Becomes(task, NoTask) \/ Becomes(task, NextStage(task))
        /\ UNCHANGED clientVars
    BY <1>7 DEF NotFound, QueryFails, Without
  <2>2. task.read \in Nat
    BY <1>2 DEF Task
  <2>3. owed' \in [Client \X Topic -> Nat]
    BY <2>1, <2>2, SettleOwed
  <2> QED BY <1>3, <2>1, <2>3, BecomesTypes DEF RTypeOK, clientVars
<1> QED BY <1>1, <1>4, <1>5, <1>6, <1>7

LEMMA Appending ==
  ASSUME NEW S, NEW q \in Seq(S), NEW x \in S
  PROVE  /\ Append(q, x) \in Seq(S)
         /\ Len(q) + 1 \in DOMAIN Append(q, x) /\ Append(q, x)[Len(q) + 1] = x
         /\ \A i \in DOMAIN q : i \in DOMAIN Append(q, x) /\ Append(q, x)[i] = q[i]
         /\ \A i \in DOMAIN Append(q, x) :
              Append(q, x)[i] = x \/ (i \in DOMAIN q /\ Append(q, x)[i] = q[i])
OBVIOUS

LEMMA TakingHead ==
  ASSUME NEW S, NEW q \in Seq(S), q # <<>>
  PROVE  /\ Head(q) = q[1] /\ 1 \in DOMAIN q /\ Head(q) \in S /\ Tail(q) \in Seq(S)
         /\ \A i \in DOMAIN Tail(q) : i + 1 \in DOMAIN q /\ Tail(q)[i] = q[i + 1]
         /\ \A i \in DOMAIN q : i = 1 \/ (i - 1 \in DOMAIN Tail(q) /\ Tail(q)[i - 1] = q[i])
OBVIOUS

LEMMA QueueTypesStep ==
  ASSUME RTypeOK, QueueStep \/ StartTask \/ TaskTimesOut
  PROVE  RTypeOK'
<1> USE RealtimeAssumption
<1>1. ASSUME NEW e \in Event, Notified(e) \/ NotificationLost(e)
      PROVE  RTypeOK'
  <2>1. /\ version' \in [Event -> Nat] /\ \A f \in Event : version'[f] <= MaxVersion[f]
        /\ version'[e] = version[e] + 1
    <3>1. version[e] < MaxVersion[e] /\ version' = [version EXCEPT ![e] = @ + 1]
      BY <1>1 DEF Notified, NotificationLost, Committed
    <3>2. version \in [Event -> Nat] /\ \A f \in Event : version[f] <= MaxVersion[f]
      BY DEF RTypeOK
    <3>3. MaxVersion \in [Event -> Nat]
      OBVIOUS
    <3>4. version' \in [Event -> Nat] /\ version'[e] = version[e] + 1
      BY <3>1, <3>2
    <3>5. \A f \in Event : f # e => version'[f] = version[f]
      BY <3>1, <3>2
    <3> QED BY <3>1, <3>2, <3>3, <3>4, <3>5
  <2>2. UNCHANGED <<clientVars, current, overdue>>
    BY <1>1 DEF Notified, NotificationLost
  <2>3. CASE Notified(e)
    <3>0. waiting \in Seq(Item)
      BY DEF RTypeOK, Item
    <3> DEFINE item == [event |-> e, version |-> Named(e, version'[e])]
    <3>1. item \in Item /\ item.version <= MaxVersion[item.event]
      BY <2>1 DEF Named, Item
    <3>2. waiting' = Append(waiting, item)
      BY <2>3 DEF Notified
    <3>3. owed' \in [Client \X Topic -> Nat]
      <4>1. owed \in [Client \X Topic -> Nat] /\ version'[e] \in Nat
        BY <2>1 DEF RTypeOK
      <4>2. owed' = [p \in Client \X Topic |->
                       IF p \in subs /\ p[2] \in TopicsOf(e) THEN version'[e] ELSE owed[p]]
        BY <2>3, <4>1 DEF Notified
      <4> QED BY <4>1, <4>2
    <3> HIDE DEF item
    <3>4. /\ waiting' \in Seq(Item)
          /\ \A i \in DOMAIN waiting' :
               waiting'[i] = item \/ (i \in DOMAIN waiting /\ waiting'[i] = waiting[i])
      BY <3>0, <3>1, <3>2, Appending
    <3> QED BY <2>1, <2>2, <3>1, <3>3, <3>4 DEF RTypeOK, clientVars, Item
  <2>4. CASE NotificationLost(e)
    BY <2>1, <2>2, <2>4 DEF RTypeOK, clientVars, NotificationLost
  <2> QED BY <1>1, <2>3, <2>4
<1>2. CASE StartTask
  <2>1. waiting \in Seq(Item) /\ waiting # <<>>
    BY <1>2 DEF RTypeOK, StartTask, Item
  <2>2. /\ Head(waiting) = waiting[1] /\ 1 \in DOMAIN waiting
        /\ Head(waiting) \in Item
        /\ Tail(waiting) \in Seq(Item)
        /\ \A i \in DOMAIN Tail(waiting) : i + 1 \in DOMAIN waiting /\ Tail(waiting)[i] = waiting[i + 1]
    BY <2>1, TakingHead
  <2>3. current' \in Task
    <3>0. Head(waiting).event \in Event /\ Head(waiting).version \in Nat
      BY <2>2 DEF Item
    <3>1. StagesOf[Head(waiting).event] \in Seq(Topic) \ {<<>>}
      BY <3>0
    <3>2. 1 \in 1 .. Len(StagesOf[Head(waiting).event])
      BY <3>1
    <3>3. Head(waiting).version <= MaxVersion[Head(waiting).event]
      BY <2>2 DEF RTypeOK
    <3>4. 0 <= MaxVersion[Head(waiting).event]
      BY <3>0
    <3> QED BY <1>2, <3>0, <3>2, <3>3, <3>4 DEF StartTask, Task
  <2> QED BY <1>2, <2>2, <2>3 DEF RTypeOK, StartTask, clientVars, Item
<1>3. CASE TaskTimesOut
  BY <1>3 DEF RTypeOK, TaskTimesOut, clientVars
<1> HIDE RealtimeAssumption
<1> QED BY <1>1, <1>2, <1>3 DEF QueueStep

\* The connections, subscriptions, queue and handlers stay well formed,
\* whatever the clients and the store do.
THEOREM RealtimeTypeCorrect == RSpec => []RTypeOK
<1>1. RInit => RTypeOK
  <2> SUFFICES ASSUME RInit PROVE RTypeOK
    OBVIOUS
  <2>1. ClientTypes
    BY DEF RInit, ClientTypes, Client
  <2>2. version \in [Event -> Nat] /\ \A e \in Event : version[e] <= MaxVersion[e]
    BY RealtimeAssumption DEF RInit
  <2>3. waiting = <<>> /\ current = NoTask /\ overdue = {} /\ owed \in [Client \X Topic -> Nat]
    BY DEF RInit
  <2> QED BY <2>1, <2>2, <2>3 DEF RTypeOK, ClientTypes
<1>2. RTypeOK /\ [RNext]_rvars => RTypeOK'
  <2> SUFFICES ASSUME RTypeOK, [RNext]_rvars PROVE RTypeOK'
    OBVIOUS
  <2>1. CASE ClientStep
    <3>1. ClientTypes' /\ owed' \in [Client \X Topic -> Nat] /\ UNCHANGED queueVars
      BY <2>1, RpcTypes, IoTypes DEF ClientStep
    <3> QED BY <3>1 DEF RTypeOK, ClientTypes, queueVars
  <2>2. CASE UNCHANGED rvars
    BY <2>2 DEF RTypeOK, rvars, clientVars, queueVars
  <2> QED BY <2>1, <2>2, StepKinds, TaskTypes, QueueTypesStep
<1> QED BY <1>1, <1>2, PTL DEF RSpec
-----------------------------------------------------------------------------
(* Connections and subscriptions. *)

\* Only a connection that is there is subscribed or listened to.
NoneIdle == \A p \in subs \cup listening : conn[p[1]] # "none"

\* What a 'close' listener will take away.
AllHeard == \A p \in subs : p[1] \in RpcClient => p \in listening

LiveHeard == live \subseteq ManagersOf(listening)

ConnInv == NoneIdle /\ AllHeard /\ LiveHeard

LEMMA ManagersOfUnion ==
  ASSUME NEW S, NEW T
  PROVE  ManagersOf(S \cup T) = ManagersOf(S) \cup ManagersOf(T)
BY DEF ManagersOf

LEMMA ManagersOfPart ==
  ASSUME NEW S, NEW T, S \subseteq T
  PROVE  ManagersOf(S) \subseteq ManagersOf(T)
BY DEF ManagersOf

LEMMA RpcConn ==
  ASSUME RTypeOK, ConnInv, RpcNext
  PROVE  ConnInv'
<1> USE RealtimeAssumption DEF Client
<1>0. /\ subs \subseteq Client \X Topic /\ listening \subseteq RpcClient \X Topic
      /\ conn \in [Client -> {"none", "open", "hung"}]
  BY DEF RTypeOK
<1>1. ASSUME NEW c \in RpcClient, RpcConnect(c) \/ RpcHangs(c)
      PROVE  ConnInv'
  <2>1. \A d \in Client : conn'[d] = "none" => conn[d] = "none"
    BY <1>0, <1>1 DEF RpcConnect, RpcHangs
  <2>2. UNCHANGED <<subs, listening, live>>
    BY <1>1 DEF RpcConnect, RpcHangs
  <2>3. NoneIdle'
    BY <1>0, <2>1, <2>2 DEF ConnInv, NoneIdle
  <2> QED BY <2>2, <2>3 DEF ConnInv, AllHeard, LiveHeard, ManagersOf
<1>2. ASSUME NEW c \in RpcClient, RpcClose(c)
      PROVE  ConnInv'
  <2>1. /\ conn' = [conn EXCEPT ![c] = "none"]
        /\ subs' = subs \ CloseListeners(c)
        /\ listening' = listening \ CloseListeners(c)
        /\ live' = live \ ManagersOf(CloseListeners(c))
    BY <1>2 DEF RpcClose, RemoveSubscription
  <2>2. \A p \in subs' \cup listening' : p[1] # c
    BY <2>1 DEF CloseListeners, ConnInv, AllHeard
  <2>3. NoneIdle'
    BY <1>0, <2>1, <2>2 DEF ConnInv, NoneIdle
  <2>4. AllHeard'
    BY <2>1, <2>2 DEF ConnInv, AllHeard
  <2>5. LiveHeard'
    <3>1. listening = listening' \cup CloseListeners(c)
      BY <2>1 DEF CloseListeners
    <3>2. ManagersOf(listening) = ManagersOf(listening') \cup ManagersOf(CloseListeners(c))
      BY <3>1, ManagersOfUnion
    <3>3. LiveHeard' <=> live' \subseteq ManagersOf(listening')
      BY DEF LiveHeard, ManagersOf
    <3> QED BY <2>1, <3>2, <3>3 DEF ConnInv, LiveHeard
  <2> QED BY <2>3, <2>4, <2>5 DEF ConnInv
<1>3. ASSUME NEW c \in RpcClient, Pong(c)
      PROVE  ConnInv'
  <2>1. /\ live' = live \cup ManagersOf({p \in listening : p[1] = c})
        /\ UNCHANGED <<conn, subs, listening>>
    BY <1>3 DEF Pong
  <2>2. ManagersOf({p \in listening : p[1] = c}) \subseteq ManagersOf(listening)
    BY ManagersOfPart
  <2>3. LiveHeard'
    BY <2>1, <2>2 DEF ConnInv, LiveHeard, ManagersOf
  <2> QED BY <2>1, <2>3 DEF ConnInv, NoneIdle, AllHeard
<1>4. ASSUME NEW c \in RpcClient, NEW t \in Interest[c], AddSubscription(c, t)
      PROVE  ConnInv'
  <2>1. /\ conn[c] = "open" /\ conn' = conn
        /\ subs' = subs \cup {<<c, t>>}
        /\ listening' = listening \cup {<<c, t>>}
        /\ live' = live \cup ManagersOf({<<c, t>>})
    BY <1>4 DEF AddSubscription
  <2>2. NoneIdle'
    BY <2>1 DEF ConnInv, NoneIdle
  <2>3. AllHeard'
    BY <2>1 DEF ConnInv, AllHeard
  <2>4. LiveHeard'
    <3>1. ManagersOf(listening') = ManagersOf(listening) \cup ManagersOf({<<c, t>>})
      BY <2>1, ManagersOfUnion
    <3>2. LiveHeard' <=> live' \subseteq ManagersOf(listening')
      BY DEF LiveHeard, ManagersOf
    <3> QED BY <2>1, <3>1, <3>2 DEF ConnInv, LiveHeard
  <2> QED BY <2>2, <2>3, <2>4 DEF ConnInv
<1>5. ASSUME subs' \subseteq subs, live' \subseteq live, UNCHANGED <<conn, listening>>
      PROVE  ConnInv'
  BY <1>5 DEF ConnInv, NoneIdle, AllHeard, LiveHeard, ManagersOf
<1>6. ASSUME NEW c \in RpcClient, NEW t \in Interest[c], Unsubscribe(c, t) \/ SendTimesOut(c, t)
      PROVE  ConnInv'
  BY <1>5, <1>6 DEF Unsubscribe, SendTimesOut, RemoveSubscription
<1>7. ASSUME NEW m \in Manager, Tick(m)
      PROVE  ConnInv'
  BY <1>5, <1>7 DEF Tick, RemoveSubscription, LiveAfterTick
<1>8. ASSUME NEW c \in RpcClient, NEW t \in Interest[c], SendEnds(c, t)
      PROVE  ConnInv'
  BY <1>5, <1>8 DEF SendEnds
<1> QED BY <1>1, <1>2, <1>3, <1>4, <1>6, <1>7, <1>8 DEF RpcNext

LEMMA IoConn ==
  ASSUME RTypeOK, ConnInv, IoNext
  PROVE  ConnInv'
<1> USE RealtimeAssumption DEF Client
<1>1. PICK c \in IoClient : \/ IoDisconnect(c)
                            \/ \E topics \in SUBSET Interest[c] : IoConnect(c, topics)
                            \/ \E t \in Interest[c] : IoSubscribe(c, t) \/ IoUnsubscribe(c, t)
  BY DEF IoNext
<1>2. /\ subs \subseteq Client \X Topic /\ listening \subseteq RpcClient \X Topic
      /\ conn \in [Client -> {"none", "open", "hung"}] /\ c \notin RpcClient
  BY DEF RTypeOK
<1>3. UNCHANGED <<listening, live>> /\ \A p \in subs' \ subs : p[1] = c
  BY <1>1 DEF IoDisconnect, IoConnect, IoSubscribe, IoUnsubscribe, RemoveSubscription
<1>4. \A d \in Client : d # c => conn'[d] = conn[d]
  BY <1>1, <1>2 DEF IoDisconnect, IoConnect, IoSubscribe, IoUnsubscribe
<1>5. \/ conn'[c] = "open"
      \/ \A p \in subs' : p[1] # c
  BY <1>1, <1>2 DEF IoDisconnect, IoConnect, IoSubscribe, IoUnsubscribe, RemoveSubscription
<1>6. \A p \in subs' \cup listening' : p[1] \in Client
  BY <1>2, <1>3
<1>7. NoneIdle'
  BY <1>2, <1>3, <1>4, <1>5, <1>6, ZenonT(30) DEF ConnInv, NoneIdle
<1>8. AllHeard'
  BY <1>2, <1>3 DEF ConnInv, AllHeard
<1>9. LiveHeard'
  BY <1>3 DEF ConnInv, LiveHeard, ManagersOf
<1> QED BY <1>7, <1>8, <1>9 DEF ConnInv

\* The transmitter leaves connections and subscriptions alone.
LEMMA QueueKeepsClients ==
  ASSUME [RNext]_rvars, ~ClientStep
  PROVE  UNCHANGED <<conn, subs, listening, live, beating, pinged>>
<1>1. CASE QueueStep \/ StartTask \/ TaskTimesOut
  BY <1>1 DEF QueueStep, Notified, NotificationLost, StartTask, TaskTimesOut, clientVars
<1>2. CASE TaskStep
  BY <1>2 DEF TaskStep, Query, SkipStage, Send, NotFound, QueryFails, Without, clientVars
<1>3. CASE UNCHANGED rvars
  BY <1>3 DEF rvars, clientVars
<1> QED BY <1>1, <1>2, <1>3, StepKinds

LEMMA ConnStep ==
  ASSUME RTypeOK, ConnInv, [RNext]_rvars
  PROVE  ConnInv'
<1>1. CASE ClientStep
  BY <1>1, RpcConn, IoConn DEF ClientStep
<1>2. CASE ~ClientStep
  BY <1>2, QueueKeepsClients DEF ConnInv, NoneIdle, AllHeard, LiveHeard, ManagersOf
<1> QED BY <1>1, <1>2

LEMMA ConnInvariant == RSpec => []ConnInv
<1>1. RInit => ConnInv
  BY DEF RInit, ConnInv, NoneIdle, AllHeard, LiveHeard
<1>2. RTypeOK /\ ConnInv /\ [RNext]_rvars => ConnInv'
  BY ConnStep
<1> QED BY <1>1, <1>2, RealtimeTypeCorrect, PTL DEF RSpec

\* A socket that closed is in no subscription and in no liveSockets set,
\* whatever pongs and unsubscriptions came before.
THEOREM ClosedIsForgotten == RSpec => []ClosedLeavesNothing
<1>1. RTypeOK /\ ConnInv => ClosedLeavesNothing
  <2> SUFFICES ASSUME RTypeOK, ConnInv, NEW c \in RpcClient, conn[c] = "none",
                      NEW q \in subs \cup live
               PROVE  q[1] # c
    BY DEF ClosedLeavesNothing
  <2>1. CASE q \in subs
    BY <2>1 DEF ConnInv, NoneIdle
  <2>2. CASE q \in live
    <3>1. PICK p \in listening : q = <<p[1], ManagerOf[p[2]]>>
      BY <2>2 DEF ConnInv, LiveHeard, ManagersOf
    <3> QED BY <3>1 DEF ConnInv, NoneIdle
  <2> QED BY <2>1, <2>2
<1> QED BY <1>1, RealtimeTypeCorrect, ConnInvariant, PTL
-----------------------------------------------------------------------------
(* What subscribers are owed. *)

Pair == Client \X Topic

\* Whoever leaves a topic is owed nothing on it.
OwedSubscribed == \A p \in Pair : owed[p] > 0 => p \in subs

\* No one is owed a version that was not committed.
OwedCommitted ==
  \A p \in Pair, e \in Event : p[2] \in TopicsOf(e) => owed[p] <= version[e]

\* The queue q has an event that will be sent on t, as version v or later.
Waits(q, t, v) ==
  \E i \in DOMAIN q : /\ t \in TopicsOf(q[i].event)
                      /\ q[i].event \in ById => q[i].version >= v

Later(task, t) ==
  \E i \in task.stage .. Len(StagesOf[task.event]) : StagesOf[task.event][i] = t

\* What the handler has read is no older than v, if it decides about topic t.
\* A handler that ends when its first query finds nothing decides about all.
Fresh(task, t, v) ==
  /\ task.phase = "send" /\ \/ task.event \in OneQuery \/ t = TopicOf(task)
                            \/ task.event \in EndsIfMissing /\ task.stage = 1
       => task.read >= v
  /\ task.event \in ById => task.version >= v

Sends(task, t, v) == Later(task, t) /\ Fresh(task, t, v)

UnderWay ==
  \A p \in Pair :
    owed[p] > 0 /\ conn[p[1]] = "open" =>
      Waits(waiting, p[2], owed[p]) \/ \E task \in Tasks : Sends(task, p[2], owed[p])

OwedInv == OwedSubscribed /\ OwedCommitted /\ UnderWay

\* Clients come and go: debts only end with a subscription.
LEMMA ClientOwed ==
  ASSUME RTypeOK, ClientStep
  PROVE  /\ UNCHANGED queueVars
         /\ \A p \in Pair : owed'[p] = owed[p] \/ owed'[p] = 0
         /\ \A p \in Pair : owed'[p] > 0 /\ p \in subs => p \in subs'
         /\ \A c \in Client : conn'[c] = "open" => conn[c] \in {"open", "none"}
<1>1. UNCHANGED queueVars
  BY RpcTypes, IoTypes DEF ClientStep
<1>2. \/ owed' = owed /\ subs \subseteq subs'
      \/ \E pairs : RemoveSubscription(pairs)
  <2>1. CASE RpcNext
    BY <2>1 DEF RpcNext, RpcConnect, RpcHangs, RpcClose, Pong, AddSubscription, Unsubscribe,
                SendEnds, SendTimesOut, Tick
  <2>2. CASE IoNext
    BY <2>2 DEF IoNext, IoDisconnect, IoConnect, IoSubscribe, IoUnsubscribe
  <2> QED BY <2>1, <2>2 DEF ClientStep
<1>3. \A p \in Pair : /\ owed'[p] = owed[p] \/ owed'[p] = 0
                      /\ owed'[p] > 0 /\ p \in subs => p \in subs'
  <2>1. CASE owed' = owed /\ subs \subseteq subs'
    BY <2>1
  <2>2. ASSUME NEW pairs, RemoveSubscription(pairs)
        PROVE  \A p \in Pair : /\ owed'[p] = owed[p] \/ owed'[p] = 0
                               /\ owed'[p] > 0 /\ p \in subs => p \in subs'
    <3>1. \A p \in Pair : owed'[p] = IF p \in pairs THEN 0 ELSE owed[p]
      BY <2>2, RemoveTypes DEF Pair
    <3>2. subs' = subs \ pairs
      BY <2>2 DEF RemoveSubscription
    <3> QED BY <3>1, <3>2
  <2> QED BY <1>2, <2>1, <2>2
<1>4. \A c \in Client : conn'[c] = "open" => conn[c] \in {"open", "none"}
  <2>1. conn \in [Client -> {"none", "open", "hung"}]
    BY DEF RTypeOK
  <2>2. \/ conn' = conn
        \/ \E d \in Client : conn' = [conn EXCEPT ![d] = "open"] /\ conn[d] = "none"
        \/ \E d \in Client : conn' = [conn EXCEPT ![d] = "hung"]
        \/ \E d \in Client : conn' = [conn EXCEPT ![d] = "none"]
    <3>1. CASE RpcNext
      BY <3>1 DEF RpcNext, RpcConnect, RpcHangs, RpcClose, Pong, AddSubscription, Unsubscribe,
                  SendEnds, SendTimesOut, Tick, Client
    <3>2. CASE IoNext
      BY <3>2 DEF IoNext, IoDisconnect, IoConnect, IoSubscribe, IoUnsubscribe, Client
    <3> QED BY <3>1, <3>2 DEF ClientStep
  <2> QED BY <2>1, <2>2
<1> QED BY <1>1, <1>3, <1>4

\* The handlers that are left when one of them moves on.
LEMMA BecomesTasks ==
  ASSUME NEW task \in Tasks, NEW next, Becomes(task, next)
  PROVE  /\ Tasks \ {task} \subseteq Tasks'
         /\ next # NoTask => next \in Tasks'
BY DEF Becomes, Tasks

\* A handler that goes on to its next stage sends what is due later.
LEMMA NextStageSends ==
  ASSUME NEW task \in Task, NEW t, NEW v, Sends(task, t, v), t # TopicOf(task)
  PROVE  NextStage(task) \in Task /\ Sends(NextStage(task), t, v)
<1>1. PICK i \in task.stage .. Len(StagesOf[task.event]) : StagesOf[task.event][i] = t
  BY DEF Sends, Later
<1>2. task.stage \in Nat /\ Len(StagesOf[task.event]) \in Nat /\ task.event \in Event
  BY RealtimeAssumption DEF Task
<1>3. i # task.stage
  BY <1>1 DEF TopicOf
<1>4. /\ NextStage(task) \in Task
      /\ NextStage(task).event = task.event
      /\ NextStage(task).version = task.version
      /\ NextStage(task).stage = task.stage + 1
      /\ IF task.event \in OneQuery
           THEN /\ NextStage(task).phase = task.phase
                /\ NextStage(task).read = task.read
           ELSE NextStage(task).phase = "check"
  BY <1>1, <1>2, <1>3, NextStageTypes
<1>5. Later(NextStage(task), t)
  BY <1>1, <1>2, <1>3, <1>4 DEF Later
<1>6. Fresh(NextStage(task), t, v)
  BY <1>4 DEF Sends, Fresh
<1> QED BY <1>4, <1>5, <1>6 DEF Sends

\* A handler gives up only on what it settles.
LEMMA TaskUnderWay ==
  ASSUME RTypeOK, OwedInv, NEW task \in Tasks, NEW p \in Pair,
         \/ Query(task) \/ SkipStage(task) \/ Send(task)
         \/ NotFound(task) \/ QueryFails(task),
         owed'[p] > 0, conn[p[1]] = "open", Sends(task, p[2], owed[p])
  PROVE  \E next \in Tasks' : Sends(next, p[2], owed[p])
<1>1. task \in Task
  BY TasksAreTasks
<1>2. /\ task.event \in Event /\ task.read \in Nat /\ owed[p] \in Nat
      /\ task.stage \in 1 .. Len(StagesOf[task.event]) /\ p[2] \in Topic /\ p[1] \in Client
      /\ p = <<p[1], p[2]>>
  BY <1>1 DEF Task, RTypeOK, Pair
<1>3. p[2] # TopicOf(task) /\ Becomes(task, NextStage(task)) =>
        \E next \in Tasks' : Sends(next, p[2], owed[p])
  BY <1>1, NextStageSends, BecomesTasks, NoTaskAssumption
<1>4. ASSUME NEW pairs, Settle(pairs, task.read), p \in pairs
      PROVE  task.read < owed[p]
  BY <1>2, <1>4, SettleOwed DEF Pair
<1>5. CASE Query(task)
  <2> DEFINE found == IF task.event \in ById THEN task.version ELSE version[task.event]
             next == [task EXCEPT !.phase = "send", !.read = found]
  <2>1. Becomes(task, next)
    BY <1>5 DEF Query
  <2>2. /\ next.event = task.event /\ next.version = task.version /\ next.stage = task.stage
        /\ next.phase = "send" /\ next.read = found
    BY <1>1 DEF Task
  <2>3. Later(next, p[2])
    BY <2>2 DEF Sends, Later
  <2>4. p[2] \in TopicsOf(task.event)
    <3>1. PICK i \in task.stage .. Len(StagesOf[task.event]) : StagesOf[task.event][i] = p[2]
      BY DEF Sends, Later
    <3>2. StagesOf[task.event] \in Seq(Topic)
      BY <1>2, RealtimeAssumption
    <3> QED BY <1>2, <3>1, <3>2 DEF TopicsOf
  <2>5. found >= owed[p]
    BY <1>2, <2>4 DEF Sends, Fresh, OwedInv, OwedCommitted, RTypeOK
  <2>6. Fresh(next, p[2], owed[p])
    BY <2>2, <2>5 DEF Sends, Fresh
  <2>7. next # NoTask
    <3>1. found \in Nat /\ found <= MaxVersion[task.event]
      BY <1>1 DEF Task, RTypeOK
    <3>2. next \in Task
      BY <1>1, <3>1 DEF Task
    <3> QED BY <3>2, NoTaskAssumption
  <2> HIDE DEF next
  <2> QED BY <2>1, <2>3, <2>6, <2>7, BecomesTasks DEF Sends
<1>6. CASE SkipStage(task)
  <2>1. p \in subs
    <3>1. \A q \in Pair : owed'[q] = owed[q]
      BY <1>6 DEF SkipStage
    <3> QED BY <3>1 DEF OwedInv, OwedSubscribed
  <2>2. p[2] # TopicOf(task)
    BY <1>2, <1>6, <2>1 DEF SkipStage, HasListeners
  <2> QED BY <1>3, <1>6, <2>2 DEF SkipStage
<1>7. CASE Send(task)
  <2>1. p \in subs
    <3>1. \A q \in Pair : owed'[q] > 0 => owed[q] > 0
      <4>1. PICK pairs : Settle(pairs, task.read)
        BY <1>7 DEF Send
      <4> QED BY <1>2, <4>1, SettleOwed DEF Pair
    <3> QED BY <3>1 DEF OwedInv, OwedSubscribed
  <2>2. ASSUME p[2] = TopicOf(task) PROVE FALSE
    <3> DEFINE pairs == {q \in Subscribers(TopicOf(task)) : conn[q[1]] = "open"}
    <3>1. Settle(pairs, task.read) /\ task.phase = "send"
      BY <1>7 DEF Send
    <3>2. p \in pairs
      BY <2>1, <2>2 DEF Subscribers
    <3>3. task.read >= owed[p]
      BY <2>2, <3>1 DEF Sends, Fresh
    <3> QED BY <1>2, <1>4, <3>1, <3>2, <3>3
  <2> QED BY <1>3, <1>7, <2>2 DEF Send
<1>8. CASE NotFound(task) \/ QueryFails(task)
  <2>1. task.phase = "send"
    BY <1>8 DEF NotFound, QueryFails
  <2>2. \/ /\ Becomes(task, NextStage(task))
           /\ Settle(Client \X {TopicOf(task)}, task.read)
        \/ /\ task.event \in OneQuery \/ (task.event \in EndsIfMissing /\ task.stage = 1)
           /\ Settle(Client \X {StagesOf[task.event][i] :
                                    i \in task.stage .. Len(StagesOf[task.event])}, task.read)
    BY <1>8 DEF NotFound, QueryFails, Without
  <2>3. ASSUME p[2] = TopicOf(task), Settle(Client \X {TopicOf(task)}, task.read) PROVE FALSE
    <3>1. p \in Client \X {TopicOf(task)}
      BY <1>2, <2>3
    <3>2. task.read >= owed[p]
      BY <2>1, <2>3 DEF Sends, Fresh
    <3> QED BY <1>2, <1>4, <2>3, <3>1, <3>2
  <2>4. ASSUME task.event \in OneQuery \/ (task.event \in EndsIfMissing /\ task.stage = 1),
               Settle(Client \X {StagesOf[task.event][i] :
                                    i \in task.stage .. Len(StagesOf[task.event])}, task.read)
        PROVE  FALSE
    <3>1. p \in Client \X {StagesOf[task.event][i] :
                              i \in task.stage .. Len(StagesOf[task.event])}
      BY <1>2 DEF Sends, Later
    <3>2. task.read >= owed[p]
      BY <2>1, <2>4 DEF Sends, Fresh
    <3> QED BY <1>2, <1>4, <2>4, <3>1, <3>2
  <2> QED BY <1>3, <2>2, <2>3, <2>4
<1> QED BY <1>5, <1>6, <1>7, <1>8
\* Every kind of step keeps what is owed under way.
LEMMA OwedClientStep ==
  ASSUME RTypeOK, ConnInv, OwedInv, ClientStep
  PROVE  OwedInv'
<1>1. /\ \A p \in Pair : owed'[p] = owed[p] \/ owed'[p] = 0
      /\ \A p \in Pair : owed'[p] > 0 /\ p \in subs => p \in subs'
      /\ \A c \in Client : conn'[c] = "open" => conn[c] \in {"open", "none"}
      /\ version' = version /\ waiting' = waiting /\ Tasks' = Tasks
  BY ClientOwed DEF queueVars, Tasks
<1>2. \A p \in Pair : p[1] \in Client /\ owed[p] \in Nat
  BY DEF Pair, RTypeOK
<1>3. OwedSubscribed'
  BY <1>1 DEF OwedInv, OwedSubscribed
<1>4. OwedCommitted'
  <2>1. \A e \in Event : 0 <= version[e]
    BY DEF RTypeOK
  <2> QED BY <1>1, <2>1 DEF OwedInv, OwedCommitted
<1>5. UnderWay'
  <2> SUFFICES ASSUME NEW p \in Pair, owed'[p] > 0, conn'[p[1]] = "open"
               PROVE  \/ Waits(waiting', p[2], owed'[p])
                      \/ \E task \in Tasks' : Sends(task, p[2], owed'[p])
    BY DEF UnderWay, Pair, Client, Waits, Sends, Later, Fresh, TopicOf, TopicsOf
  <2>1. owed'[p] = owed[p]
    BY <1>1
  <2>2. conn[p[1]] = "open"
    BY <1>1, <1>2, <2>1 DEF OwedInv, OwedSubscribed, ConnInv, NoneIdle
  <2> QED BY <1>1, <2>1, <2>2 DEF OwedInv, UnderWay
<1> QED BY <1>3, <1>4, <1>5 DEF OwedInv

LEMMA OwedTaskStep ==
  ASSUME RTypeOK, OwedInv, TaskStep
  PROVE  OwedInv'
<1>1. PICK task \in Tasks : \/ Query(task) \/ SkipStage(task) \/ Send(task)
                            \/ NotFound(task) \/ QueryFails(task)
  BY DEF TaskStep
<1>2. task.read \in Nat
  BY TasksAreTasks DEF Task
<1>3. \A p \in Pair : owed'[p] = owed[p] \/ owed'[p] = 0
  <2>1. CASE Query(task) \/ SkipStage(task)
    BY <2>1 DEF Query, SkipStage
  <2>2. CASE Send(task) \/ NotFound(task) \/ QueryFails(task)
    <3>1. \E pairs : Settle(pairs, task.read)
      BY <2>2 DEF Send, NotFound, QueryFails, Without
    <3> QED BY <1>2, <3>1, SettleOwed DEF Pair
  <2> QED BY <1>1, <2>1, <2>2
<1>4. /\ UNCHANGED <<conn, subs, version, waiting>>
      /\ Tasks \ {task} \subseteq Tasks'
  <2>1. \E next : Becomes(task, next)
    BY <1>1 DEF Query, SkipStage, Send, NotFound, QueryFails, Without
  <2>2. UNCHANGED <<conn, subs>>
    BY <1>1 DEF Query, SkipStage, Send, NotFound, QueryFails, Without, clientVars
  <2> QED BY <2>1, <2>2, BecomesTasks DEF Becomes
<1>5. OwedSubscribed'
  BY <1>3, <1>4 DEF OwedInv, OwedSubscribed
<1>6. OwedCommitted'
  <2>1. \A e \in Event : 0 <= version[e]
    BY DEF RTypeOK
  <2> QED BY <1>3, <1>4, <2>1 DEF OwedInv, OwedCommitted
<1>7. UnderWay'
  <2> SUFFICES ASSUME NEW p \in Pair, owed'[p] > 0, conn'[p[1]] = "open"
               PROVE  \/ Waits(waiting', p[2], owed'[p])
                      \/ \E next \in Tasks' : Sends(next, p[2], owed'[p])
    BY DEF UnderWay, Pair, Client, Waits, Sends, Later, Fresh, TopicOf, TopicsOf
  <2>1. owed'[p] = owed[p] /\ conn[p[1]] = "open"
    BY <1>3, <1>4
  <2>2. \/ Waits(waiting, p[2], owed[p])
        \/ \E other \in Tasks \ {task} : Sends(other, p[2], owed[p])
        \/ Sends(task, p[2], owed[p])
    BY <2>1 DEF OwedInv, UnderWay
  <2> QED BY <1>1, <1>4, <2>1, <2>2, TaskUnderWay
<1> QED BY <1>5, <1>6, <1>7 DEF OwedInv

LEMMA OwedQueueStep ==
  ASSUME RTypeOK, OwedInv, QueueStep
  PROVE  OwedInv'
<1>1. PICK e \in Event : Notified(e) \/ NotificationLost(e)
  BY DEF QueueStep
<1>2. /\ UNCHANGED <<conn, subs>> /\ Tasks' = Tasks
      /\ version' = [version EXCEPT ![e] = @ + 1]
  BY <1>1 DEF Notified, NotificationLost, Committed, clientVars, Tasks
<1>3. /\ version \in [Event -> Nat] /\ owed \in [Pair -> Nat] /\ waiting \in Seq(Item)
  BY DEF RTypeOK, Pair, Item
<1>4. /\ version'[e] = version[e] + 1
      /\ \A f \in Event : version'[f] \in Nat /\ version'[f] >= version[f]
  BY <1>2, <1>3
<1>5. CASE NotificationLost(e)
  <2>1. owed' = owed /\ waiting' = waiting
    BY <1>5 DEF NotificationLost
  <2>2. OwedSubscribed' /\ OwedCommitted'
    <3>1. \A p \in Pair, f \in Event : owed[p] <= version[f] => owed[p] <= version'[f]
      BY <1>3, <1>4
    <3> QED BY <1>2, <2>1, <3>1 DEF OwedInv, OwedSubscribed, OwedCommitted
  <2>3. UnderWay'
    BY <1>2, <2>1, ZenonT(30) DEF OwedInv, UnderWay, Waits, Sends, Later, Fresh, TopicOf, TopicsOf
  <2> QED BY <2>2, <2>3 DEF OwedInv
<1>6. CASE Notified(e)
  <2> DEFINE item == [event |-> e, version |-> Named(e, version'[e])]
             Told(p) == p \in subs /\ p[2] \in TopicsOf(e)
  <2>1. waiting' = Append(waiting, item) /\ item \in Item
    BY <1>4, <1>6 DEF Notified, Named, Item
  <2>2. item.event = e /\ (e \in ById => item.version = version'[e])
    BY DEF Named
  <2>3. \A p \in Pair : owed'[p] = IF Told(p) THEN version'[e] ELSE owed[p]
    BY <1>3, <1>6 DEF Notified
  <2> HIDE DEF item
  <2>4. /\ Len(waiting) + 1 \in DOMAIN waiting' /\ waiting'[Len(waiting) + 1] = item
        /\ \A i \in DOMAIN waiting : i \in DOMAIN waiting' /\ waiting'[i] = waiting[i]
    BY <1>3, <2>1, Appending
  <2>5. OwedSubscribed'
    BY <1>2, <2>3 DEF OwedInv, OwedSubscribed
  <2>6. OwedCommitted'
    <3> SUFFICES ASSUME NEW p \in Pair, NEW f \in Event, p[2] \in TopicsOf(f)
                 PROVE  owed'[p] <= version'[f]
      BY DEF OwedCommitted, Pair, Client, TopicsOf
    <3>1. CASE Told(p)
      <4>1. f = e
        BY <3>1, RealtimeAssumption
      <4> QED BY <1>4, <2>3, <3>1, <4>1
    <3>2. CASE ~Told(p)
      BY <1>3, <1>4, <2>3, <3>2 DEF OwedInv, OwedCommitted
    <3> QED BY <3>1, <3>2
  <2>7. UnderWay'
    <3> SUFFICES ASSUME NEW p \in Pair, owed'[p] > 0, conn'[p[1]] = "open"
                 PROVE  \/ Waits(waiting', p[2], owed'[p])
                        \/ \E task \in Tasks' : Sends(task, p[2], owed'[p])
      BY DEF UnderWay, Pair, Client, Waits, Sends, Later, Fresh, TopicOf, TopicsOf
    <3>1. CASE Told(p)
      BY <1>4, <2>2, <2>3, <2>4, <3>1 DEF Waits
    <3>2. CASE ~Told(p)
      <4>1. owed'[p] = owed[p] /\ conn[p[1]] = "open"
        BY <1>2, <2>3, <3>2
      <4>2. Waits(waiting, p[2], owed[p]) => Waits(waiting', p[2], owed[p])
        BY <2>4 DEF Waits
      <4> QED BY <1>2, <4>1, <4>2 DEF OwedInv, UnderWay
    <3> QED BY <3>1, <3>2
  <2> QED BY <2>5, <2>6, <2>7 DEF OwedInv
<1> QED BY <1>1, <1>5, <1>6

LEMMA OwedStartStep ==
  ASSUME RTypeOK, OwedInv, StartTask
  PROVE  OwedInv'
<1>1. /\ UNCHANGED <<conn, subs, version, owed, overdue>>
      /\ current = NoTask /\ waiting # <<>> /\ waiting' = Tail(waiting)
  BY DEF StartTask, clientVars
<1>2. waiting \in Seq(Item)
  BY DEF RTypeOK, Item
<1>3. current' \in Task
  <2>1. RTypeOK'
    BY QueueTypesStep
  <2>2. current' = [event |-> Head(waiting).event, version |-> Head(waiting).version,
                    stage |-> 1, phase |-> "check", read |-> 0]
    BY DEF StartTask
  <2>3. Head(waiting) \in Item /\ Head(waiting) = waiting[1] /\ 1 \in DOMAIN waiting
    BY <1>1, <1>2, TakingHead
  <2>4. StagesOf[Head(waiting).event] \in Seq(Topic) \ {<<>>}
    BY <2>3, RealtimeAssumption DEF Item
  <2>5. 1 \in 1 .. Len(StagesOf[Head(waiting).event])
    BY <2>4
  <2>6. Head(waiting).version <= MaxVersion[Head(waiting).event]
    BY <2>3 DEF RTypeOK
  <2>7. 0 <= MaxVersion[Head(waiting).event]
    BY <2>3, RealtimeAssumption DEF Item
  <2> QED BY <2>2, <2>3, <2>5, <2>6, <2>7 DEF Task, Item
<1>4. Tasks \cup {current'} \subseteq Tasks'
  BY <1>1, <1>3, NoTaskAssumption DEF Tasks
<1>5. OwedSubscribed' /\ OwedCommitted'
  BY <1>1 DEF OwedInv, OwedSubscribed, OwedCommitted
<1>6. UnderWay'
  <2> SUFFICES ASSUME NEW p \in Pair, owed[p] > 0, conn[p[1]] = "open"
               PROVE  \/ Waits(waiting', p[2], owed[p])
                      \/ \E task \in Tasks' : Sends(task, p[2], owed[p])
    BY <1>1 DEF UnderWay, Pair, Client, Waits, Sends, Later, Fresh, TopicOf, TopicsOf
  <2>1. CASE \E task \in Tasks : Sends(task, p[2], owed[p])
    BY <1>4, <2>1
  <2>2. CASE Waits(waiting, p[2], owed[p])
    <3>1. PICK i \in DOMAIN waiting : /\ p[2] \in TopicsOf(waiting[i].event)
                                      /\ waiting[i].event \in ById => waiting[i].version >= owed[p]
      BY <2>2 DEF Waits
    <3>2. CASE i = 1
      <4>1. /\ current'.event = waiting[1].event /\ current'.version = waiting[1].version
            /\ current'.stage = 1 /\ current'.phase = "check"
        BY <1>1, <1>2, TakingHead DEF StartTask
      <4>2. waiting[1].event \in Event
        <5>1. waiting[1] \in Item
          BY <1>1, <1>2, TakingHead
        <5> QED BY <5>1 DEF Item
      <4>3. StagesOf[waiting[1].event] \in Seq(Topic)
        BY <4>2, RealtimeAssumption
      <4>4. Later(current', p[2])
        BY <3>1, <3>2, <4>1, <4>3 DEF Later, TopicsOf
      <4>5. Fresh(current', p[2], owed[p])
        BY <3>1, <3>2, <4>1 DEF Fresh
      <4> QED BY <1>4, <4>4, <4>5 DEF Sends
    <3>3. CASE i # 1
      <4>1. i - 1 \in DOMAIN waiting' /\ waiting'[i - 1] = waiting[i]
        BY <1>1, <1>2, <3>3, TakingHead
      <4> QED BY <3>1, <4>1 DEF Waits
    <3> QED BY <3>2, <3>3
  <2> QED BY <2>1, <2>2 DEF OwedInv, UnderWay
<1> QED BY <1>5, <1>6 DEF OwedInv

LEMMA OwedStep ==
  ASSUME RTypeOK, ConnInv, OwedInv, [RNext]_rvars
  PROVE  OwedInv'
<1>1. CASE TaskTimesOut
  <2>1. UNCHANGED <<conn, subs, version, waiting, owed>> /\ Tasks' = Tasks
    BY <1>1 DEF TaskTimesOut, clientVars, Tasks
  <2> QED BY <2>1 DEF OwedInv, OwedSubscribed, OwedCommitted, UnderWay,
                      Waits, Sends, Later, Fresh, TopicOf, TopicsOf
<1>2. CASE UNCHANGED rvars
  <2>1. UNCHANGED <<conn, subs, version, waiting, owed>> /\ Tasks' = Tasks
    BY <1>2 DEF rvars, clientVars, queueVars, Tasks
  <2> QED BY <2>1 DEF OwedInv, OwedSubscribed, OwedCommitted, UnderWay,
                      Waits, Sends, Later, Fresh, TopicOf, TopicsOf
<1> QED BY <1>1, <1>2, StepKinds, OwedClientStep, OwedTaskStep, OwedQueueStep, OwedStartStep

\* Whoever was subscribed when a change was notified gets it, or something
\* newer: a handler that will send it waits or runs.  However many handlers
\* are overdue, and whatever they read, none of them takes the debt away
\* without sending.
THEOREM OwedIsSent == RSpec => []OwedIsUnderWay
<1>1. RInit => OwedInv
  BY RealtimeAssumption DEF RInit, OwedInv, OwedSubscribed, OwedCommitted, UnderWay, Pair
<1>2. RTypeOK /\ ConnInv /\ OwedInv /\ [RNext]_rvars => OwedInv'
  BY OwedStep
<1>3. OwedInv => OwedIsUnderWay
  BY DEF OwedInv, UnderWay, OwedIsUnderWay, WillSend, Pair, Waits, Sends, Later, Fresh
<1> QED BY <1>1, <1>2, <1>3, RealtimeTypeCorrect, ConnInvariant, PTL DEF RSpec
-----------------------------------------------------------------------------
(* The ping loops. *)

\* A subscriber that answers, with one topic of this manager, is live or has
\* a pong under way.
Answering ==
  \A p \in subs : p[1] \in RpcClient /\ conn[p[1]] = "open" /\ OnlyTopic(p) =>
    <<p[1], ManagerOf[p[2]]>> \in live \cup pinged

Asked == \A p \in subs : p[2] \in Interest[p[1]]

PingInv == Answering /\ Asked

\* The one topic of a client is the first that a round visits.
LEMMA TickKeepsOpen ==
  ASSUME RTypeOK, PingInv, NEW m \in Manager, Tick(m),
         NEW p \in subs, p[1] \in RpcClient, conn[p[1]] = "open", OnlyTopic(p),
         ManagerOf[p[2]] = m
  PROVE  /\ <<p[1], m>> \in live
         /\ p \in subs'
         /\ <<p[1], m>> \in pinged'
<1>1. p \in RpcSubs(m)
  BY DEF RpcSubs
<1>2. <<p[1], m>> \notin pinged
  BY DEF Tick
<1>3. <<p[1], m>> \in live
  BY <1>2 DEF PingInv, Answering
<1> DEFINE clients == {q[1] : q \in RpcSubs(m)}
           alive == {c \in clients : <<c, m>> \in live}
<1>4. PICK first \in [clients -> Topic] :
        /\ \A c \in clients : <<c, first[c]>> \in RpcSubs(m)
        /\ RemoveSubscription({q \in RpcSubs(m) : q[1] \notin alive \/ q[2] # first[q[1]]})
  BY DEF Tick
<1>5. p[1] \in alive
  BY <1>1, <1>3
<1>6. p[2] = first[p[1]]
  <2>1. <<p[1], first[p[1]]>> \in subs /\ ManagerOf[first[p[1]]] = m
    BY <1>1, <1>4 DEF RpcSubs
  <2>2. first[p[1]] \in Interest[p[1]] /\ p[2] \in Interest[p[1]]
    BY <2>1 DEF PingInv, Asked
  <2> QED BY <2>1, <2>2 DEF OnlyTopic
<1>7. p \in subs'
  BY <1>4, <1>5, <1>6 DEF RemoveSubscription
<1>8. <<p[1], m>> \in pinged'
  BY <1>5 DEF Tick
<1> QED BY <1>3, <1>7, <1>8
LEMMA PingRpcStep ==
  ASSUME RTypeOK, ConnInv, PingInv, RpcNext
  PROVE  PingInv'
<1> USE RealtimeAssumption DEF Client
<1>0. /\ subs \subseteq Client \X Topic /\ listening \subseteq RpcClient \X Topic
      /\ conn \in [Client -> {"none", "open", "hung"}]
  BY DEF RTypeOK
<1>1. ASSUME NEW c \in RpcClient, RpcConnect(c)
      PROVE  PingInv'
  <2>1. /\ conn[c] = "none" /\ conn' = [conn EXCEPT ![c] = "open"]
        /\ UNCHANGED <<subs, live, pinged>>
    BY <1>1 DEF RpcConnect
  <2>2. \A p \in subs : p[1] # c
    BY <2>1 DEF ConnInv, NoneIdle
  <2>3. \A p \in subs : conn'[p[1]] = conn[p[1]]
    BY <1>0, <2>1, <2>2
  <2> QED BY <2>1, <2>3 DEF PingInv, Answering, Asked
<1>2. ASSUME NEW c \in RpcClient, RpcHangs(c)
      PROVE  PingInv'
  <2>1. /\ conn' = [conn EXCEPT ![c] = "hung"] /\ pinged' = {p \in pinged : p[1] # c}
        /\ UNCHANGED <<subs, live>>
    BY <1>2 DEF RpcHangs
  <2>2. conn'[c] = "hung" /\ \A d \in Client : d # c => conn'[d] = conn[d]
    BY <1>0, <2>1
  <2>3. Answering'
    BY <1>0, <2>1, <2>2 DEF PingInv, Answering
  <2> QED BY <2>1, <2>3 DEF PingInv, Asked
<1>3. ASSUME NEW c \in RpcClient, RpcClose(c)
      PROVE  PingInv'
  <2>1. /\ conn' = [conn EXCEPT ![c] = "none"]
        /\ subs' = subs \ CloseListeners(c)
        /\ live' = live \ ManagersOf(CloseListeners(c))
        /\ pinged' = {p \in pinged : p[1] # c}
    BY <1>3 DEF RpcClose, RemoveSubscription
  <2>2. \A p \in subs' : p[1] # c
    BY <2>1 DEF CloseListeners, ConnInv, AllHeard
  <2>3. \A q \in ManagersOf(CloseListeners(c)) : q[1] = c
    BY DEF ManagersOf, CloseListeners
  <2>4. \A p \in subs' : conn'[p[1]] = conn[p[1]]
    BY <1>0, <2>1, <2>2
  <2>5. Answering'
    <3> SUFFICES ASSUME NEW p \in subs', p[1] \in RpcClient, conn'[p[1]] = "open",
                        OnlyTopic(p)
                 PROVE  <<p[1], ManagerOf[p[2]]>> \in live' \cup pinged'
      BY DEF Answering
    <3>1. <<p[1], ManagerOf[p[2]]>> \in live \cup pinged
      BY <2>1, <2>4 DEF PingInv, Answering
    <3> QED BY <2>1, <2>2, <2>3, <3>1
  <2> QED BY <2>1, <2>5 DEF PingInv, Asked
<1>4. ASSUME NEW c \in RpcClient, Pong(c)
      PROVE  PingInv'
  <2>1. /\ live' = live \cup ManagersOf({p \in listening : p[1] = c})
        /\ pinged' = {p \in pinged : p[1] # c}
        /\ UNCHANGED <<conn, subs>>
    BY <1>4 DEF Pong
  <2>2. \A p \in subs : p[1] = c => <<p[1], ManagerOf[p[2]]>> \in live'
    <3>1. \A p \in subs : p[1] = c => p \in listening
      BY DEF ConnInv, AllHeard
    <3> QED BY <2>1, <3>1 DEF ManagersOf
  <2>3. Answering'
    BY <2>1, <2>2 DEF PingInv, Answering
  <2> QED BY <2>1, <2>3 DEF PingInv, Asked
<1>5. ASSUME NEW c \in RpcClient, NEW t \in Interest[c], AddSubscription(c, t)
      PROVE  PingInv'
  <2>1. /\ subs' = subs \cup {<<c, t>>} /\ live' = live \cup {<<c, ManagerOf[t]>>}
        /\ UNCHANGED <<conn, pinged>>
    BY <1>5 DEF AddSubscription, ManagersOf
  <2> QED BY <2>1 DEF PingInv, Answering, Asked
<1>6. ASSUME NEW c \in RpcClient, NEW t \in Interest[c], Unsubscribe(c, t) \/ SendTimesOut(c, t)
      PROVE  PingInv'
  <2>1. /\ subs' = subs \ {<<c, t>>} /\ live' = live \ {<<c, ManagerOf[t]>>}
        /\ UNCHANGED <<conn, pinged>>
    BY <1>6 DEF Unsubscribe, SendTimesOut, RemoveSubscription, ManagersOf
  <2>2. \A p \in subs' : p[1] = c /\ OnlyTopic(p) => ManagerOf[p[2]] # ManagerOf[t]
    <3> SUFFICES ASSUME NEW p \in subs', p[1] = c, OnlyTopic(p),
                        ManagerOf[p[2]] = ManagerOf[t]
                 PROVE  FALSE
      OBVIOUS
    <3>1. p \in subs /\ p = <<p[1], p[2]>> /\ p # <<c, t>>
      BY <1>0, <2>1
    <3>2. p[2] = t
      BY DEF OnlyTopic
    <3> QED BY <3>1, <3>2
  <2>3. Answering'
    BY <2>1, <2>2 DEF PingInv, Answering
  <2> QED BY <2>1, <2>3 DEF PingInv, Asked
<1>7. ASSUME NEW m \in Manager, Tick(m)
      PROVE  PingInv'
  <2>1. PICK pairs : subs' = subs \ pairs
    BY <1>7 DEF Tick, RemoveSubscription
  <2>2. /\ \A q \in live : q[2] # m => q \in live'
        /\ pinged \subseteq pinged' /\ conn' = conn
    BY <1>7 DEF Tick, LiveAfterTick
  <2>3. Answering'
    <3> SUFFICES ASSUME NEW p \in subs', p[1] \in RpcClient, conn[p[1]] = "open",
                        OnlyTopic(p)
                 PROVE  <<p[1], ManagerOf[p[2]]>> \in live' \cup pinged'
      BY <2>2 DEF Answering
    <3>1. p \in subs /\ <<p[1], ManagerOf[p[2]]>> \in live \cup pinged
      BY <2>1 DEF PingInv, Answering
    <3>2. CASE ManagerOf[p[2]] = m
      BY <1>7, <3>1, <3>2, TickKeepsOpen
    <3>3. CASE ManagerOf[p[2]] # m
      BY <2>2, <3>1, <3>3
    <3> QED BY <3>2, <3>3
  <2> QED BY <2>1, <2>2, <2>3 DEF PingInv, Asked
<1>8. ASSUME NEW c \in RpcClient, NEW t \in Interest[c], SendEnds(c, t)
      PROVE  PingInv'
  BY <1>8 DEF SendEnds, PingInv, Answering, Asked
<1> QED BY <1>1, <1>2, <1>3, <1>4, <1>5, <1>6, <1>7, <1>8 DEF RpcNext

LEMMA PingIoStep ==
  ASSUME RTypeOK, PingInv, IoNext
  PROVE  PingInv'
<1> USE RealtimeAssumption DEF Client
<1>1. PICK c \in IoClient : \/ IoDisconnect(c)
                            \/ \E topics \in SUBSET Interest[c] : IoConnect(c, topics)
                            \/ \E t \in Interest[c] : IoSubscribe(c, t) \/ IoUnsubscribe(c, t)
  BY DEF IoNext
<1>2. /\ subs \subseteq Client \X Topic
      /\ conn \in [Client -> {"none", "open", "hung"}] /\ c \notin RpcClient
  BY DEF RTypeOK
<1>3. /\ UNCHANGED <<live, pinged>>
      /\ \A p \in subs' \ subs : p[1] = c /\ p[2] \in Interest[c]
      /\ \A p \in subs \ subs' : p[1] = c
  BY <1>1 DEF IoDisconnect, IoConnect, IoSubscribe, IoUnsubscribe, RemoveSubscription
<1>4. \A d \in RpcClient : conn'[d] = conn[d]
  BY <1>1, <1>2 DEF IoDisconnect, IoConnect, IoSubscribe, IoUnsubscribe
<1>5. Answering'
  BY <1>2, <1>3, <1>4 DEF PingInv, Answering
<1>6. Asked'
  BY <1>3 DEF PingInv, Asked
<1> QED BY <1>5, <1>6 DEF PingInv

LEMMA PingStep ==
  ASSUME RTypeOK, ConnInv, PingInv, [RNext]_rvars
  PROVE  PingInv'
<1>1. CASE ClientStep
  BY <1>1, PingRpcStep, PingIoStep DEF ClientStep
<1>2. CASE ~ClientStep
  <2>1. UNCHANGED <<conn, subs, live, pinged>>
    BY <1>2, QueueKeepsClients
  <2> QED BY <2>1 DEF PingInv, Answering, Asked
<1> QED BY <1>1, <1>2

\* "Client did not respond to a previous ping, it's dead": a client that
\* answers every ping, and asks for one topic of a manager, loses that
\* subscription only by its own request or by a send it is too slow for.
\* However topics are spread over managers, no round of any ping loop and
\* nothing another client does takes it away.
THEOREM OnlyTopicKept == RSpec => OnlyTopicIsKept
<1>1. RInit => PingInv
  BY DEF RInit, PingInv, Answering, Asked
<1>2. RTypeOK /\ ConnInv /\ PingInv /\ [RNext]_rvars => PingInv'
  BY PingStep
<1>3. RTypeOK /\ ConnInv /\ PingInv /\ [RNext]_rvars =>
        [\A p \in subs \ subs' :
           p[1] \in RpcClient /\ conn'[p[1]] = "open" /\ OnlyTopic(p) =>
             Unsubscribe(p[1], p[2]) \/ SendTimesOut(p[1], p[2])]_rvars
  <2> SUFFICES ASSUME RTypeOK, ConnInv, PingInv, RNext, NEW p \in subs \ subs',
                      p[1] \in RpcClient, conn'[p[1]] = "open", OnlyTopic(p)
               PROVE  Unsubscribe(p[1], p[2]) \/ SendTimesOut(p[1], p[2])
    OBVIOUS
  <2> USE RealtimeAssumption DEF Client
  <2>0. /\ p = <<p[1], p[2]>> /\ p[2] \in Topic /\ conn \in [Client -> {"none", "open", "hung"}]
    BY DEF RTypeOK
  <2>1. ClientStep
    BY QueueKeepsClients
  <2>2. CASE IoNext
    <3>1. PICK c \in IoClient : \/ IoDisconnect(c)
                                \/ \E topics \in SUBSET Interest[c] : IoConnect(c, topics)
                                \/ \E t \in Interest[c] : IoSubscribe(c, t) \/ IoUnsubscribe(c, t)
      BY <2>2 DEF IoNext
    <3>2. p[1] = c
      BY <3>1 DEF IoDisconnect, IoConnect, IoSubscribe, IoUnsubscribe, RemoveSubscription
    <3> QED BY <3>2
  <2>3. CASE \E c \in RpcClient : RpcConnect(c) \/ RpcHangs(c) \/ Pong(c)
    BY <2>3 DEF RpcConnect, RpcHangs, Pong
  <2>4. CASE \E c \in RpcClient : RpcClose(c)
    BY <2>0, <2>4 DEF RpcClose, RemoveSubscription, CloseListeners
  <2>5. CASE \E c \in RpcClient : \E t \in Interest[c] : AddSubscription(c, t)
    BY <2>5 DEF AddSubscription
  <2>6. ASSUME NEW c \in RpcClient, NEW t \in Interest[c],
               Unsubscribe(c, t) \/ SendTimesOut(c, t)
        PROVE  Unsubscribe(p[1], p[2]) \/ SendTimesOut(p[1], p[2])
    <3>1. p = <<c, t>>
      BY <2>6 DEF Unsubscribe, SendTimesOut, RemoveSubscription
    <3> QED BY <2>6, <3>1
  <2>7. CASE \E c \in RpcClient : \E t \in Interest[c] : SendEnds(c, t)
    BY <2>7 DEF SendEnds
  <2>8. ASSUME NEW m \in Manager, Tick(m)
        PROVE  FALSE
    <3>1. conn' = conn /\ \A q \in subs \ subs' : ManagerOf[q[2]] = m
      BY <2>8 DEF Tick, RemoveSubscription, RpcSubs
    <3> QED BY <2>8, <3>1, TickKeepsOpen
  <2> QED BY <2>1, <2>2, <2>3, <2>4, <2>5, <2>6, <2>7, <2>8 DEF ClientStep, RpcNext
<1> QED BY <1>1, <1>2, <1>3, RealtimeTypeCorrect, ConnInvariant, PTL
        DEF RSpec, OnlyTopicIsKept
=============================================================================
