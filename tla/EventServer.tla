---------------------------- MODULE EventServer ----------------------------
(***************************************************************************)
(* How messages of the Stacks node reach the store: the routes of          *)
(* src/event-stream/event-server.ts, their queue of concurrency 1, the raw *)
(* log event_observer_requests, and a node that announces one message at a *)
(* time and repeats it until it gets a 200.                                *)
(*                                                                         *)
(* A route adds two tasks to the queue one after the other: the handler of *)
(* the message and, when that has resolved, the insertion in the raw log;  *)
(* the answer is sent after the second.  A node that stopped waiting sends *)
(* the message again while the first request is still worked on.           *)
(***************************************************************************)
EXTENDS Burnchain, Sequences

LOCAL INSTANCE SequencesExt

CONSTANTS
  NoMessage,   \* the node is not waiting
  BurnParent,  \* the burn block before a burn block
  MaxTasks     \* bound: requests the server works on at once

Message == Block \cup BurnBlock

ASSUME ServerAssumption ==
  /\ NoMessage \notin Message
  /\ BurnParent \in [BurnBlock -> BurnBlock \cup {NoBurnBlock}]
  /\ MaxTasks \in Nat \ {0}

VARIABLES
  node,       \* the message the node waits for an answer to
  acked,      \* the messages it got a 200 for
  queue,      \* the tasks of the PQueue; the first one is running
  importing,  \* requests for block 1 in handleBnsImport
  stage,      \* how far the running burn block handler is
  log         \* event_observer_requests, without repeated rows

serverVars == <<node, acked, queue, importing, stage, log>>
evars == <<vars, burnVars, serverVars>>

\* A task of a request: open as long as the node waits for its answer.
Task(step, m, open) == [step |-> step, msg |-> m, open |-> open]

ETypeOK ==
  /\ TypeOK /\ BurnTypeOK
  /\ node \in Message \cup {NoMessage}
  /\ acked \subseteq Message
  /\ queue \in Seq([step : {"handle", "raw"}, msg : Message, open : BOOLEAN])
  /\ importing \subseteq [step : {"raw"}, msg : Message, open : BOOLEAN]
  /\ stage \in {"rewards", "slots", "height"}
  /\ log \in Seq(Message)

EInit ==
  /\ Init /\ BurnInit
  /\ node = NoMessage
  /\ acked = {}
  /\ queue = <<>>
  /\ importing = {}
  /\ stage = "rewards"
  /\ log = <<>>

Logged == {log[i] : i \in DOMAIN log}

Running(step) == queue # <<>> /\ Head(queue).step = step
Current == Head(queue).msg

-----------------------------------------------------------------------------
(* The node (external). *)

\* A block is announced after its parent and its burn block, a burn block
\* after its parent.  A message may be announced again at any later time.
MayAnnounce(m) ==
  IF m \in Block
    THEN Parent[m] \in acked \cup {NoBlock}
         /\ BurnOf[m] \in acked \cup {NoBurnBlock}
    ELSE BurnParent[m] \in acked \cup {NoBurnBlock} /\ Genesis \in acked

NodeSends(m) ==
  /\ node = NoMessage
  /\ Len(queue) + Cardinality(importing) < MaxTasks
  /\ MayAnnounce(m)
  /\ node' = m
  /\ queue' = Append(queue, Task("handle", m, TRUE))
  /\ UNCHANGED <<vars, burnVars, acked, importing, stage, log>>

Hangup(tasks) == [i \in DOMAIN tasks |-> [tasks[i] EXCEPT !.open = FALSE]]

NodeResends ==
  /\ node # NoMessage
  /\ Len(queue) + Cardinality(importing) < MaxTasks
  /\ queue' = Append(Hangup(queue), Task("handle", node, TRUE))
  /\ importing' = {[t EXCEPT !.open = FALSE] : t \in importing}
  /\ UNCHANGED <<vars, burnVars, node, acked, stage, log>>

\* Whether some request the node waits on is still worked on.
Waiting == \E t \in ToSet(queue) \cup importing : t.open

\* An answer other than 200, or none because the server died.
NodeRetries == ~Waiting /\ NodeResends

\* The node's own timeout, or a lost connection.
NodeTimesOut == Waiting /\ NodeResends

-----------------------------------------------------------------------------
(* The routes. *)

\* The 200 of a request the node still waits for.
AnswersAfter_Handle(task) == task.step = "handle" /\ task.open

AnswersAfter_NewRow(task) ==
  task.step = "raw" /\ task.open /\ task.msg \notin Logged

AnswersAfter(task) == task.step = "raw" /\ task.open

Answer(task) ==
  IF AnswersAfter(task)
    THEN node' = NoMessage /\ acked' = acked \cup {task.msg}
    ELSE UNCHANGED <<node, acked>>

AfterImport_Handles(task) ==
  IF task.msg \in Block /\ Height[task.msg] = 1
    THEN task
    ELSE [task EXCEPT !.step = "raw"]

\* What a route does with a request whose handler, and import, are done.
AfterImport(task) == [task EXCEPT !.step = "raw"]

\* The handler resolved: the route of a block of height 1 imports the BNS v1
\* data before it logs the request, the others log it next.
HandlerResolved ==
  LET task == Head(queue)
      raw == AfterImport(task)
      imports == task.msg \in Block /\ Height[task.msg] = 1
  IN /\ queue' = IF imports THEN Tail(queue) ELSE Append(Tail(queue), raw)
     /\ importing' = IF imports THEN importing \cup {raw} ELSE importing
     /\ Answer(task)
     /\ stage' = "rewards"
     /\ UNCHANGED log

AfterRejection_Logs(tasks) ==
  Append(Tail(tasks), [Head(tasks) EXCEPT !.step = "raw"])

\* A rejected task ends its route with a 500.
AfterRejection(tasks) == Tail(tasks)

TaskRejected ==
  /\ queue' = AfterRejection(queue)
  /\ stage' = "rewards"
  /\ UNCHANGED <<node, acked, importing, log>>

\* /new_block: handleBlockMessage around update()
BlockBegins ==
  /\ Running("handle") /\ Current \in Block
  /\ WBeginUpdate(Current)
  /\ UNCHANGED serverVars

BlockRestores == WRestoreOrphanedChain /\ UNCHANGED serverVars

BlockCommits == WCommitUpdate /\ HandlerResolved

BlockFails == WAbortUpdate /\ TaskRejected

\* /new_burn_block: handleBurnBlockMessage
BurnStage(s) == Running("handle") /\ Current \in BurnBlock /\ stage = s

BurnRewards ==
  /\ BurnStage("rewards")
  /\ UpdateBurnchainRewards(Current)
  /\ stage' = "slots"
  /\ UNCHANGED <<vars, node, acked, queue, importing, log>>

BurnSlots ==
  /\ BurnStage("slots")
  /\ UpdateBurnchainRewardSlotHolders(Current)
  /\ stage' = "height"
  /\ UNCHANGED <<vars, node, acked, queue, importing, log>>

BurnTip ==
  /\ BurnStage("height")
  /\ UpdateBurnChainBlockHeight(Current)
  /\ HandlerResolved
  /\ UNCHANGED vars

BurnFails ==
  /\ Running("handle") /\ Current \in BurnBlock
  /\ TaskRejected
  /\ UNCHANGED <<vars, burnVars>>

\* handleBnsImport, outside of the queue
BnsImported(task) ==
  /\ importing' = importing \ {task}
  /\ queue' = Append(queue, task)
  /\ UNCHANGED <<vars, burnVars, node, acked, stage, log>>

BnsImportFails(task) ==
  /\ importing' = importing \ {task}
  /\ UNCHANGED <<vars, burnVars, node, acked, queue, stage, log>>

\* storeRawEventRequest, and the answer of the route
StoreRawEventRequest ==
  /\ Running("raw")
  /\ log' = IF Current \in Logged THEN log ELSE Append(log, Current)
  /\ queue' = Tail(queue)
  /\ Answer(Head(queue))
  /\ UNCHANGED <<vars, burnVars, importing, stage>>

RawFails ==
  /\ Running("raw")
  /\ queue' = Tail(queue)
  /\ UNCHANGED <<vars, burnVars, node, acked, importing, stage, log>>

\* The process dies with its queue; an open transaction is rolled back.
Crash ==
  /\ queue # <<>> \/ importing # {}
  /\ queue' = <<>>
  /\ importing' = {}
  /\ stage' = "rewards"
  /\ job' = Idle
  /\ work' = Committed
  /\ demoted' = {}
  /\ UNCHANGED <<dbVars, rewards, slots, burnHeight, node, acked, log>>

-----------------------------------------------------------------------------
ServerWorks ==
  \/ BlockBegins \/ BlockRestores \/ BlockCommits
  \/ BurnRewards \/ BurnSlots \/ BurnTip
  \/ StoreRawEventRequest

Fault ==
  \/ BlockFails \/ BurnFails \/ RawFails
  \/ \E t \in importing : BnsImportFails(t)
  \/ NodeTimesOut
  \/ Crash

Regular ==
  \/ \E m \in Message : NodeSends(m)
  \/ NodeRetries
  \/ ServerWorks
  \/ \E t \in importing : BnsImported(t)

ENext == Regular \/ Fault

\* The node repeats an announcement until it is answered; the async tasks of
\* the server run on; and at some time the failures and timeouts end.
EFairness ==
  /\ WF_evars(NodeRetries)
  /\ WF_evars(ServerWorks)
  /\ WF_evars(\E t \in importing : BnsImported(t))
  /\ <>[][Regular]_evars

ESpec == EInit /\ [][ENext]_evars /\ EFairness

-----------------------------------------------------------------------------
(* Properties. *)

\* A message the node was told is done, and will not repeat, is in the store
\* and in the raw log, whatever crashed, failed or was sent twice before.
AckedIsDurable ==
  \A m \in acked :
    /\ m \in Logged
    /\ m \in Block => m \in blocks

\* The tip that replaying the raw log would give: of the highest blocks, the
\* one that is first in the log.
ReplayedTip ==
  LET above == {i \in DOMAIN log : log[i] \in Block /\ Height[log[i]] > 0}
      first == CHOOSE i \in above : \A j \in above :
                 /\ Height[log[j]] <= Height[log[i]]
                 /\ Height[log[j]] = Height[log[i]] => i <= j
  IN IF above = {} THEN NoBlock ELSE log[first]

\* Once the server is idle and the node has its answer, an event replay of
\* the raw log ends at the chain tip the live store has: re-deliveries never
\* put rival blocks in the log in another order than they were applied in.
ReplayGivesSameTip ==
  node = NoMessage /\ queue = <<>> /\ importing = {} => ReplayedTip = tip.block

\* Every announcement is answered: no order of timeouts, repeated requests,
\* failures and crashes leaves the node repeating a message for ever.
NodeIsAnswered == node # NoMessage ~> node = NoMessage

=============================================================================
