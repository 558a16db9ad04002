------------------------- MODULE EventServerProofs -------------------------
(***************************************************************************)
(* Proofs about EventServer, for every tree of blocks, every burn chain    *)
(* and any number of requests at once.                                     *)
(***************************************************************************)
EXTENDS EventServer, BurnchainReads, ChainStoreProofs, SequenceTheorems, TLAPS

TaskSet == [step : {"handle", "raw"}, msg : Message, open : BOOLEAN]

\* A block whose handler resolved is among the stored ones, B.
Done(m, B) == m \in Block => m \in B

RawDone(q, B) == \A i \in DOMAIN q : q[i].step = "raw" => Done(q[i].msg, B)

\* A request is logged after its handler resolved, wherever it waits until
\* then: in the queue, or in the import of block 1.
WaitingInv ==
  /\ queue \in Seq(TaskSet)
  /\ importing \subseteq TaskSet
  /\ log \in Seq(Message)
  /\ RawDone(queue, blocks)
  /\ \A t \in importing : t.step = "raw" /\ Done(t.msg, blocks)
  /\ \A m \in Logged : Done(m, blocks)

\* The open transaction belongs to the task at the head of the queue.
HeadInv ==
  /\ DOMAIN job = {"phase", "block", "cursor"}
  /\ job.phase # "idle" => /\ queue # <<>>
                           /\ Head(queue).step = "handle"
                           /\ Head(queue).msg = job.block
                           /\ job.block \in Block

DurableInv == WaitingInv /\ HeadInv /\ acked \subseteq Logged

-----------------------------------------------------------------------------
\* A message keeps its place when others are logged.
LEMMA LogGrows ==
  ASSUME log \in Seq(Message), NEW m \in Message, log' = Append(log, m)
  PROVE  log' \in Seq(Message) /\ Logged' = Logged \cup {m}
<1>1. log' \in Seq(Message)
  OBVIOUS
<1>2. Logged' = Logged \cup {m}
  BY DEF Logged
<1> QED BY <1>1, <1>2

LEMMA AppendKeeps ==
  ASSUME NEW B, NEW q \in Seq(TaskSet), NEW task \in TaskSet
  PROVE  /\ Append(q, task) \in Seq(TaskSet)
         /\ RawDone(q, B) /\ (task.step = "raw" => Done(task.msg, B)) => RawDone(Append(q, task), B)
         /\ q # <<>> => Append(q, task) # <<>> /\ Head(Append(q, task)) = Head(q)
<1>1. Append(q, task) \in Seq(TaskSet)
  OBVIOUS
<1>2. \A i \in DOMAIN Append(q, task) :
        Append(q, task)[i] = task \/ (i \in DOMAIN q /\ Append(q, task)[i] = q[i])
  OBVIOUS
<1>3. q # <<>> => Append(q, task) # <<>> /\ Head(Append(q, task)) = Head(q)
  OBVIOUS
<1> QED BY <1>1, <1>2, <1>3 DEF RawDone

LEMMA TailKeeps ==
  ASSUME NEW B, NEW q \in Seq(TaskSet), q # <<>>
  PROVE  Head(q) \in TaskSet /\ Tail(q) \in Seq(TaskSet) /\ (RawDone(q, B) => RawDone(Tail(q), B))
<1>1. Head(q) \in TaskSet /\ Tail(q) \in Seq(TaskSet)
  OBVIOUS
<1>2. \A i \in DOMAIN Tail(q) : i + 1 \in DOMAIN q /\ Tail(q)[i] = q[i + 1]
  OBVIOUS
<1> QED BY <1>1, <1>2 DEF RawDone

\* A request that lost its connection goes on.
LEMMA HangupKeeps ==
  ASSUME NEW B, NEW q \in Seq(TaskSet)
  PROVE  /\ Hangup(q) \in Seq(TaskSet)
         /\ RawDone(q, B) => RawDone(Hangup(q), B)
         /\ q # <<>> => /\ Hangup(q) # <<>>
                        /\ Head(Hangup(q)).step = Head(q).step
                        /\ Head(Hangup(q)).msg = Head(q).msg
<1>1. \A i \in DOMAIN q : q[i] \in TaskSet
  OBVIOUS
<1>2. /\ Hangup(q) \in Seq(TaskSet) /\ DOMAIN Hangup(q) = DOMAIN q
      /\ Len(Hangup(q)) = Len(q)
  <2>1. Hangup(q) \in [1 .. Len(q) -> TaskSet] /\ Len(q) \in Nat /\ DOMAIN q = 1 .. Len(q)
    <3>1. Len(q) \in Nat /\ DOMAIN q = 1 .. Len(q)
      OBVIOUS
    <3>2. ASSUME NEW i \in DOMAIN q PROVE [q[i] EXCEPT !.open = FALSE] \in TaskSet
      BY <1>1 DEF TaskSet
    <3> HIDE DEF TaskSet
    <3> QED BY <3>1, <3>2 DEF Hangup
  <2> HIDE DEF Hangup
  <2>2. Hangup(q) \in Seq(TaskSet)
    BY <2>1, SeqDef
  <2> QED BY <2>1, <2>2
<1>3. \A i \in DOMAIN q : Hangup(q)[i].step = q[i].step /\ Hangup(q)[i].msg = q[i].msg
  BY <1>1 DEF Hangup, TaskSet
<1>4. RawDone(q, B) => RawDone(Hangup(q), B)
  BY <1>2, <1>3 DEF RawDone
<1>5. q # <<>> => /\ Hangup(q) # <<>>
                  /\ Head(Hangup(q)).step = Head(q).step
                  /\ Head(Hangup(q)).msg = Head(q).msg
  BY <1>2, <1>3
<1> QED BY <1>2, <1>4, <1>5

\* Blocks are never taken out of the table.
LEMMA DoneStays ==
  ASSUME NEW B, NEW C, B \subseteq C
  PROVE  /\ \A m : Done(m, B) => Done(m, C)
         /\ \A q : RawDone(q, B) => RawDone(q, C)
BY DEF RawDone, Done

-----------------------------------------------------------------------------
(* The steps. *)

\* The node sends a message, or sends it again.
LEMMA NodeStep ==
  ASSUME DurableInv, \/ \E m \in Message : NodeSends(m)
                     \/ node \in Message /\ NodeResends
  PROVE  DurableInv'
<1>1. /\ queue \in Seq(TaskSet) /\ importing \subseteq TaskSet /\ RawDone(queue, blocks)
  BY DEF DurableInv, WaitingInv
<1> DEFINE Grown == /\ queue' \in Seq(TaskSet) /\ RawDone(queue', blocks)
                    /\ queue # <<>> => /\ queue' # <<>>
                                       /\ Head(queue').step = Head(queue).step
                                       /\ Head(queue').msg = Head(queue).msg
<1>2. Grown
  <2>1. ASSUME NEW m \in Message
        PROVE  Task("handle", m, TRUE) \in TaskSet /\ Task("handle", m, TRUE).step # "raw"
    BY DEF Task, TaskSet
  <2>2. ASSUME NEW m \in Message, NodeSends(m)
        PROVE  Grown
    BY <1>1, <2>1, <2>2, AppendKeeps DEF NodeSends
  <2>3. ASSUME node \in Message, NodeResends
        PROVE  Grown
    <3>1. /\ Hangup(queue) \in Seq(TaskSet) /\ RawDone(Hangup(queue), blocks)
          /\ queue # <<>> => /\ Hangup(queue) # <<>>
                             /\ Head(Hangup(queue)).step = Head(queue).step
                             /\ Head(Hangup(queue)).msg = Head(queue).msg
      BY <1>1, HangupKeeps
    <3>2. queue' = Append(Hangup(queue), Task("handle", node, TRUE))
      BY <2>3 DEF NodeResends
    <3> QED BY <2>1, <2>3, <3>1, <3>2, AppendKeeps
  <2> QED BY <2>2, <2>3
<1>3. /\ UNCHANGED <<blocks, job, acked, log>>
      /\ importing' = importing \/ importing' = {[t EXCEPT !.open = FALSE] : t \in importing}
  BY DEF NodeSends, NodeResends, vars
<1>4. /\ importing' \subseteq TaskSet
      /\ \A t \in importing' : t.step = "raw" /\ Done(t.msg, blocks)
  BY <1>1, <1>3 DEF DurableInv, WaitingInv, TaskSet
<1>5. Logged' = Logged
  BY <1>3 DEF Logged
<1>6. WaitingInv'
  BY <1>2, <1>3, <1>4, <1>5 DEF DurableInv, WaitingInv
<1>7. HeadInv'
  BY <1>2, <1>3 DEF DurableInv, HeadInv
<1> QED BY <1>3, <1>5, <1>6, <1>7 DEF DurableInv

\* The handler at the head resolved: its message waits to be logged.
LEMMA ResolvedStep ==
  ASSUME DurableInv, Running("handle"), HandlerResolved,
         blocks \subseteq blocks', Done(Current, blocks'),
         job'.phase = "idle", DOMAIN job' = {"phase", "block", "cursor"}
  PROVE  DurableInv'
<1> DEFINE task == Head(queue)
           raw == AfterImport(task)
<1>1. /\ queue \in Seq(TaskSet) /\ queue # <<>>
      /\ task \in TaskSet /\ task.step = "handle"
      /\ Tail(queue) \in Seq(TaskSet) /\ RawDone(Tail(queue), blocks')
  BY TailKeeps, DoneStays DEF DurableInv, WaitingInv, Running
<1>2. raw \in TaskSet /\ raw.step = "raw" /\ Done(raw.msg, blocks')
  BY <1>1 DEF AfterImport, TaskSet, Current
<1>3. /\ queue' = Tail(queue) \/ queue' = Append(Tail(queue), raw)
      /\ importing' \subseteq importing \cup {raw}
      /\ UNCHANGED <<node, acked, log>>
  BY <1>1 DEF HandlerResolved, Answer, AnswersAfter
<1>4. queue' \in Seq(TaskSet) /\ RawDone(queue', blocks')
  <2> HIDE DEF raw
  <2> QED BY <1>1, <1>2, <1>3, AppendKeeps
<1>5. \A t \in importing' : t \in TaskSet /\ t.step = "raw" /\ Done(t.msg, blocks')
  <2> HIDE DEF raw
  <2> QED BY <1>2, <1>3, DoneStays DEF DurableInv, WaitingInv
<1>6. Logged' = Logged /\ \A m \in Logged : Done(m, blocks')
  BY <1>3, DoneStays DEF Logged, DurableInv, WaitingInv
<1>7. WaitingInv'
  BY <1>3, <1>4, <1>5, <1>6 DEF WaitingInv, DurableInv
<1>8. HeadInv'
  BY DEF HeadInv
<1> QED BY <1>3, <1>6, <1>7, <1>8 DEF DurableInv

\* A task ends without a trace: its route answers with a 500.
LEMMA RejectedStep ==
  ASSUME DurableInv, queue # <<>>, queue' = Tail(queue),
         UNCHANGED <<blocks, acked, importing, log>>,
         job'.phase = "idle", DOMAIN job' = {"phase", "block", "cursor"}
  PROVE  DurableInv'
<1>1. queue' \in Seq(TaskSet) /\ RawDone(queue', blocks)
  BY TailKeeps DEF DurableInv, WaitingInv
<1>2. Logged' = Logged
  BY DEF Logged
<1>3. WaitingInv' /\ HeadInv'
  BY <1>1, <1>2 DEF DurableInv, WaitingInv, HeadInv
<1> QED BY <1>2, <1>3 DEF DurableInv

LEMMA ServerStep ==
  ASSUME DurableInv, ServerWorks
  PROVE  DurableInv'
<1> USE BlockAssumption, BurnAssumption
<1>1. CASE BlockBegins
  <2>1. /\ UNCHANGED <<blocks, queue, importing, log, acked>>
        /\ queue # <<>> /\ Head(queue).step = "handle" /\ Head(queue).msg \in Block
        /\ DOMAIN job' = {"phase", "block", "cursor"}
        /\ job'.block = Head(queue).msg
    BY <1>1 DEF BlockBegins, WBeginUpdate, BeginUpdate, serverVars, Running, Current
  <2>2. HeadInv'
    BY <2>1 DEF HeadInv
  <2> QED BY <2>1, <2>2 DEF DurableInv, WaitingInv, Logged
<1>2. CASE BlockRestores
  <2>1. /\ UNCHANGED <<blocks, queue, importing, log, acked>>
        /\ job.phase # "idle"
        /\ DOMAIN job' = DOMAIN job /\ job'.block = job.block
    BY <1>2 DEF BlockRestores, WRestoreOrphanedChain, RestoreOrphanedChain, dbVars,
                serverVars, DurableInv, HeadInv
  <2>2. HeadInv'
    BY <2>1 DEF DurableInv, HeadInv
  <2> QED BY <2>1, <2>2 DEF DurableInv, WaitingInv, Logged
<1>3. CASE BlockCommits
  <2>1. /\ job.phase = "insert" /\ job' = Idle /\ blocks' = blocks \cup {job.block}
        /\ HandlerResolved
    BY <1>3 DEF BlockCommits, WCommitUpdate, CommitUpdate
  <2>2. Running("handle") /\ Current = job.block
    BY <2>1 DEF DurableInv, HeadInv, Running, Current
  <2>3. Done(Current, blocks') /\ blocks \subseteq blocks'
    BY <2>1, <2>2 DEF Done
  <2>4. job'.phase = "idle" /\ DOMAIN job' = {"phase", "block", "cursor"}
    BY <2>1 DEF Idle
  <2> QED BY <2>1, <2>2, <2>3, <2>4, ResolvedStep
<1>4. CASE BurnRewards \/ BurnSlots
  <2>1. UNCHANGED <<blocks, job, queue, importing, log, acked>>
    BY <1>4 DEF BurnRewards, BurnSlots, vars
  <2> QED BY <2>1 DEF DurableInv, WaitingInv, HeadInv, Logged
<1>5. CASE BurnTip
  <2>1. /\ Running("handle") /\ Current \in BurnBlock
        /\ HandlerResolved /\ UNCHANGED <<blocks, job>>
    BY <1>5 DEF BurnTip, BurnStage, vars
  <2>2. job.phase = "idle" /\ Done(Current, blocks)
    BY <2>1 DEF DurableInv, HeadInv, Current, Done
  <2> QED BY <2>1, <2>2, ResolvedStep DEF DurableInv, HeadInv
<1>6. CASE StoreRawEventRequest
  <2>1. /\ queue # <<>> /\ Head(queue).step = "raw" /\ queue' = Tail(queue)
        /\ UNCHANGED <<blocks, job, importing>>
        /\ log' = IF Current \in Logged THEN log ELSE Append(log, Current)
        /\ acked' \subseteq acked \cup {Current}
    BY <1>6 DEF StoreRawEventRequest, Running, Answer, vars, Current
  <2>2. /\ Head(queue) \in TaskSet /\ queue' \in Seq(TaskSet) /\ RawDone(queue', blocks)
        /\ Head(queue) = queue[1] /\ 1 \in DOMAIN queue
    BY <2>1, TailKeeps DEF DurableInv, WaitingInv
  <2>3. Current \in Message /\ Done(Current, blocks)
    BY <2>1, <2>2 DEF Current, TaskSet, DurableInv, WaitingInv, RawDone
  <2>4. log' \in Seq(Message) /\ Logged' = Logged \cup {Current}
    <3>1. CASE Current \in Logged
      BY <2>1, <3>1 DEF Logged, DurableInv, WaitingInv
    <3>2. CASE Current \notin Logged
      BY <2>1, <2>3, <3>2, LogGrows DEF DurableInv, WaitingInv
    <3> QED BY <3>1, <3>2
  <2>5. WaitingInv'
    BY <2>1, <2>2, <2>3, <2>4 DEF DurableInv, WaitingInv
  <2>6. HeadInv'
    BY <2>1 DEF DurableInv, HeadInv
  <2> QED BY <2>1, <2>4, <2>5, <2>6 DEF DurableInv
<1> QED BY <1>1, <1>2, <1>3, <1>4, <1>5, <1>6 DEF ServerWorks

\* DurableInv is inductive.
LEMMA DurableStep == DurableInv /\ (node \in Message \cup {NoMessage})
                       /\ [ENext]_evars => DurableInv'
<1> SUFFICES ASSUME DurableInv, node \in Message \cup {NoMessage}, [ENext]_evars
             PROVE  DurableInv'
  OBVIOUS
<1> USE BlockAssumption, BurnAssumption, ServerAssumption
<1>1. ASSUME NEW m \in Message, NodeSends(m) PROVE DurableInv'
  BY <1>1, NodeStep
<1>2. CASE NodeRetries \/ NodeTimesOut
  BY <1>2, NodeStep DEF NodeRetries, NodeTimesOut, NodeResends
<1>3. CASE ServerWorks
  BY <1>3, ServerStep
<1>4. ASSUME NEW t \in importing, BnsImported(t) PROVE DurableInv'
  <2>1. /\ queue' = Append(queue, t) /\ importing' \subseteq importing
        /\ UNCHANGED <<blocks, job, acked, log>>
    BY <1>4 DEF BnsImported, vars
  <2>2. /\ queue' \in Seq(TaskSet) /\ RawDone(queue', blocks)
        /\ queue # <<>> => queue' # <<>> /\ Head(queue') = Head(queue)
    BY <2>1, AppendKeeps DEF DurableInv, WaitingInv
  <2>3. Logged' = Logged
    BY <2>1 DEF Logged
  <2>4. WaitingInv'
    BY <2>1, <2>2, <2>3 DEF DurableInv, WaitingInv
  <2>5. HeadInv'
    BY <2>1, <2>2 DEF DurableInv, HeadInv
  <2> QED BY <2>1, <2>3, <2>4, <2>5 DEF DurableInv
<1>5. ASSUME NEW t \in importing, BnsImportFails(t) PROVE DurableInv'
  BY <1>5 DEF BnsImportFails, vars, DurableInv, WaitingInv, HeadInv, Logged
<1>6. CASE BlockFails
  BY <1>6, RejectedStep DEF BlockFails, WAbortUpdate, AbortUpdate, TaskRejected,
     AfterRejection, Idle, dbVars, DurableInv, HeadInv
<1>7. CASE BurnFails
  <2>1. job.phase = "idle"
    BY <1>7 DEF BurnFails, Current, DurableInv, HeadInv
  <2> QED BY <1>7, <2>1, RejectedStep DEF BurnFails, Running, TaskRejected,
          AfterRejection, vars, DurableInv, HeadInv
<1>8. CASE RawFails
  <2>1. job.phase = "idle"
    BY <1>8 DEF RawFails, Running, DurableInv, HeadInv
  <2> QED BY <1>8, <2>1, RejectedStep DEF RawFails, Running, vars, DurableInv, HeadInv
<1>9. CASE Crash
  <2>1. /\ queue' = <<>> /\ importing' = {} /\ job' = Idle
        /\ UNCHANGED <<blocks, acked, log>>
    BY <1>9 DEF Crash, dbVars
  <2>2. WaitingInv'
    BY <2>1 DEF DurableInv, WaitingInv, RawDone, Logged
  <2>3. HeadInv'
    BY <2>1 DEF HeadInv, Idle
  <2> QED BY <2>1, <2>2, <2>3 DEF DurableInv, Logged
<1>10. CASE UNCHANGED evars
  BY <1>10 DEF evars, vars, serverVars, DurableInv, WaitingInv, HeadInv, Logged
<1> QED BY <1>1, <1>2, <1>3, <1>4, <1>5, <1>6, <1>7, <1>8, <1>9, <1>10
        DEF ENext, Regular, Fault

LEMMA NodeType ==
  ASSUME node \in Message \cup {NoMessage}, [ENext]_evars
  PROVE  node' \in Message \cup {NoMessage}
BY DEF ENext, Regular, Fault, ServerWorks, NodeSends, NodeRetries, NodeTimesOut,
   NodeResends, BlockBegins, BlockRestores, BlockCommits, HandlerResolved, Answer,
   BurnRewards, BurnSlots, BurnTip, StoreRawEventRequest, BnsImported,
   BnsImportFails, BlockFails, BurnFails, RawFails, TaskRejected, Crash,
   serverVars, evars

\* What the node was told is done survives everything: for any blocks, any
\* number of requests at once and any order of timeouts, repeated requests,
\* failures and crashes, an acknowledged message is in the raw log, and an
\* acknowledged block in the store.
THEOREM AckedDurable == ESpec => []AckedIsDurable
<1> DEFINE I == DurableInv /\ node \in Message \cup {NoMessage}
<1>1. EInit => I
  BY DEF EInit, Init, Idle, DurableInv, WaitingInv, RawDone, HeadInv, Logged
<1>2. I /\ [ENext]_evars => I'
  BY DurableStep, NodeType
<1>3. I => AckedIsDurable
  BY DEF DurableInv, WaitingInv, Done, AckedIsDurable
<1> HIDE DEF I
<1> QED BY <1>1, <1>2, <1>3, PTL DEF ESpec

-----------------------------------------------------------------------------
(* The server runs the store. *)

\* What the server does to the tables is a step of ChainStore: a process that
\* dies rolls back the open transaction, or finds none.
LEMMA ServerRunsStore ==
  ASSUME ChainInv, [ENext]_evars
  PROVE  [Next]_vars
<1>1. CASE BlockBegins
  BY <1>1 DEF BlockBegins, WBeginUpdate, Next
<1>2. CASE BlockRestores \/ BlockCommits \/ BlockFails
  BY <1>2 DEF BlockRestores, WRestoreOrphanedChain, BlockCommits, WCommitUpdate,
              BlockFails, WAbortUpdate, Next
<1>3. CASE Crash
  <2>1. job' = Idle /\ work' = Committed /\ UNCHANGED dbVars
    BY <1>3 DEF Crash
  <2>2. CASE job.phase # "idle"
    BY <2>1, <2>2 DEF AbortUpdate, Next
  <2>3. CASE job.phase = "idle"
    <3>1. job = Idle /\ work = Committed
      BY <2>3 DEF ChainInv, JobInv, TypeInv, TypeOK, Idle
    <3> QED BY <2>1, <3>1 DEF vars, dbVars
  <2> QED BY <2>2, <2>3
<1>4. CASE UNCHANGED vars
  BY <1>4
<1>5. CASE UNCHANGED evars
  BY <1>5 DEF evars
<1> QED BY <1>1, <1>2, <1>3, <1>4, <1>5
        DEF ENext, Regular, Fault, ServerWorks, NodeSends, NodeRetries, NodeTimesOut,
            NodeResends, BurnRewards, BurnSlots, BurnTip, StoreRawEventRequest,
            BnsImported, BnsImportFails, BurnFails, RawFails

\* The burn chain's tables at a burn height are those of one burn block.
SlotsOfOneFork ==
  \A v, w \in BurnBlock :
    /\ slots[v] <= 1
    /\ slots[v] > 0 /\ slots[w] > 0 /\ BurnHeight[v] = BurnHeight[w] => v = w

ServerInv ==
  /\ ChainInv
  /\ BurnTypeOK
  /\ node \in Message \cup {NoMessage}
  /\ DurableInv
  /\ stage \in {"rewards", "slots", "height"}
  /\ SlotsOfOneFork

LEMMA BurnStep ==
  ASSUME ServerInv, [ENext]_evars
  PROVE  BurnTypeOK' /\ SlotsOfOneFork'
<1> USE BurnAssumption
<1>0. /\ rewards \in [BurnBlock -> 0 .. MaxCopies] /\ slots \in [BurnBlock -> 0 .. MaxCopies]
      /\ burnHeight \in Nat /\ demoted \subseteq BurnBlock \cup {NoBurnBlock}
      /\ SlotsOfOneFork
  BY DEF ServerInv, BurnTypeOK
<1>1. CASE UNCHANGED burnVars
  BY <1>0, <1>1 DEF burnVars, BurnTypeOK, SlotsOfOneFork
<1>2. CASE BurnRewards
  <2>1. \A n \in 0 .. MaxCopies : OneMore(n) \in 0 .. MaxCopies
    BY DEF OneMore
  <2> QED BY <1>0, <1>2, <2>1 DEF BurnRewards, BurnStage, UpdateBurnchainRewards, BurnTypeOK,
                                SlotsOfOneFork
<1>3. CASE BurnTip
  BY <1>0, <1>3 DEF BurnTip, BurnStage, UpdateBurnChainBlockHeight, BurnTypeOK, SlotsOfOneFork
<1>4. CASE BurnSlots
  <2> DEFINE w == Current
             kept == [v \in BurnBlock |-> IF v \in InvalidatedSlots(w) THEN 0 ELSE slots[v]]
  <2>1. /\ w \in BurnBlock /\ UNCHANGED <<rewards, burnHeight, demoted>>
        /\ slots' = [kept EXCEPT ![w] = OneMore(@)]
    BY <1>4 DEF BurnSlots, BurnStage, UpdateBurnchainRewardSlotHolders
  <2>2. kept[w] = 0 /\ kept \in [BurnBlock -> 0 .. MaxCopies]
    BY <1>0, <2>1 DEF InvalidatedSlots
  <2>3. OneMore(0) = 1
    BY DEF OneMore
  <2>4. slots'[w] = 1 /\ \A v \in BurnBlock : v # w => slots'[v] = kept[v]
    BY <2>1, <2>2, <2>3
  <2>5. slots' \in [BurnBlock -> 0 .. MaxCopies]
    BY <2>1, <2>2, <2>3
  <2>6. BurnTypeOK'
    BY <1>0, <2>1, <2>5 DEF BurnTypeOK
  <2>7. SlotsOfOneFork'
    <3>1. \A v \in BurnBlock : v # w /\ slots'[v] > 0 =>
             slots'[v] = slots[v] /\ BurnHeight[v] # BurnHeight[w]
      BY <1>0, <2>1, <2>4 DEF InvalidatedSlots
    <3> QED BY <1>0, <2>1, <2>4, <2>5, <3>1 DEF SlotsOfOneFork
  <2> QED BY <2>6, <2>7
<1>5. CASE BlockRestores \/ BlockCommits \/ BlockFails \/ Crash
  <2>1. slots' = slots
    BY <1>5 DEF BlockRestores, WRestoreOrphanedChain, BlockCommits, WCommitUpdate,
                BlockFails, WAbortUpdate, Crash
  <2>2. rewards' \in [BurnBlock -> 0 .. MaxCopies]
    BY <1>0, <1>5 DEF BlockRestores, WRestoreOrphanedChain, BlockCommits, WCommitUpdate,
                BlockFails, WAbortUpdate, Crash
  <2>3. demoted' \subseteq BurnBlock \cup {NoBurnBlock}
    <3>1. CASE BlockRestores
      <4>1. OrphanedBy(job.cursor) \subseteq Block
        BY DEF ServerInv, ChainInv, TypeInv, TypeOK, OrphanedBy
      <4>2. DemotedBurnBlocks(job.cursor) \subseteq BurnBlock \cup {NoBurnBlock}
        BY <4>1 DEF DemotedBurnBlocks
      <4> QED BY <1>0, <3>1, <4>2 DEF BlockRestores, WRestoreOrphanedChain
    <3>2. CASE BlockCommits \/ BlockFails \/ Crash
      BY <3>2 DEF BlockCommits, WCommitUpdate, BlockFails, WAbortUpdate, Crash
    <3> QED BY <1>5, <3>1, <3>2
  <2>4. burnHeight' \in Nat
    <3>1. CASE BlockCommits
      <4>1. job.block \in Block
        BY <3>1 DEF BlockCommits, WCommitUpdate, CommitUpdate, ServerInv, ChainInv, TypeInv, TypeOK
      <4> QED BY <1>0, <3>1, <4>1 DEF BlockCommits, WCommitUpdate
    <3>2. CASE BlockRestores \/ BlockFails \/ Crash
      BY <1>0, <3>2 DEF BlockRestores, WRestoreOrphanedChain, BlockFails, WAbortUpdate, Crash
    <3> QED BY <1>5, <3>1, <3>2
  <2> QED BY <1>0, <2>1, <2>2, <2>3, <2>4 DEF BurnTypeOK, SlotsOfOneFork
<1> QED BY <1>1, <1>2, <1>3, <1>4, <1>5
        DEF ENext, Regular, Fault, ServerWorks, NodeSends, NodeRetries, NodeTimesOut,
            NodeResends, BlockBegins, WBeginUpdate, StoreRawEventRequest,
            BnsImported, BnsImportFails, BurnFails, RawFails, evars

LEMMA StageType ==
  ASSUME stage \in {"rewards", "slots", "height"}, [ENext]_evars
  PROVE  stage' \in {"rewards", "slots", "height"}
BY DEF ENext, Regular, Fault, ServerWorks, NodeSends, NodeRetries, NodeTimesOut,
   NodeResends, BlockBegins, BlockRestores, BlockCommits, HandlerResolved, Answer,
   BurnRewards, BurnSlots, BurnTip, StoreRawEventRequest, BnsImported,
   BnsImportFails, BlockFails, BurnFails, RawFails, TaskRejected, Crash,
   serverVars, evars

LEMMA ServerInvariant == ESpec => []ServerInv
<1>1. EInit => ServerInv
  <2> SUFFICES ASSUME EInit PROVE ServerInv
    OBVIOUS
  <2>1. ChainInv
    BY ChainStart DEF EInit
  <2>2. BurnTypeOK /\ SlotsOfOneFork
    BY BurnAssumption DEF EInit, BurnInit, BurnTypeOK, SlotsOfOneFork
  <2>3. DurableInv
    BY DEF EInit, Init, Idle, DurableInv, WaitingInv, RawDone, HeadInv, Logged
  <2> QED BY <2>1, <2>2, <2>3 DEF EInit, ServerInv
<1>2. ServerInv /\ [ENext]_evars => ServerInv'
  <2> SUFFICES ASSUME ServerInv, [ENext]_evars PROVE ServerInv'
    OBVIOUS
  <2>1. ChainInv'
    BY ServerRunsStore, ChainStep DEF ServerInv
  <2> QED BY <2>1, BurnStep, StageType, NodeType, DurableStep DEF ServerInv
<1> QED BY <1>1, <1>2, PTL DEF ESpec

\* The server's queue, its log, the burn chain tables and the store beneath
\* them stay well formed.
THEOREM ServerTypeCorrect == ESpec => []ETypeOK
<1>1. ServerInv => ETypeOK
  <2> SUFFICES ASSUME ServerInv PROVE ETypeOK
    OBVIOUS
  <2>1. TypeOK /\ BurnTypeOK
    BY DEF ServerInv, ChainInv, TypeInv
  <2>2. queue \in Seq(TaskSet) /\ log \in Seq(Message) /\ acked \subseteq Message
    BY DEF ServerInv, DurableInv, WaitingInv, Logged
  <2>3. importing \subseteq [step : {"raw"}, msg : Message, open : BOOLEAN]
    BY DEF ServerInv, DurableInv, WaitingInv, TaskSet
  <2> QED BY <2>1, <2>2, <2>3 DEF ETypeOK, ServerInv, TaskSet
<1> QED BY <1>1, ServerInvariant, PTL

\* The store keeps one canonical chain under the server as well: whatever the
\* node repeats and wherever the process dies.
THEOREM ServedChain == ESpec => []CanonicalIsOneChain
<1>1. ServerInv => CanonicalIsOneChain
  BY DEF ServerInv, ChainInv
<1> QED BY <1>1, ServerInvariant, PTL

\* The slot holders that are canonical at a burn height are those of one burn
\* block, one row for each slot, through forks of the burn chain, repeated
\* announcements and failed handlers.
THEOREM SlotHoldersKept == ESpec => []SlotsOfOneFork
<1>1. ServerInv => SlotsOfOneFork
  BY DEF ServerInv
<1> QED BY <1>1, ServerInvariant, PTL

-----------------------------------------------------------------------------
(* The lists of slot holders. *)

SlotKey(r) == <<r.height, r.slot_index>>

SlotsBefore(S) == {q \in S \X S : Above(SlotKey(q[1]), SlotKey(q[2]))}

\* The order of the query: by burn height, then by slot index.
LEMMA SlotOrder ==
  ASSUME NEW S, \A r \in S : r.height \in Nat /\ r.slot_index \in Nat
  PROVE  WeakOrder(SlotsBefore(S), S)
<1>1. ASSUME NEW x \in S, NEW y \in S
      PROVE  <<x, y>> \in SlotsBefore(S) <=>
               \/ x.height > y.height
               \/ x.height = y.height /\ x.slot_index > y.slot_index
  <2>1. /\ DOMAIN SlotKey(x) = 1 .. 2
        /\ SlotKey(x)[1] = x.height /\ SlotKey(x)[2] = x.slot_index
        /\ SlotKey(y)[1] = y.height /\ SlotKey(y)[2] = y.slot_index
    BY DEF SlotKey
  <2>2. Above(SlotKey(x), SlotKey(y)) <=>
          \/ x.height > y.height
          \/ x.height = y.height /\ x.slot_index > y.slot_index
    <3> DEFINE p == SlotKey(x)
               q == SlotKey(y)
    <3> HIDE DEF p, q
    <3>1. /\ DOMAIN p = 1 .. 2
          /\ p[1] = x.height /\ p[2] = x.slot_index
          /\ q[1] = y.height /\ q[2] = y.slot_index
      BY <2>1 DEF p, q
    <3>2. Above(p, q) <=> \/ p[1] > q[1]
                          \/ p[2] > q[2] /\ p[1] = q[1]
      BY <3>1 DEF Above
    <3> QED BY <3>1, <3>2 DEF p, q
  <2>3. <<x, y>> \in SlotsBefore(S) <=> Above(SlotKey(x), SlotKey(y))
    BY DEF SlotsBefore
  <2> QED BY <2>2, <2>3
<1>2. ASSUME NEW x \in S, NEW y \in S, <<x, y>> \in SlotsBefore(S)
      PROVE  <<y, x>> \notin SlotsBefore(S)
  BY <1>1, <1>2
<1>3. ASSUME NEW x \in S, NEW y \in S, NEW z \in S, <<x, z>> \in SlotsBefore(S)
      PROVE  <<x, y>> \in SlotsBefore(S) \/ <<y, z>> \in SlotsBefore(S)
  BY <1>1, <1>3
<1> QED BY <1>2, <1>3 DEF WeakOrder

SlotList(S) == Descending(S, LAMBDA r : <<r.height, r.slot_index>>)

\* ORDER BY lists all rows, each once.
LEMMA SlotsListed ==
  ASSUME NEW S, IsFiniteSet(S), \A r \in S : r.height \in Nat /\ r.slot_index \in Nat
  PROVE  InOrder(SlotList(S), S, SlotsBefore(S))
<1> DEFINE Q(g) == g = [s \in SUBSET S |->
                          IF s = {} THEN <<>>
                          ELSE Insert(Pick(s), g[s \ {Pick(s)}],
                                      LAMBDA r : <<r.height, r.slot_index>>)]
           h == CHOOSE g : Q(g)
<1>1. SlotList(S) = h[S]
  BY DEF SlotList, Descending, FoldSet, MapThenFoldSet, Pick
<1>2. ASSUME NEW t \in Seq(S), NEW x \in S
      PROVE  Insert(x, t, LAMBDA r : <<r.height, r.slot_index>>)
               = Insertion(t, x, SlotsBefore(S))
  <2>1. \A i \in DOMAIN t : t[i] \in S
    OBVIOUS
  <2>2. {i \in DOMAIN t : Above(<<t[i].height, t[i].slot_index>>, <<x.height, x.slot_index>>)}
          = {i \in DOMAIN t : <<t[i], x>> \in SlotsBefore(S)}
    BY <2>1 DEF SlotsBefore, SlotKey
  <2> DEFINE n == Cardinality({i \in DOMAIN t : <<t[i], x>> \in SlotsBefore(S)})
  <2>3. n \in 0 .. Len(t)
    BY InsertionIsSeq
  <2>4. Insert(x, t, LAMBDA r : <<r.height, r.slot_index>>) = InsertAt(t, 1 + n, x)
    BY <2>2 DEF Insert
  <2>5. Insertion(t, x, SlotsBefore(S)) = SubSeq(t, 1, n) \o <<x>> \o SubSeq(t, n + 1, Len(t))
    BY DEF Insertion
  <2> HIDE DEF n
  <2>6. (1 + n) - 1 = n /\ 1 + n = n + 1
    BY <2>3
  <2> QED BY <2>4, <2>5, <2>6 DEF InsertAt
<1>3. \E f : Q(f)
  <2>0. PICK f : Listing(f, SlotsBefore(S), S)
    BY SortExists
  <2>1. /\ f \in [SUBSET S -> Seq(S)]
        /\ f = [s \in SUBSET S |-> IF s = {} THEN <<>>
                                   ELSE Insertion(f[s \ {Pick(s)}], Pick(s), SlotsBefore(S))]
    BY <2>0 DEF Listing
  <2>2. \A s \in SUBSET S : s # {} =>
          Insert(Pick(s), f[s \ {Pick(s)}], LAMBDA r : <<r.height, r.slot_index>>)
            = Insertion(f[s \ {Pick(s)}], Pick(s), SlotsBefore(S))
    <3> SUFFICES ASSUME NEW s \in SUBSET S, s # {}
                 PROVE Insert(Pick(s), f[s \ {Pick(s)}], LAMBDA r : <<r.height, r.slot_index>>)
                         = Insertion(f[s \ {Pick(s)}], Pick(s), SlotsBefore(S))
      OBVIOUS
    <3>1. Pick(s) \in S /\ f[s \ {Pick(s)}] \in Seq(S)
      BY <2>1, PickInSet
    <3> QED BY <1>2, <3>1
  <2> QED BY <2>1, <2>2
<1>4. Q(h)
  BY <1>3
<1>5. Sorts(h, SlotsBefore(S), S)
  <2> HIDE DEF h
  <2>1. h[{}] = <<>>
    BY <1>4
  <2>2. ASSUME NEW s \in SUBSET S, s # {}, h[s \ {Pick(s)}] \in Seq(S)
        PROVE  h[s] = Insertion(h[s \ {Pick(s)}], Pick(s), SlotsBefore(S))
    <3>1. h[s] = Insert(Pick(s), h[s \ {Pick(s)}], LAMBDA r : <<r.height, r.slot_index>>)
      BY <1>4, <2>2
    <3>2. Pick(s) \in S
      BY <2>2, PickInSet
    <3> QED BY <1>2, <2>2, <3>1, <3>2
  <2> QED BY <2>1, <2>2 DEF Sorts
<1> HIDE DEF h
<1> QED BY <1>1, <1>5, SlotOrder, SortedList

\* A page, and all pages together.
LEMMA PagesShowAll ==
  ASSUME NEW S, NEW t \in Seq(S), {t[i] : i \in DOMAIN t} = S,
         NEW n \in Nat \ {0}, NEW m \in Nat, Len(t) <= m
  PROVE  UNION {Listed(Page(t, n, p)) : p \in 0 .. m} = S
<1> DEFINE e(p) == IF p + n < Len(t) THEN p + n ELSE Len(t)
<1>1. ASSUME NEW p \in 0 .. m
      PROVE  Listed(Page(t, n, p)) = {t[i] : i \in p + 1 .. e(p)}
  <2>1. p \in Nat /\ e(p) \in Nat /\ e(p) <= Len(t) /\ Len(t) \in Nat
    OBVIOUS
  <2> DEFINE u == SubSeq(t, p + 1, e(p))
  <2>2. Page(t, n, p) = u
    BY DEF Page
  <2> HIDE DEF e
  <2> DEFINE last == e(p)
  <2>6. last = e(p)
    OBVIOUS
  <2> HIDE DEF last
  <2>7. last \in Nat /\ last <= Len(t) /\ u = SubSeq(t, p + 1, last)
    BY <2>1, <2>6
  <2>3. /\ DOMAIN u = 1 .. (IF p + 1 <= last THEN last - p ELSE 0)
        /\ \A i \in 1 .. last - p : u[i] = t[p + i]
    BY <2>1, <2>7
  <2> HIDE DEF u
  <2>4. ASSUME NEW i \in DOMAIN u PROVE u[i] = t[p + i] /\ p + i \in p + 1 .. e(p)
    <3>1. p + 1 <= last /\ i \in 1 .. last - p
      BY <2>1, <2>3, <2>7
    <3>2. p + i \in p + 1 .. last
      BY <2>1, <2>7, <3>1
    <3> QED BY <2>3, <2>6, <3>1, <3>2
  <2>5. ASSUME NEW i \in p + 1 .. e(p) PROVE i - p \in DOMAIN u /\ u[i - p] = t[i]
    <3>1. i \in Nat /\ p < i /\ i <= last
      BY <2>1, <2>6
    <3>2. i - p \in 1 .. last - p /\ p + (i - p) = i /\ p + 1 <= last
      BY <2>1, <2>7, <3>1
    <3> QED BY <2>3, <3>2
  <2> QED BY <2>2, <2>4, <2>5 DEF Listed
<1>2. ASSUME NEW p \in 0 .. m, NEW i \in p + 1 .. e(p)
      PROVE  t[i] \in S
  BY <1>2
<1>3. ASSUME NEW x \in S
      PROVE  \E p \in 0 .. m : \E i \in p + 1 .. e(p) : t[i] = x
  <2>1. PICK i \in DOMAIN t : t[i] = x
    OBVIOUS
  <2>2. i - 1 \in 0 .. m /\ i \in (i - 1) + 1 .. e(i - 1)
    BY <2>1
  <2> QED BY <2>1, <2>2
<1> HIDE DEF e
<1>4. ASSUME NEW x PROVE (\E p \in 0 .. m : x \in Listed(Page(t, n, p))) <=> x \in S
  BY <1>1, <1>2, <1>3
<1> QED BY <1>4

SlotRow(w, i, n) ==
  [burn |-> w, height |-> BurnHeight[w], address |-> SlotsOf[w][i], slot_index |-> i,
   copy |-> n]

\* Finitely many burn blocks have canonical slot rows.
Held == {w \in BurnBlock : slots[w] > 0}

\* The rows are those of one burn block per height, one for each slot.
LEMMA SlotRows ==
  ASSUME BurnTypeOK, SlotsOfOneFork, IsFiniteSet(Held)
  PROVE  /\ IsFiniteSet(RewardSlotHolderRows)
         /\ \A r \in RewardSlotHolderRows :
              /\ r.height \in Nat /\ r.slot_index \in Nat
              /\ r.burn \in Held /\ r = SlotRow(r.burn, r.slot_index, 1)
<1> USE BurnAssumption, SlotsAssumption
<1> DEFINE Of(w) == {SlotRow(w, i, 1) : i \in DOMAIN SlotsOf[w]}
           F == {Of(w) : w \in Held}
<1>1. \A w \in BurnBlock : /\ slots[w] \in Nat
                           /\ slots[w] = 0 \/ slots[w] = 1
  BY DEF BurnTypeOK, SlotsOfOneFork
<1>2. \A w \in BurnBlock : DOMAIN SlotsOf[w] = 1 .. Len(SlotsOf[w]) /\ Len(SlotsOf[w]) \in Nat
  OBVIOUS
<1>3. RewardSlotHolderRows = UNION F
  <2>1. ASSUME NEW r \in RewardSlotHolderRows
        PROVE  \E w \in Held : r \in Of(w)
    <3>1. PICK w \in BurnBlock : \E i \in DOMAIN SlotsOf[w], n \in 1 .. slots[w] :
            r = SlotRow(w, i, n)
      BY DEF RewardSlotHolderRows, SlotRow
    <3>2. PICK i \in DOMAIN SlotsOf[w], n \in 1 .. slots[w] : r = SlotRow(w, i, n)
      BY <3>1
    <3>3. slots[w] = 1 /\ n = 1
      BY <1>1
    <3> QED BY <3>2, <3>3 DEF Held
  <2>2. ASSUME NEW w \in Held, NEW r \in Of(w)
        PROVE  r \in RewardSlotHolderRows
    <3>1. w \in BurnBlock /\ 1 \in 1 .. slots[w]
      BY <1>1 DEF Held
    <3>2. PICK i \in DOMAIN SlotsOf[w] : r = SlotRow(w, i, 1)
      OBVIOUS
    <3> QED BY <3>1, <3>2 DEF RewardSlotHolderRows, SlotRow
  <2> HIDE DEF Of
  <2> QED BY <2>1, <2>2
<1>4. \A w \in Held : IsFiniteSet(Of(w))
  <2> SUFFICES ASSUME NEW w \in Held PROVE IsFiniteSet(Of(w))
    OBVIOUS
  <2>1. IsFiniteSet(DOMAIN SlotsOf[w])
    <3>1. w \in BurnBlock
      BY DEF Held
    <3> DEFINE k == Len(SlotsOf[w])
    <3>3. k \in Int /\ 1 \in Int
      BY <1>2, <3>1
    <3> HIDE DEF k
    <3>4. IsFiniteSet(1 .. k)
      BY <3>3, FS_Interval
    <3>2. IsFiniteSet(1 .. Len(SlotsOf[w]))
      BY <3>4 DEF k
    <3> QED BY <1>2, <3>1, <3>2
  <2> DEFINE f == [i \in DOMAIN SlotsOf[w] |-> SlotRow(w, i, 1)]
  <2>2. DOMAIN f = DOMAIN SlotsOf[w] /\ Of(w) = {f[i] : i \in DOMAIN SlotsOf[w]}
    OBVIOUS
  <2> HIDE DEF f, Of
  <2>3. IsFiniteSet({f[i] : i \in DOMAIN SlotsOf[w]})
    BY <2>1, <2>2, ImageFinite
  <2> QED BY <2>2, <2>3
<1>5. IsFiniteSet(F)
  <2> DEFINE f == [w \in Held |-> Of(w)]
  <2> HIDE DEF Of
  <2>1. DOMAIN f = Held /\ F = {f[w] : w \in Held}
    OBVIOUS
  <2> HIDE DEF f, F
  <2>2. IsFiniteSet({f[w] : w \in Held})
    BY <2>1, ImageFinite
  <2> QED BY <2>1, <2>2
<1>6. IsFiniteSet(UNION F)
  <2>1. \A s \in F : IsFiniteSet(s)
    BY <1>4
  <2> HIDE DEF F
  <2> QED BY <1>5, <2>1, FS_UNION
<1>7. ASSUME NEW w \in Held, NEW r \in Of(w)
      PROVE  /\ r.height \in Nat /\ r.slot_index \in Nat
             /\ r.burn \in Held /\ r = SlotRow(r.burn, r.slot_index, 1)
  <2>1. PICK i \in DOMAIN SlotsOf[w] : r = SlotRow(w, i, 1)
    OBVIOUS
  <2>2. i \in Nat /\ BurnHeight[w] \in Nat
    BY <1>2 DEF Held
  <2>3. r.burn = w /\ r.height = BurnHeight[w] /\ r.slot_index = i
    BY <2>1 DEF SlotRow
  <2> QED BY <2>1, <2>2, <2>3
<1> HIDE DEF Of
<1> QED BY <1>3, <1>6, <1>7

\* All pages of the list of an address, or of all of them, show its rows.
LEMMA SlotPages ==
  ASSUME BurnTypeOK, SlotsOfOneFork, IsFiniteSet(Held), NEW a
  PROVE  UNION {Listed(GetBurnchainRewardSlotHolders(a, 96, p).results) :
                  p \in 0 .. Cardinality(RewardSlotHolderRows)}
           = {r \in RewardSlotHolderRows : a = None \/ r.address = a}
<1> DEFINE S == {r \in RewardSlotHolderRows : a = None \/ r.address = a}
           m == Cardinality(RewardSlotHolderRows)
           t == SlotList(S)
<1>1. /\ IsFiniteSet(RewardSlotHolderRows) /\ S \in SUBSET RewardSlotHolderRows
      /\ \A r \in S : r.height \in Nat /\ r.slot_index \in Nat
  BY SlotRows
<1>2. IsFiniteSet(S) /\ Cardinality(S) <= m
  <2> HIDE DEF S
  <2> QED BY <1>1, FS_Subset
<1>3. m \in Nat
  BY <1>1, FS_CardinalityType
<1>4. \A p \in 0 .. m : GetBurnchainRewardSlotHolders(a, 96, p).results = Page(t, 96, p)
  BY DEF GetBurnchainRewardSlotHolders, SlotList
<1> HIDE DEF S, m
<1>5. InOrder(t, S, SlotsBefore(S))
  BY <1>1, <1>2, SlotsListed
<1> HIDE DEF t
<1>6. t \in Seq(S) /\ {t[i] : i \in DOMAIN t} = S /\ Len(t) <= m
  BY <1>2, <1>5 DEF InOrder
<1>7. UNION {Listed(Page(t, 96, p)) : p \in 0 .. m} = S
  BY <1>3, <1>6, PagesShowAll
<1> QED BY <1>4, <1>7 DEF S, m

\* Another burn block is one more.
LEMMA HeldStep ==
  ASSUME ServerInv, IsFiniteSet(Held), [ENext]_evars
  PROVE  IsFiniteSet(Held')
<1>1. CASE slots' = slots
  BY <1>1 DEF Held
<1>2. CASE BurnSlots
  <2> DEFINE w == Current
             kept == [v \in BurnBlock |-> IF v \in InvalidatedSlots(w) THEN 0 ELSE slots[v]]
  <2>1. w \in BurnBlock /\ slots' = [kept EXCEPT ![w] = OneMore(@)]
    BY <1>2 DEF BurnSlots, BurnStage, UpdateBurnchainRewardSlotHolders
  <2>2. \A v \in BurnBlock : v # w => slots'[v] = 0 \/ slots'[v] = slots[v]
    BY <2>1
  <2>3. Held' \subseteq Held \cup {w}
    BY <2>2 DEF Held
  <2> HIDE DEF w
  <2>4. IsFiniteSet(Held \cup {w})
    BY FS_AddElement
  <2> QED BY <2>3, <2>4, FS_Subset
<1> QED BY <1>1, <1>2
        DEF ENext, Regular, Fault, ServerWorks, NodeSends, NodeRetries, NodeTimesOut,
            NodeResends, BlockBegins, WBeginUpdate, StoreRawEventRequest,
            BnsImported, BnsImportFails, BurnFails, RawFails, evars, burnVars,
            BurnRewards, BurnTip, BurnStage, UpdateBurnchainRewards,
            UpdateBurnChainBlockHeight, BlockRestores, WRestoreOrphanedChain,
            BlockCommits, WCommitUpdate, BlockFails, WAbortUpdate, Crash

\* What the endpoints list, page by page, are the slot holders of one burn block
\* for each burn height, for any number of burn blocks and slots, and the lists
\* by address are parts of the list of all.
THEOREM SlotHoldersListed == ESpec => []SlotHoldersOfOneFork
<1>1. ESpec => []IsFiniteSet(Held)
  <2>1. EInit => IsFiniteSet(Held)
    <3> SUFFICES ASSUME EInit PROVE IsFiniteSet(Held)
      OBVIOUS
    <3>1. Held = {}
      BY DEF EInit, BurnInit, Held
    <3> QED BY <3>1, FS_EmptySet
  <2>2. ServerInv /\ IsFiniteSet(Held) /\ [ENext]_evars => IsFiniteSet(Held)'
    BY HeldStep
  <2> QED BY <2>1, <2>2, ServerInvariant, PTL DEF ESpec
<1>2. ASSUME ServerInv, IsFiniteSet(Held) PROVE SlotHoldersOfOneFork
  <2>0. BurnTypeOK /\ SlotsOfOneFork
    BY <1>2 DEF ServerInv
  <2>1. GetPagingQueryLimit("Burnchain", None) = 96 /\ None # 96
    BY SlotsAssumption DEF GetPagingQueryLimit, PagingLimits
  <2>2. \A p \in Nat : RewardSlotHolders(None, p).body.results
                         = GetBurnchainRewardSlotHolders(None, 96, p).results
    BY <2>1 DEF RewardSlotHolders, Paged, Ok
  <2>3. \A a \in DOMAIN BtcOf : BtcOf[a] # None =>
          \A p \in Nat : RewardSlotHoldersOf(a, None, p).body.results
                           = GetBurnchainRewardSlotHolders(BtcOf[a], 96, p).results
    BY <2>1 DEF RewardSlotHoldersOf, Paged, Ok
  <2>4. OnPages(LAMBDA p : RewardSlotHolders(None, p)) = RewardSlotHolderRows
    <3>1. UNION {Listed(GetBurnchainRewardSlotHolders(None, 96, p).results) :
                   p \in 0 .. Cardinality(RewardSlotHolderRows)} = RewardSlotHolderRows
      BY <1>2, <2>0, SlotPages
    <3> QED BY <2>2, <3>1 DEF OnPages
  <2>5. \A a \in DOMAIN BtcOf : BtcOf[a] # None =>
          OnPages(LAMBDA p : RewardSlotHoldersOf(a, None, p))
            = {r \in RewardSlotHolderRows : r.address = BtcOf[a]}
    <3> SUFFICES ASSUME NEW a \in DOMAIN BtcOf, BtcOf[a] # None
                 PROVE  OnPages(LAMBDA p : RewardSlotHoldersOf(a, None, p))
                          = {r \in RewardSlotHolderRows : r.address = BtcOf[a]}
      OBVIOUS
    <3>1. UNION {Listed(GetBurnchainRewardSlotHolders(BtcOf[a], 96, p).results) :
                   p \in 0 .. Cardinality(RewardSlotHolderRows)}
            = {r \in RewardSlotHolderRows : r.address = BtcOf[a]}
      BY <1>2, <2>0, SlotPages
    <3> QED BY <2>3, <3>1 DEF OnPages
  <2>6. \A r, q \in RewardSlotHolderRows :
          r.height = q.height => /\ r.burn = q.burn
                                 /\ r.slot_index = q.slot_index => r = q
    <3> SUFFICES ASSUME NEW r \in RewardSlotHolderRows, NEW q \in RewardSlotHolderRows,
                        r.height = q.height
                 PROVE  /\ r.burn = q.burn
                        /\ r.slot_index = q.slot_index => r = q
      OBVIOUS
    <3>1. /\ r.burn \in Held /\ r = SlotRow(r.burn, r.slot_index, 1)
          /\ q.burn \in Held /\ q = SlotRow(q.burn, q.slot_index, 1)
      BY <1>2, <2>0, SlotRows
    <3>2. r.height = BurnHeight[r.burn] /\ q.height = BurnHeight[q.burn]
      BY <3>1 DEF SlotRow
    <3>3. r.burn = q.burn
      BY <2>0, <3>1, <3>2 DEF Held, SlotsOfOneFork
    <3> QED BY <3>1, <3>3
  <2> QED BY <2>4, <2>5, <2>6 DEF SlotHoldersOfOneFork
<1> QED BY <1>1, <1>2, ServerInvariant, PTL

-----------------------------------------------------------------------------
(* The order of the raw log. *)

\* A request is for a message that was acknowledged or is waited for; the node
\* listens to the answer of at most one, for the message it waits for.
Asks(t, A, n) == t.msg \in A \cup {n} /\ (t.open => t.msg = n)

NoneOpen(q, I) == (\A i \in DOMAIN q : ~q[i].open) /\ (\A t \in I : ~t.open)

Requests(q, I, A, n) ==
  /\ \A i \in DOMAIN q : Asks(q[i], A, n)
  /\ \A t \in I : Asks(t, A, n)
  /\ \A i, j \in DOMAIN q : q[i].open /\ q[j].open => i = j
  /\ \A t, u \in I : t.open /\ u.open => t = u
  /\ \A i \in DOMAIN q, t \in I : ~(q[i].open /\ t.open)

\* No message is in the store before the ones announced earlier are logged, so
\* nothing is logged before the block of the chain tip that is as high.
LogInv ==
  /\ Requests(queue, importing, acked, node)
  /\ blocks \subseteq acked \cup {node}
  /\ tip.block # Genesis
  /\ \A i, j \in DOMAIN log : log[i] = log[j] => i = j
  /\ \A i \in DOMAIN log :
       log[i] \in Block /\ Height[log[i]] = tip.height /\ tip.height > 0
         => \E j \in DOMAIN log : j <= i /\ log[j] = tip.block

LEMMA RequestEnds ==
  ASSUME NEW q \in Seq(TaskSet), q # <<>>, NEW I, NEW A, NEW n, Requests(q, I, A, n)
  PROVE  /\ Requests(Tail(q), I, A, n)
         /\ Asks(Head(q), A, n)
         /\ Head(q).open => NoneOpen(Tail(q), I)
<1>1. /\ \A i \in DOMAIN Tail(q) : i \in Nat /\ i > 0 /\ i + 1 \in DOMAIN q /\ Tail(q)[i] = q[i + 1]
      /\ 1 \in DOMAIN q /\ Head(q) = q[1]
  OBVIOUS
<1>2. Asks(Head(q), A, n)
  BY <1>1 DEF Requests
<1>3. Head(q).open => NoneOpen(Tail(q), I)
  <2> SUFFICES ASSUME q[1].open PROVE NoneOpen(Tail(q), I)
    BY <1>1
  <2>1. ASSUME NEW i \in DOMAIN Tail(q) PROVE ~Tail(q)[i].open
    <3>1. i + 1 \in DOMAIN q /\ i + 1 # 1 /\ Tail(q)[i] = q[i + 1]
      BY <1>1
    <3> QED BY <1>1, <3>1 DEF Requests
  <2>2. \A t \in I : ~t.open
    BY <1>1 DEF Requests
  <2> QED BY <2>1, <2>2 DEF NoneOpen
<1>4. ASSUME NEW i \in DOMAIN Tail(q), NEW j \in DOMAIN Tail(q), Tail(q)[i].open, Tail(q)[j].open
      PROVE  i = j
  <2>1. q[i + 1].open /\ q[j + 1].open /\ i + 1 \in DOMAIN q /\ j + 1 \in DOMAIN q
    BY <1>1, <1>4
  <2>2. i + 1 = j + 1
    BY <2>1 DEF Requests
  <2> QED BY <1>1, <2>2
<1>5. \A i \in DOMAIN Tail(q) : Asks(Tail(q)[i], A, n) /\ \A t \in I : ~(Tail(q)[i].open /\ t.open)
  BY <1>1 DEF Requests
<1> QED BY <1>2, <1>3, <1>4, <1>5 DEF Requests

LEMMA RequestWaits ==
  ASSUME NEW q \in Seq(TaskSet), NEW t \in TaskSet, NEW I, NEW A, NEW n,
         Requests(q, I, A, n), Asks(t, A, n), t.open => NoneOpen(q, I)
  PROVE  Requests(Append(q, t), I, A, n)
<1> DEFINE p == Append(q, t)
<1>1. \A i \in DOMAIN p : \/ i \in DOMAIN q /\ p[i] = q[i]
                          \/ i = Len(q) + 1 /\ p[i] = t
  OBVIOUS
<1> HIDE DEF p
<1>2. \A i \in DOMAIN p : Asks(p[i], A, n)
  BY <1>1 DEF Requests
<1>3. \A i, j \in DOMAIN p : p[i].open /\ p[j].open => i = j
  BY <1>1 DEF Requests, NoneOpen
<1>4. \A i \in DOMAIN p, u \in I : ~(p[i].open /\ u.open)
  BY <1>1 DEF Requests, NoneOpen
<1>5. Requests(p, I, A, n)
  BY <1>2, <1>3, <1>4 DEF Requests
<1> QED BY <1>5 DEF p

LEMMA RequestImports ==
  ASSUME NEW q, NEW t, NEW I, NEW A, NEW n,
         Requests(q, I, A, n), Asks(t, A, n), t.open => NoneOpen(q, I)
  PROVE  Requests(q, I \cup {t}, A, n)
BY DEF Requests, NoneOpen

\* The node hangs up on every request.
LEMMA RequestsHungUp ==
  ASSUME NEW q \in Seq(TaskSet), NEW I \in SUBSET TaskSet, NEW A, NEW n, Requests(q, I, A, n)
  PROVE  LET J == {[t EXCEPT !.open = FALSE] : t \in I}
         IN Requests(Hangup(q), J, A, n) /\ NoneOpen(Hangup(q), J)
<1> DEFINE J == {[t EXCEPT !.open = FALSE] : t \in I}
<1>1. ASSUME NEW t \in TaskSet
      PROVE  [t EXCEPT !.open = FALSE].open = FALSE /\ [t EXCEPT !.open = FALSE].msg = t.msg
  BY DEF TaskSet
<1>2. \A i \in DOMAIN q : q[i] \in TaskSet
  OBVIOUS
<1>3. DOMAIN Hangup(q) = DOMAIN q
      /\ \A i \in DOMAIN q : Hangup(q)[i].open = FALSE /\ Hangup(q)[i].msg = q[i].msg
  BY <1>1, <1>2 DEF Hangup
<1>4. \A u \in J : u.open = FALSE /\ \E t \in I : u.msg = t.msg
  BY <1>1
<1> HIDE DEF J
<1>5. NoneOpen(Hangup(q), J)
  BY <1>3, <1>4 DEF NoneOpen
<1>6. Requests(Hangup(q), J, A, n)
  BY <1>3, <1>4 DEF Requests, Asks
<1> QED BY <1>5, <1>6 DEF J

\* The node has its answer: it does not listen to any other request.
LEMMA RequestAnswered ==
  ASSUME NEW q, NEW I, NEW A, NEW n, NEW m, Requests(q, I, A, n), NoneOpen(q, I)
  PROVE  Requests(q, I, A \cup {n}, m)
BY DEF Requests, NoneOpen, Asks

\* LogInv as long as neither the store nor the log changes.
LEMMA LogKept ==
  ASSUME LogInv, Requests(queue, importing, acked, node)', UNCHANGED <<blocks, tip, log>>,
         acked \cup {node} \subseteq acked' \cup {node'}
  PROVE  LogInv'
BY DEF LogInv

LEMMA NodeAsks ==
  ASSUME ServerInv, LogInv,
         \/ \E m \in Message : NodeSends(m)
         \/ node # NoMessage /\ NodeResends
  PROVE  LogInv'
<1> USE ServerAssumption
<1>0. /\ queue \in Seq(TaskSet) /\ importing \in SUBSET TaskSet
      /\ Requests(queue, importing, acked, node)
  BY DEF ServerInv, DurableInv, WaitingInv, LogInv
<1>1. ASSUME NEW m \in Message, NodeSends(m) PROVE LogInv'
  <2>1. /\ node = NoMessage /\ node' = m /\ queue' = Append(queue, Task("handle", m, TRUE))
        /\ UNCHANGED <<blocks, tip, log, acked, importing>>
    BY <1>1 DEF NodeSends, vars
  <2>2. NoneOpen(queue, importing)
    <3>1. \A i \in DOMAIN queue : queue[i].msg # NoMessage
      <4>1. \A i \in DOMAIN queue : queue[i] \in TaskSet
        BY <1>0
      <4> QED BY <4>1 DEF TaskSet
    <3>2. \A t \in importing : t.msg # NoMessage
      BY <1>0 DEF TaskSet
    <3> QED BY <1>0, <2>1, <3>1, <3>2 DEF Requests, Asks, NoneOpen
  <2>3. NoMessage \notin blocks
    BY BlockAssumption DEF ServerInv, ChainInv, TypeInv, TypeOK, Message
  <2>4. Requests(queue, importing, acked, m)
    <3>1. \A i \in DOMAIN queue : queue[i].msg \in acked
      <4>1. \A i \in DOMAIN queue : queue[i] \in TaskSet
        BY <1>0
      <4> QED BY <1>0, <2>1, <4>1 DEF TaskSet, Requests, Asks
    <3>2. \A t \in importing : t.msg \in acked
      BY <1>0, <2>1 DEF TaskSet, Requests, Asks
    <3> QED BY <2>2, <3>1, <3>2 DEF Requests, Asks, NoneOpen
  <2> DEFINE task == Task("handle", m, TRUE)
  <2>5. task \in TaskSet /\ Asks(task, acked, m)
    BY DEF Task, TaskSet, Asks
  <2> HIDE DEF task
  <2>6. Requests(Append(queue, task), importing, acked, m)
    BY <1>0, <2>2, <2>4, <2>5, RequestWaits
  <2>7. Requests(queue, importing, acked, node)'
    BY <2>1, <2>6 DEF task
  <2>8. blocks' \subseteq acked' \cup {node'}
    BY <2>1, <2>3 DEF LogInv
  <2> QED BY <2>1, <2>7, <2>8 DEF LogInv
<1>2. ASSUME node # NoMessage, NodeResends PROVE LogInv'
  <2> DEFINE task == Task("handle", node, TRUE)
             J == {[t EXCEPT !.open = FALSE] : t \in importing}
  <2>1. /\ queue' = Append(Hangup(queue), task) /\ importing' = J
        /\ UNCHANGED <<blocks, tip, log, acked, node>>
    BY <1>2 DEF NodeResends, vars
  <2>2. task \in TaskSet /\ Asks(task, acked, node)
    BY <1>2 DEF Task, TaskSet, Asks, ServerInv
  <2>3. Requests(Hangup(queue), J, acked, node) /\ NoneOpen(Hangup(queue), J)
    BY <1>0, RequestsHungUp
  <2>4. Hangup(queue) \in Seq(TaskSet)
    BY <1>0, HangupKeeps
  <2> HIDE DEF task, J
  <2>5. Requests(Append(Hangup(queue), task), J, acked, node)
    BY <2>2, <2>3, <2>4, RequestWaits
  <2> QED BY <2>1, <2>5, LogKept
<1> QED BY <1>1, <1>2

\* The running handler resolved: its request goes on, and is not answered yet.
LEMMA HandlerAsks ==
  ASSUME ServerInv, LogInv, Running("handle"), HandlerResolved
  PROVE  /\ Requests(queue, importing, acked, node)'
         /\ UNCHANGED <<acked, node, log>>
         /\ Current \in acked \cup {node}
<1> DEFINE task == Head(queue)
           raw == AfterImport(task)
<1>0. /\ queue \in Seq(TaskSet) /\ queue # <<>>
      /\ task \in TaskSet /\ task.step = "handle"
      /\ Tail(queue) \in Seq(TaskSet)
  BY TailKeeps DEF ServerInv, DurableInv, WaitingInv, Running
<1>1. /\ Requests(Tail(queue), importing, acked, node) /\ Asks(task, acked, node)
      /\ task.open => NoneOpen(Tail(queue), importing)
  BY <1>0, RequestEnds DEF LogInv
<1>2. raw \in TaskSet /\ raw.msg = task.msg /\ raw.open = task.open
  BY <1>0 DEF AfterImport, TaskSet
<1>3. UNCHANGED <<node, acked, log>>
  BY <1>0 DEF HandlerResolved, Answer, AnswersAfter
<1>4. \/ queue' = Tail(queue) /\ importing' = importing \cup {raw}
      \/ queue' = Append(Tail(queue), raw) /\ importing' = importing
  BY DEF HandlerResolved
<1>5. Asks(raw, acked, node) /\ (raw.open => NoneOpen(Tail(queue), importing))
  BY <1>1, <1>2 DEF Asks
<1>6. Current \in acked \cup {node}
  BY <1>1 DEF Current, Asks
<1> HIDE DEF raw, task
<1>7. CASE queue' = Tail(queue) /\ importing' = importing \cup {raw}
  <2>1. Requests(Tail(queue), importing \cup {raw}, acked, node)
    BY <1>1, <1>5, RequestImports
  <2> QED BY <1>3, <1>6, <1>7, <2>1
<1>8. CASE queue' = Append(Tail(queue), raw) /\ importing' = importing
  <2>1. Requests(Append(Tail(queue), raw), importing, acked, node)
    BY <1>0, <1>1, <1>2, <1>5, RequestWaits
  <2> QED BY <1>3, <1>6, <1>8, <2>1
<1> QED BY <1>4, <1>7, <1>8

\* A block that becomes the tip is not logged yet, and all logged ones are lower.
LEMMA CommitLogs ==
  ASSUME ServerInv, LogInv, BlockCommits
  PROVE  LogInv'
<1>1. /\ job.phase = "insert" /\ blocks' = blocks \cup {job.block}
      /\ tip' = NewTip(job.block) /\ HandlerResolved
  BY DEF BlockCommits, WCommitUpdate, CommitUpdate
<1>2. Running("handle") /\ Current = job.block /\ job.block \in Block
  BY <1>1 DEF ServerInv, DurableInv, HeadInv, Running, Current
<1>3. /\ Requests(queue, importing, acked, node)' /\ UNCHANGED <<acked, node, log>>
      /\ blocks' \subseteq acked' \cup {node'}
  BY <1>1, <1>2, HandlerAsks DEF LogInv
<1>4. /\ tip \in [block : Block \cup {NoBlock}, height : Nat, tx_count : Int]
      /\ Height \in [Block -> Nat]
      /\ \A i \in DOMAIN log : log[i] \in Block => Height[log[i]] <= tip.height
  BY BlockAssumption DEF ServerInv, ChainInv, TypeInv, TypeOK, StoredInv, DurableInv,
     WaitingInv, Logged, Done
<1>5. CASE IsCanonical(job.block)
  <2>1. tip'.height = Height[job.block] /\ Height[job.block] > tip.height
    BY <1>1, <1>5 DEF NewTip, IsCanonical
  <2>2. \A i \in DOMAIN log' : log'[i] \in Block => Height[log'[i]] # tip'.height
    BY <1>2, <1>3, <1>4, <2>1
  <2>3. tip'.block # Genesis
    BY <1>1, <1>4, <1>5, BlockAssumption DEF NewTip, IsCanonical
  <2> QED BY <1>3, <2>2, <2>3 DEF LogInv
<1>6. CASE ~IsCanonical(job.block)
  <2>1. tip'.height = tip.height /\ tip'.block = tip.block
    BY <1>1, <1>4, <1>6 DEF NewTip
  <2> QED BY <1>3, <2>1 DEF LogInv
<1> QED BY <1>5, <1>6

\* A block is logged behind the tip that is as high: one of the two is
\* acknowledged, hence logged, or they are the one message the node waits for.
LEMMA RawLogs ==
  ASSUME ServerInv, LogInv, StoreRawEventRequest
  PROVE  LogInv'
<1> USE ServerAssumption
<1>0. /\ queue \in Seq(TaskSet) /\ queue # <<>> /\ Head(queue).step = "raw"
      /\ queue' = Tail(queue) /\ UNCHANGED <<blocks, tip, importing>>
      /\ log' = IF Current \in Logged THEN log ELSE Append(log, Current)
      /\ Answer(Head(queue))
  BY DEF StoreRawEventRequest, Running, vars, ServerInv, DurableInv, WaitingInv
<1>1. /\ Requests(Tail(queue), importing, acked, node) /\ Asks(Head(queue), acked, node)
      /\ Head(queue).open => NoneOpen(Tail(queue), importing)
  BY <1>0, RequestEnds DEF LogInv
<1>2. /\ Head(queue) \in TaskSet /\ Current \in Message /\ Current \in acked \cup {node}
      /\ log \in Seq(Message) /\ acked \subseteq Logged
  BY <1>0, <1>1, TailKeeps DEF Current, TaskSet, Asks, ServerInv, DurableInv, WaitingInv
<1>3. /\ Requests(queue, importing, acked, node)'
      /\ acked \cup {node} \subseteq acked' \cup {node'}
  <2>1. CASE Head(queue).open
    <3>1. Current = node /\ node' = NoMessage /\ acked' = acked \cup {node}
      BY <1>0, <1>1, <2>1 DEF Answer, AnswersAfter, Asks, Current
    <3>2. Requests(Tail(queue), importing, acked \cup {node}, NoMessage)
      BY <1>1, <2>1, RequestAnswered
    <3> QED BY <1>0, <3>1, <3>2
  <2>2. CASE ~Head(queue).open
    <3>1. UNCHANGED <<node, acked>>
      BY <1>0, <2>2 DEF Answer, AnswersAfter
    <3> QED BY <1>0, <1>1, <3>1
  <2> QED BY <2>1, <2>2
<1>4. CASE Current \in Logged
  BY <1>0, <1>3, <1>4, LogKept
<1>5. CASE Current \notin Logged
  <2>1. log' = Append(log, Current)
    BY <1>0, <1>5
  <2>2. /\ DOMAIN log' = DOMAIN log \cup {Len(log) + 1}
        /\ \A i \in DOMAIN log : i \in Nat /\ i <= Len(log) /\ log'[i] = log[i]
        /\ Len(log) \in Nat /\ log'[Len(log) + 1] = Current
    BY <1>2, <2>1
  <2>3. \A i \in DOMAIN log : log[i] # Current
    BY <1>5 DEF Logged
  <2>4. \A i, j \in DOMAIN log' : log'[i] = log'[j] => i = j
    BY <2>2, <2>3 DEF LogInv
  <2>5. ASSUME NEW i \in DOMAIN log', log'[i] \in Block, Height[log'[i]] = tip.height, tip.height > 0
        PROVE  \E j \in DOMAIN log' : j <= i /\ log'[j] = tip.block
    <3>1. CASE i \in DOMAIN log
      <4>1. PICK j \in DOMAIN log : j <= i /\ log[j] = tip.block
        BY <2>2, <2>5, <3>1 DEF LogInv
      <4> QED BY <2>2, <4>1
    <3>2. CASE i \notin DOMAIN log
      <4>1. i = Len(log) + 1
        BY <2>2, <3>2
      <4>2. tip.block \in acked \cup {node}
        BY <2>5, BlockAssumption DEF ServerInv, ChainInv, CanonicalIsOneChain, IsChainTo,
           TypeInv, TypeOK, LogInv
      <4>3. CASE tip.block \in acked
        <5>1. PICK j \in DOMAIN log : log[j] = tip.block
          BY <1>2, <4>3 DEF Logged
        <5> QED BY <2>2, <4>1, <5>1
      <4>4. CASE tip.block \notin acked
        <5>1. Current = node
          BY <1>2, <1>5
        <5> QED BY <2>2, <4>1, <4>2, <4>4, <5>1
      <4> QED BY <4>3, <4>4
    <3> QED BY <3>1, <3>2
  <2> QED BY <1>0, <1>3, <2>4, <2>5 DEF LogInv
<1> QED BY <1>4, <1>5

LEMMA LogStep ==
  ASSUME ServerInv, LogInv, [ENext]_evars
  PROVE  LogInv'
<1>0. queue \in Seq(TaskSet) /\ importing \in SUBSET TaskSet
  BY DEF ServerInv, DurableInv, WaitingInv
<1>1. CASE \E m \in Message : NodeSends(m)
  BY <1>1, NodeAsks
<1>2. CASE NodeRetries \/ NodeTimesOut
  BY <1>2, NodeAsks DEF NodeRetries, NodeTimesOut, NodeResends
<1>3. CASE BlockCommits
  BY <1>3, CommitLogs
<1>4. CASE BurnTip
  <2>1. Running("handle") /\ HandlerResolved /\ UNCHANGED <<blocks, tip>>
    BY <1>4 DEF BurnTip, BurnStage, vars
  <2>2. Requests(queue, importing, acked, node)' /\ UNCHANGED <<acked, node, log>>
    BY <2>1, HandlerAsks
  <2> QED BY <2>1, <2>2, LogKept
<1>5. CASE StoreRawEventRequest
  BY <1>5, RawLogs
<1>6. CASE BlockFails \/ BurnFails \/ RawFails
  <2>1. queue' = Tail(queue) /\ UNCHANGED <<blocks, tip, log, acked, node, importing>>
    BY <1>6 DEF BlockFails, WAbortUpdate, AbortUpdate, BurnFails, RawFails, TaskRejected,
       AfterRejection, dbVars, vars
  <2>2. queue # <<>>
    BY <1>6 DEF BlockFails, WAbortUpdate, AbortUpdate, BurnFails, RawFails, Running,
       ServerInv, DurableInv, HeadInv
  <2>3. Requests(Tail(queue), importing, acked, node)
    BY <1>0, <2>2, RequestEnds DEF LogInv
  <2> QED BY <2>1, <2>3, LogKept
<1>7. ASSUME NEW t \in importing, BnsImported(t) PROVE LogInv'
  <2>1. /\ queue' = Append(queue, t) /\ importing' = importing \ {t}
        /\ UNCHANGED <<blocks, tip, log, acked, node>>
    BY <1>7 DEF BnsImported, vars
  <2>2. /\ Requests(queue, importing \ {t}, acked, node) /\ Asks(t, acked, node)
        /\ t.open => NoneOpen(queue, importing \ {t})
    BY DEF LogInv, Requests, NoneOpen
  <2>3. Requests(Append(queue, t), importing \ {t}, acked, node)
    BY <1>0, <2>2, RequestWaits
  <2> QED BY <2>1, <2>3, LogKept
<1>8. ASSUME NEW t \in importing, BnsImportFails(t) PROVE LogInv'
  <2>1. /\ importing' = importing \ {t}
        /\ UNCHANGED <<blocks, tip, log, acked, node, queue>>
    BY <1>8 DEF BnsImportFails, vars
  <2>2. Requests(queue, importing \ {t}, acked, node)
    BY DEF LogInv, Requests
  <2> QED BY <2>1, <2>2, LogKept
<1>9. CASE Crash
  <2>1. queue' = <<>> /\ importing' = {} /\ UNCHANGED <<blocks, tip, log, acked, node>>
    BY <1>9 DEF Crash, dbVars
  <2>2. Requests(<<>>, {}, acked, node)
    BY DEF Requests
  <2> QED BY <2>1, <2>2, LogKept
<1>10. CASE BlockBegins \/ BlockRestores \/ BurnRewards \/ BurnSlots \/ UNCHANGED evars
  <2>1. UNCHANGED <<blocks, tip, log, acked, node, queue, importing>>
    BY <1>10 DEF BlockBegins, WBeginUpdate, BeginUpdate, BlockRestores, WRestoreOrphanedChain,
       RestoreOrphanedChain, BurnRewards, BurnSlots, evars, vars, dbVars, serverVars
  <2> QED BY <2>1 DEF LogInv
<1> QED BY <1>1, <1>2, <1>3, <1>4, <1>5, <1>6, <1>7, <1>8, <1>9, <1>10
        DEF ENext, Regular, Fault, ServerWorks

\* When the node waits for nothing, every stored block is acknowledged and so
\* logged: the tip is the first of the highest blocks of the log.
LEMMA ReplayedTipIsTip ==
  ASSUME ServerInv, LogInv, node = NoMessage
  PROVE  ReplayedTip = tip.block
<1> DEFINE above == {i \in DOMAIN log : log[i] \in Block /\ Height[log[i]] > 0}
           IsFirst(i) == \A j \in above :
                           /\ Height[log[j]] <= Height[log[i]]
                           /\ Height[log[j]] = Height[log[i]] => i <= j
<1> USE BlockAssumption
<1>1. /\ tip \in [block : Block \cup {NoBlock}, height : Nat, tx_count : Int]
      /\ blocks \subseteq Block /\ log \in Seq(Message)
      /\ \A i \in DOMAIN log : log[i] \in Block => Height[log[i]] <= tip.height
  BY DEF ServerInv, ChainInv, TypeInv, TypeOK, StoredInv, DurableInv, WaitingInv, Logged, Done
<1>2. \A i \in DOMAIN log : i \in Nat
  BY <1>1
<1>3. CASE tip.block = NoBlock
  <2>1. tip.height = 0
    BY <1>3 DEF ServerInv, ChainInv, CanonicalIsOneChain
  <2>2. above = {}
    BY <1>1, <2>1
  <2> QED BY <1>3, <2>2 DEF ReplayedTip
<1>4. CASE tip.block # NoBlock
  <2>1. tip.block \in Block /\ tip.block \in blocks /\ tip.height = Height[tip.block]
    BY <1>1, <1>4 DEF ServerInv, ChainInv, CanonicalIsOneChain, IsChainTo, TypeInv, TypeOK
  <2>2. tip.block \in Logged
    <3>1. tip.block # NoMessage
      BY <2>1, ServerAssumption DEF Message
    <3> QED BY <2>1, <3>1 DEF LogInv, ServerInv, DurableInv
  <2>3. PICK f \in DOMAIN log : log[f] = tip.block
    BY <2>2 DEF Logged
  <2>4. tip.height > 0
    BY <2>1 DEF LogInv
  <2>5. f \in above /\ IsFirst(f)
    <3>1. ASSUME NEW j \in above, Height[log[j]] = tip.height PROVE f <= j
      <4>1. PICK k \in DOMAIN log : k <= j /\ log[k] = tip.block
        BY <2>4, <3>1 DEF LogInv
      <4>2. k = f
        BY <2>3, <4>1 DEF LogInv
      <4> QED BY <4>1, <4>2
    <3> QED BY <1>1, <2>1, <2>3, <2>4, <3>1
  <2>6. \A i \in above : IsFirst(i) => i = f
    BY <1>2, <2>5
  <2>7. (CHOOSE i \in above : IsFirst(i)) = f
    BY <2>5, <2>6
  <2>8. above # {}
    BY <2>5
  <2> QED BY <2>3, <2>7, <2>8 DEF ReplayedTip
<1> QED BY <1>3, <1>4

\* An event replay of the raw log ends where the live store is, for any rival
\* blocks and any order of timeouts, repeated requests, failures and crashes:
\* event_observer_requests never holds two blocks of one height in another
\* order than update() committed them in.
THEOREM ReplayRight == ESpec => []ReplayGivesSameTip
<1>1. EInit => LogInv
  BY BlockAssumption DEF EInit, Init, LogInv, Requests
<1>2. ServerInv /\ LogInv /\ [ENext]_evars => LogInv'
  BY LogStep
<1>3. ServerInv /\ LogInv => ReplayGivesSameTip
  BY ReplayedTipIsTip DEF ReplayGivesSameTip
<1> QED BY <1>1, <1>2, <1>3, ServerInvariant, PTL DEF ESpec
=============================================================================
