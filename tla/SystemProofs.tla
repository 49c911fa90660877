----------------------------- MODULE SystemProofs -----------------------------
(***************************************************************************)
(* Proofs about System: both processes as they run behave as Indexer and   *)
(* as Pipeline say, so that what is proved of either holds of the system.  *)
(***************************************************************************)
EXTENDS System, IndexerContractProofs

(* Pipeline again, with the theorems about it.                               *)
Q == INSTANCE PipelineProofs WITH
  ready    <- [b \in Blocks |-> Copies(b)],
  handed   <- Handed,
  reported <- published,
  Faults   <- ProducerFaults,
  MaxExits <- MaxRestarts,
  exits    <- restarts

-----------------------------------------------------------------------------
(* A step of the system is a step of the indexer, or none to it.             *)
LEMMA StepOfIndexer == [SystemNext]_systemVars => [Next]_vars
<1> SUFFICES ASSUME [SystemNext]_systemVars PROVE [Next]_vars
  OBVIOUS
<1>1. CASE StartLoop \/ ReceiveACK \/ ContinueUpdateBlockNumber \/ ProducerSurroundings
  BY <1>1 DEF StartLoop, ReceiveACK, ContinueUpdateBlockNumber, ProducerSurroundings, Next
<1>2. CASE IndexerStep
  BY <1>2 DEF IndexerStep, Indexing, Next, BlockConsumerRun, TxConsumerRun,
     LogConsumerRun, Kinds
<1>3. CASE QueuesLost
  BY <1>3 DEF QueuesLost, Next
<1>4. CASE UNCHANGED systemVars
  BY <1>4 DEF systemVars
<1> QED
  BY <1>1, <1>2, <1>3, <1>4 DEF SystemNext

(* Whatever the producer does, the indexer of the system is that of Indexer. *)
THEOREM SystemImplementsIndexer == SystemSpec => Spec
<1>1. SystemInit => Init
  BY DEF SystemInit
<1> QED
  BY <1>1, StepOfIndexer, PTL DEF SystemSpec, Spec

-----------------------------------------------------------------------------
(* What a step of the indexer shows the other side.                          *)

(* A step of the indexer is one of its process and consumers, or of a worker.*)
LEMMA IndexerStepIs ==
  ASSUME IndexerStep
  PROVE  /\ DoneQueue
         /\ abandoned' = abandoned \cup GivenUp
         /\ UNCHANGED loopVars
         /\ \/ \/ Start \/ Restart \/ Crash \/ ConnDrop \/ Signal \/ ShutdownStep
               \/ BlockConsumerRun \/ TxConsumerRun \/ LogConsumerRun
            \/ \E w \in Workers : Scan(w) \/ (\E c \in Blocks : Deliver(w, c))
BY DEF IndexerStep, Indexing, Kinds, BlockConsumerRun, TxConsumerRun, LogConsumerRun

LEMMA IndexerShows ==
  ASSUME HandOverInv, TypeInv', HoldInv, IndexerStep
  PROVE  UNCHANGED Contract!contractVars \/ \E w \in Workers : Shows(w)
BY IndexerStepIs, ProcessRefines, WorkerShows DEF HandOverInv

(* scanDone declares the queue and fails: the message it holds stays.        *)
Declares(w) == conn /\ pc[w] = "publish" /\ pc'[w] = "range"

LEMMA DeclareShows ==
  ASSUME TypeInv, TypeInv', HoldInv, IndexerStep, NEW w \in Workers, Declares(w)
  PROVE  /\ UNCHANGED Contract!contractVars
         /\ \E b \in Blocks : Copies(b) > 0
<1> USE DEF processVars, workerVars, consumerVars, historyVars, queueVars
<1>1. pc \in [Workers -> Pcs] /\ pc[w] = "publish" /\ pc'[w] = "range" /\ conn
  BY DEF Declares, TypeInv, TypeOK
<1>2. ~ExitProcess
  BY <1>1 DEF ExitProcess
<1>3. ~(\/ Start \/ Restart \/ Crash \/ ConnDrop \/ Signal \/ ShutdownStep
        \/ BlockConsumerRun \/ TxConsumerRun \/ LogConsumerRun)
  BY <1>1, <1>2 DEF Start, Restart, Crash, ConnDrop, Signal, ShutdownStep,
     BlockConsumerRun, TxConsumerRun, LogConsumerRun, ConsumerRun
<1>4. PICK v \in Workers : Scan(v) \/ (\E c \in Blocks : Deliver(v, c))
  BY <1>3, IndexerStepIs
<1>5. v = w
  <2>1. ~(\E c \in Blocks : Deliver(v, c)) \/ v = w
    BY <1>1 DEF Deliver, GoTo
  <2>2. Scan(v) => v = w
    BY <1>1, <1>2
    DEF Scan, GetBlockInfo, Setup, RangeEnds, FetchBlock, NextTx, TxDetail, GetLogs,
        SendPanics, SendBlockRow, SendTxRow, SendLogRow, PublishDone, AckDone, FailScan, GoTo
  <2> QED
    BY <1>4, <2>1, <2>2
<1>6. PublishDone(w) /\ UNCHANGED <<ready, unacked, doneQ, skipped, published, buf, store, lost>>
  <2>1. PublishDone(w)
    BY <1>1, <1>2, <1>4, <1>5
    DEF Scan, GetBlockInfo, Setup, RangeEnds, FetchBlock, NextTx, TxDetail, GetLogs,
        SendPanics, SendBlockRow, SendTxRow, SendLogRow, SendRow, AckDone, Deliver
  <2> QED
    BY <1>1, <2>1 DEF PublishDone, GoTo
<1>7. Handed' = Handed /\ \A c \in Blocks : Copies(c)' = Copies(c)
  BY <1>6, UnchangedKeeps DEF Copies
<1>8. job[w] \in Blocks /\ unacked[w] = job[w]
  BY <1>1 DEF HoldInv, HoldsJob, Scanning, TypeInv, CursorOK
<1>9. Copies(job[w]) > 0
  BY <1>8, HolderCounts DEF TypeInv
<1> QED
  BY <1>6, <1>7, <1>8, <1>9, Stutters

-----------------------------------------------------------------------------
(* The system is a behaviour of Pipeline.                                    *)

(* Pipeline reads the chain as Indexer does.                                 *)
LEMMA SamePipeChain ==
  /\ Pipe!Numbers = Blocks
  /\ Pipe!Contract!Rows = Rows
  /\ \A b : Pipe!Contract!RowsOf(b) = RowsOf(b)
  /\ Pipe!Contract!Accounted = Accounted
  /\ \A b, i, j : Pipe!Contract!Before(b, i, j) = Before(b, i, j)
<1>1. Pipe!Numbers = Blocks
  BY SystemAssumption DEF Pipe!Numbers
<1>2. \A b : Pipe!Contract!RowsOf(b) = RowsOf(b)
  BY DEF Pipe!Contract!RowsOf, RowsOf
<1>3. Pipe!Contract!Rows = Rows
  BY <1>1, <1>2 DEF Pipe!Contract!Rows, Rows
<1>4. Pipe!Contract!Accounted = Accounted
  BY <1>3 DEF Pipe!Contract!Accounted, Accounted, SkippedRows
<1> QED
  BY <1>1, <1>2, <1>3, <1>4 DEF Pipe!Contract!Before, Before

(* So the two contracts have the same actions.                               *)
LEMMA SameContract ==
  /\ \A r : Contract!TakeOver(r) => Pipe!Contract!TakeOver(r)
  /\ \A b, i : Contract!Skip(b, i) => Pipe!Contract!Skip(b, i)
  /\ \A b \in Blocks : Contract!Report(b) => Pipe!Contract!Report(b)
  /\ \A b \in Blocks : Contract!Retire(b) => Pipe!Contract!Retire(b)
  /\ Contract!Forget => Pipe!Contract!Forget
<1>1. \A r : Contract!TakeOver(r) => Pipe!Contract!TakeOver(r)
  BY SameChain, SamePipeChain DEF Contract!TakeOver, Pipe!Contract!TakeOver
<1>2. \A b, i : Contract!Skip(b, i) => Pipe!Contract!Skip(b, i)
  BY DEF Contract!Skip, Pipe!Contract!Skip
<1>3. \A b \in Blocks : Contract!Report(b) => Pipe!Contract!Report(b)
  BY SameChain, SamePipeChain DEF Contract!Report, Pipe!Contract!Report
<1>4. \A b \in Blocks : Contract!Retire(b) => Pipe!Contract!Retire(b)
  BY DEF Contract!Retire, Pipe!Contract!Retire
<1>5. Contract!Forget => Pipe!Contract!Forget
  BY SamePipeChain DEF Contract!Forget, Pipe!Contract!Forget
<1> QED
  BY <1>1, <1>2, <1>3, <1>4, <1>5

(* A number on the queue, or with a worker, was pushed.                      *)
FromPush ==
  /\ \A b \in Blocks : Copies(b) > 0 => b \in pushed
  /\ \A w \in Workers : job[w] # None => job[w] \in pushed

(* A step of the producer, and the queues around it.                         *)
Producing ==
  StartLoop \/ ReceiveACK \/ ContinueUpdateBlockNumber \/ ProducerSurroundings

LEMMA ProducingIs ==
  ASSUME Producing
  PROVE  /\ Pipe!StartLoop \/ Pipe!ReceiveACK \/ Pipe!ContinueUpdateBlockNumber
            \/ Pipe!Mine \/ Pipe!Crash \/ Pipe!PanicNoHead
            \/ \E c \in open : Pipe!ConnDrop(c)
         /\ UNCHANGED abandoned
         /\ UNCHANGED vars \/ TakeDone \/ \E b \in Blocks : Push(b)
BY DEF Producing, StartLoop, ReceiveACK, ContinueUpdateBlockNumber, ProducerSurroundings

(* What it pushes is in pushed.                                              *)
LEMMA ProducingPushes ==
  ASSUME Producing
  PROVE  /\ pushed \subseteq pushed'
         /\ \/ [b \in Blocks |-> Copies(b)]' = [b \in Blocks |-> Copies(b)]
            \/ /\ [b \in Blocks |-> Copies(b)]'
                    = [[b \in Blocks |-> Copies(b)] EXCEPT ![index] = @ + 1]
               /\ pushed' = pushed \cup {index}
<1> USE DEF Pipe!rowVars, Pipe!queueVars, Pipe!connVars, Pipe!loopVars, Pipe!ackVars,
            Pipe!historyVars
<1>1. CASE Pipe!StartLoop
  BY <1>1 DEF Pipe!StartLoop, Pipe!Dial, Pipe!GetLatestBlockNumber, Pipe!Load,
     Pipe!AssignDbLatest, Pipe!PushNext, Pipe!LoopEnds, Pipe!PushMsg
<1>2. CASE Pipe!ReceiveACK
  BY <1>2 DEF Pipe!ReceiveACK, Pipe!Subscribe, Pipe!SubscribeFatal, Pipe!ReceiveDone,
     Pipe!UpdateRow, Pipe!StoreDbLatest, Pipe!AckDone, Pipe!ReceiverEnds, Pipe!ExitProcess
<1>3. CASE \/ Pipe!ContinueUpdateBlockNumber \/ Pipe!Mine \/ Pipe!Crash
           \/ Pipe!PanicNoHead \/ \E c \in open : Pipe!ConnDrop(c)
  BY <1>3 DEF Pipe!ContinueUpdateBlockNumber, Pipe!Mine, Pipe!Crash, Pipe!PanicNoHead,
     Pipe!ExitProcess, Pipe!ConnDrop
<1> QED
  BY <1>1, <1>2, <1>3, ProducingIs

(* A copy that is there after a step of the indexer was there before.        *)
LEMMA IndexerAddsNone ==
  ASSUME HandOverInv, TypeInv', HoldInv, IndexerStep, NEW b \in Blocks, Copies(b)' > 0
  PROVE  Copies(b) > 0
<1>1. Copies(b) \in Nat
  BY HoldersFinite DEF HandOverInv, TypeInv, TypeOK
<1>2. CASE [c \in Blocks |-> Copies(c)]' = [c \in Blocks |-> Copies(c)]
  BY <1>2
<1>3. ASSUME NEW w \in Workers, job[w] \in Blocks, Contract!Retire(job[w]) PROVE Copies(b) > 0
  BY <1>1, <1>3 DEF Contract!Retire
<1>4. UNCHANGED Contract!contractVars \/ \E w \in Workers : Shows(w)
  BY IndexerShows
<1> QED
  BY <1>2, <1>3, <1>4
  DEF Shows, Contract!contractVars, Contract!TakeOver, Contract!Skip, Contract!Report

(* The jobs of the workers come from the queue.                              *)
LEMMA JobFromQueue ==
  ASSUME TypeInv, IndexerStep, NEW w \in Workers, job'[w] # None
  PROVE  job'[w] = job[w] \/ (job'[w] \in Blocks /\ Copies(job'[w]) > 0)
<1> USE DEF processVars, workerVars, consumerVars, historyVars, queueVars
<1>1. job \in [Workers -> Blocks \cup {None}]
  BY DEF TypeInv, TypeOK
<1>2. CASE \/ Start \/ Restart \/ Crash \/ ConnDrop \/ Signal \/ ShutdownStep
           \/ BlockConsumerRun \/ TxConsumerRun \/ LogConsumerRun
  BY <1>2 DEF Start, Restart, Crash, ConnDrop, Signal, ShutdownStep, ExitProcess,
     BlockConsumerRun, TxConsumerRun, LogConsumerRun, ConsumerRun
<1>3. ASSUME NEW v \in Workers, Scan(v)
      PROVE  job'[w] = job[w]
  BY <1>1, <1>3
  DEF Scan, GetBlockInfo, Setup, RangeEnds, FetchBlock, NextTx, TxDetail, GetLogs,
      SendPanics, SendBlockRow, SendTxRow, SendLogRow, SendRow, PublishDone, AckDone,
      FailScan, ClearJob, ExitProcess
<1>4. ASSUME NEW v \in Workers, NEW c \in Blocks, Deliver(v, c)
      PROVE  job'[w] = job[w] \/ (job'[w] \in Blocks /\ Copies(job'[w]) > 0)
  <2>1. job'[w] = job[w] \/ (job'[w] = c /\ ready[c] > 0)
    BY <1>1, <1>4 DEF Deliver
  <2>2. ready[c] > 0 => Copies(c) > 0
    <3>1. ready[c] \in Nat /\ Cardinality(Holders(c)) \in Nat
      BY HoldersFinite DEF TypeInv, TypeOK
    <3> QED
      BY <3>1 DEF Copies, Holders
  <2> QED
    BY <2>1, <2>2
<1> HIDE DEF processVars, workerVars, consumerVars, historyVars, queueVars
<1> QED
  BY <1>2, <1>3, <1>4, IndexerStepIs

LEMMA NextFromPush ==
  ASSUME HandOverInv, TypeInv', HoldInv, FromPush, [SystemNext]_systemVars
  PROVE  FromPush'
<1> USE DEF processVars, workerVars, consumerVars, historyVars, queueVars
<1>0. TypeInv
  BY DEF HandOverInv
<1>1. CASE Producing
  <2>1. UNCHANGED job /\ pushed \subseteq pushed'
    BY <1>1, ProducingIs, ProducingPushes DEF Push, TakeDone, vars
  <2>2. ASSUME NEW b \in Blocks, Copies(b)' > 0 PROVE b \in pushed'
    <3>1. Copies(b)' = Copies(b) \/ b \in pushed'
      BY <1>1, ProducingPushes
    <3> QED
      BY <2>1, <2>2, <3>1 DEF FromPush
  <2> QED
    BY <2>1, <2>2 DEF FromPush
<1>2. CASE IndexerStep
  <2>1. pushed' = pushed
    BY <1>2, IndexerStepIs DEF loopVars
  <2>2. \A b \in Blocks : Copies(b)' > 0 => b \in pushed'
    BY <1>2, <2>1, IndexerAddsNone DEF FromPush
  <2>3. \A w \in Workers : job'[w] # None => job'[w] \in pushed'
    BY <1>0, <1>2, <2>1, JobFromQueue DEF FromPush
  <2> QED
    BY <2>2, <2>3 DEF FromPush
<1>3. CASE QueuesLost
  <2>1. UNCHANGED <<job, pushed>>
    BY <1>3 DEF QueuesLost, BrokerRestart, Pipe!BrokerRestart, Pipe!historyVars
  <2>2. \A b \in Blocks : Copies(b)' = 0
    BY <1>3, RestartRefines DEF QueuesLost, Contract!Forget
  <2> QED
    BY <2>1, <2>2 DEF FromPush
<1>4. CASE UNCHANGED systemVars
  BY <1>4 DEF systemVars, vars, loopVars, FromPush, Copies
<1> QED
  BY <1>1, <1>2, <1>3, <1>4 DEF SystemNext, Producing

-----------------------------------------------------------------------------
(* Step by step.                                                             *)

LEMMA ProducingRefines ==
  ASSUME Producing
  PROVE  Pipe!ProducerStep
<1>1. UNCHANGED <<store, lost, buf, skipped, published>>
  BY ProducingIs
  DEF vars, consumerVars, historyVars, Push, TakeDone
<1>2. Handed' = Handed
  BY <1>1, UnchangedKeeps
<1> QED
  BY <1>1, <1>2, ProducingIs DEF Pipe!ProducerStep, Pipe!scanVars

LEMMA LostRefines ==
  ASSUME TypeInv, QueuesLost
  PROVE  Pipe!QueuesLost
<1>1. Contract!Forget
  BY RestartRefines DEF QueuesLost
<1>2. GivenUp = {b \in Blocks \ published : Copies(b) > 0}
  <2>1. \A b \in Blocks : Copies(b)' = 0
    BY <1>1 DEF Contract!Forget
  <2> QED
    BY <2>1 DEF GivenUp
<1>3. {b \in Pipe!Numbers \ published : [c \in Blocks |-> Copies(c)][b] > 0} = GivenUp
  BY <1>2, SamePipeChain
<1> QED
  BY <1>1, <1>3, SameContract DEF QueuesLost, Pipe!QueuesLost

(* What the indexer leaves alone of the producer.                            *)
LEMMA LeftAlone ==
  ASSUME UNCHANGED loopVars
  PROVE  UNCHANGED <<Pipe!rowVars, Pipe!connVars, latest, dbLatest, tries,
                     Pipe!loopVars, Pipe!ackVars, restarts, Pipe!historyVars>>
BY DEF loopVars, Pipe!rowVars, Pipe!connVars, Pipe!loopVars, Pipe!ackVars, Pipe!historyVars

LEMMA SilentStep ==
  ASSUME TypeInv, HoldInv, IndexerStep, UNCHANGED Contract!contractVars,
         declared' = declared \/ (declared' = TRUE /\ \E b \in Blocks : Copies(b) > 0)
  PROVE  Pipe!Declare \/ UNCHANGED Pipe!pipelineVars
<1>1. [b \in Blocks |-> Copies(b)]' = [b \in Blocks |-> Copies(b)]
      /\ UNCHANGED <<doneQ, skipped, published>> /\ Handed' = Handed
  BY DEF Contract!contractVars
<1>2. UNCHANGED <<dones, abandoned>>
  <2>1. \A b \in Blocks : Copies(b)' = Copies(b) /\ Copies(b) \in Nat
    <3> TAKE b \in Blocks
    <3>1. Copies(b)' = Copies(b)
      BY <1>1
    <3>2. ready[b] \in Nat /\ Cardinality(Holders(b)) \in Nat
      BY HoldersFinite DEF TypeInv, TypeOK
    <3>3. Copies(b) \in Nat
      BY <3>2 DEF Copies, Holders
    <3> QED
      BY <3>1, <3>3
  <2>2. GivenUp = {}
    BY <2>1 DEF GivenUp
  <2> QED
    BY <1>1, <2>2, IndexerStepIs DEF DoneQueue
<1>3. UNCHANGED loopVars
  BY IndexerStepIs
<1>4. CASE declared' = declared
  BY <1>1, <1>2, <1>3, <1>4, LeftAlone
  DEF Pipe!pipelineVars, Pipe!vars, Pipe!scanVars, Pipe!queueVars
<1>5. CASE declared' = TRUE /\ \E b \in Blocks : Copies(b) > 0
  BY <1>1, <1>2, <1>3, <1>5, LeftAlone, SamePipeChain
  DEF Pipe!Declare, Pipe!IndexerDeclares, Pipe!scanVars
<1> QED
  BY <1>4, <1>5

(* A step that shows something, and declares no queue but to publish on it.  *)
LEMMA ShownStep ==
  ASSUME TypeInv, HoldInv, FromPush, IndexerStep, ~\E w \in Workers : Declares(w),
         NEW w \in Workers, Shows(w)
  PROVE  Pipe!PipelineNext
<1>0. /\ UNCHANGED loopVars /\ DoneQueue /\ abandoned' = abandoned \cup GivenUp
      /\ job[w] \in Blocks /\ job[w] \in pushed /\ doneQ \in Seq(Blocks)
  BY IndexerStepIs, IndexerAssumption
  DEF Shows, FromPush, TypeInv, CursorOK, TypeOK
<1>1. ASSUME [b \in Blocks |-> Copies(b)]' = [b \in Blocks |-> Copies(b)]
      PROVE  abandoned' = abandoned
  <2>1. \A b \in Blocks : Copies(b)' = Copies(b) /\ Copies(b) \in Nat
    <3> TAKE b \in Blocks
    <3>1. Copies(b)' = Copies(b)
      BY <1>1
    <3>2. ready[b] \in Nat /\ Cardinality(Holders(b)) \in Nat
      BY HoldersFinite DEF TypeInv, TypeOK
    <3>3. Copies(b) \in Nat
      BY <3>2 DEF Copies, Holders
    <3> QED
      BY <3>1, <3>3
  <2> QED
    BY <1>0, <2>1 DEF GivenUp
<1>2. doneQ' = doneQ => UNCHANGED <<dones, declared>>
  BY <1>0 DEF DoneQueue, Declares
<1>3. ASSUME \/ Contract!TakeOver(Cursor(w)) /\ Cursor(w) \in Rows
             \/ Contract!Skip(job[w], tx[w]) /\ tx[w] \in DOMAIN TxLogs[job[w]]
      PROVE  Pipe!HandOver
  <2>1. [b \in Blocks |-> Copies(b)]' = [b \in Blocks |-> Copies(b)] /\ doneQ' = doneQ
    BY <1>3 DEF Contract!TakeOver, Contract!Skip
  <2>2. UNCHANGED Pipe!vars /\ abandoned' = abandoned
    BY <1>0, <1>1, <1>2, <2>1, LeftAlone DEF Pipe!vars, Pipe!queueVars
  <2>3. Cursor(w)[1] = job[w]
    BY DEF Cursor
  <2>4. \/ Pipe!Contract!TakeOver(Cursor(w)) /\ Cursor(w) \in Pipe!Contract!Rows
        \/ Pipe!Contract!Skip(job[w], tx[w]) /\ tx[w] \in DOMAIN TxLogs[job[w]]
    BY <1>3, SamePipeChain, SameContract
  <2> QED
    BY <1>0, <2>2, <2>3, <2>4 DEF Pipe!HandOver
<1>4. ASSUME Contract!Report(job[w])
      PROVE  Pipe!Report(job[w])
  <2>1. /\ [b \in Blocks |-> Copies(b)]' = [b \in Blocks |-> Copies(b)]
        /\ doneQ' = Append(doneQ, job[w]) /\ Copies(job[w]) > 0
    BY <1>0, <1>4 DEF Contract!Report
  <2>2. doneQ' # doneQ
    BY <1>0, <2>1
  <2>3. dones < MaxDones /\ dones' = dones + 1 /\ declared' = TRUE
    BY <1>0, <2>2 DEF DoneQueue
  <2>4. Pipe!IndexerDone(job[w])
    BY <1>0, <2>1, <2>3, LeftAlone DEF Pipe!IndexerDone
  <2> QED
    BY <1>0, <1>1, <1>4, <2>1, <2>4, SameContract DEF Pipe!Report
<1>5. ASSUME Contract!Retire(job[w])
      PROVE  Pipe!Retire(job[w])
  <2>1. /\ [b \in Blocks |-> Copies(b)]'
             = [[b \in Blocks |-> Copies(b)] EXCEPT ![job[w]] = @ - 1]
        /\ doneQ' = doneQ /\ published' = published /\ Copies(job[w]) > 0
    BY <1>0, <1>5 DEF Contract!Retire
  <2>2. \A b \in Blocks : Copies(b)' < Copies(b) <=> b = job[w]
    <3> TAKE b \in Blocks
    <3>1. Copies(b)' = IF b = job[w] THEN Copies(b) - 1 ELSE Copies(b)
      BY <1>0, <2>1
    <3>2. ready[b] \in Nat /\ Cardinality(Holders(b)) \in Nat
      BY HoldersFinite DEF TypeInv, TypeOK
    <3>3. Copies(b) \in Nat
      BY <3>2 DEF Copies, Holders
    <3> QED
      BY <3>1, <3>3
  <2>3. GivenUp = {job[w]} \ published
    BY <1>0, <2>2 DEF GivenUp
  <2>4. Pipe!IndexerGivesUp(job[w])
    BY <1>0, <1>2, <2>1, LeftAlone DEF Pipe!IndexerGivesUp
  <2> QED
    BY <1>0, <1>5, <2>3, <2>4, SameContract DEF Pipe!Retire
<1> QED
  BY <1>0, <1>3, <1>4, <1>5, SamePipeChain DEF Shows, Pipe!PipelineNext

LEMMA IndexerRefinesPipe ==
  ASSUME HandOverInv, TypeInv', HoldInv, FromPush, IndexerStep
  PROVE  Pipe!PipelineNext \/ UNCHANGED Pipe!pipelineVars
<1>0. TypeInv
  BY DEF HandOverInv
<1>1. declared' = declared \/ (declared' = TRUE /\ \E w \in Workers : Declares(w))
      \/ doneQ' # doneQ
  BY IndexerStepIs DEF DoneQueue, Declares
<1>2. CASE \E w \in Workers : Declares(w)
  <2>1. UNCHANGED Contract!contractVars /\ \E b \in Blocks : Copies(b) > 0
    BY <1>0, <1>2, DeclareShows
  <2>2. declared' = declared \/ declared' = TRUE
    BY <1>1, <2>1 DEF Contract!contractVars
  <2> QED
    BY <1>0, <2>1, <2>2, SilentStep DEF Pipe!PipelineNext
<1>3. CASE ~\E w \in Workers : Declares(w)
  <2>1. CASE UNCHANGED Contract!contractVars
    <3>1. declared' = declared
      BY <1>1, <1>3, <2>1 DEF Contract!contractVars
    <3> QED
      BY <1>0, <2>1, <3>1, SilentStep DEF Pipe!PipelineNext
  <2>2. CASE \E w \in Workers : Shows(w)
    BY <1>0, <1>3, <2>2, ShownStep
  <2> QED
    BY <2>1, <2>2, IndexerShows
<1> QED
  BY <1>2, <1>3

(* What holds at every step of the system.                                   *)
SystemInv == HandOverInv /\ HoldInv /\ FromPush

LEMMA SystemInitInv == SystemInit => SystemInv
<1> SUFFICES ASSUME SystemInit PROVE SystemInv
  OBVIOUS
<1>1. Init
  BY DEF SystemInit
<1>2. \A b \in Blocks : Copies(b) = 0
  BY <1>1, InitRefines DEF Contract!Init
<1>3. FromPush
  BY <1>1, <1>2 DEF FromPush, Init
<1> QED
  BY <1>1, <1>3, InitHandOver, InitHold DEF SystemInv, HoldTypeInv

LEMMA SystemNextInv ==
  SystemInv /\ [SystemNext]_systemVars => SystemInv' /\ TypeInv'
<1> SUFFICES ASSUME SystemInv, [SystemNext]_systemVars PROVE SystemInv' /\ TypeInv'
  OBVIOUS
<1>1. [Next]_vars /\ TypeInv
  BY StepOfIndexer DEF SystemInv, HandOverInv
<1>2. TypeInv'
  BY <1>1, NextType
<1>3. HandOverInv' /\ HoldInv'
  BY <1>1, <1>2, NextHandOver, NextHold DEF SystemInv
<1>4. FromPush'
  BY <1>2, NextFromPush DEF SystemInv
<1> QED
  BY <1>2, <1>3, <1>4 DEF SystemInv

LEMMA SystemInvariant == SystemSpec => []SystemInv
BY SystemInitInv, SystemNextInv, PTL DEF SystemSpec

LEMMA StepOfPipeline ==
  SystemInv /\ [SystemNext]_systemVars => [Pipe!PipelineNext]_(Pipe!pipelineVars)
<1> SUFFICES ASSUME SystemInv, [SystemNext]_systemVars
             PROVE  Pipe!PipelineNext \/ UNCHANGED Pipe!pipelineVars
  OBVIOUS
<1>0. TypeInv /\ TypeInv' /\ HandOverInv /\ HoldInv /\ FromPush
  BY SystemNextInv DEF SystemInv, HandOverInv
<1>1. CASE Producing
  BY <1>1, ProducingRefines DEF Pipe!PipelineNext
<1>2. CASE IndexerStep
  BY <1>0, <1>2, IndexerRefinesPipe
<1>3. CASE QueuesLost
  BY <1>0, <1>3, LostRefines DEF Pipe!PipelineNext
<1>4. CASE UNCHANGED systemVars
  <2>1. UNCHANGED <<store, lost, buf, ready, unacked>>
    BY <1>4 DEF systemVars, vars, consumerVars, queueVars
  <2>2. Handed' = Handed /\ [b \in Blocks |-> Copies(b)]' = [b \in Blocks |-> Copies(b)]
    BY <2>1, UnchangedKeeps DEF Copies
  <2> QED
    BY <1>4, <2>2, LeftAlone
    DEF systemVars, vars, queueVars, historyVars, Pipe!pipelineVars, Pipe!vars,
        Pipe!scanVars, Pipe!queueVars
<1> QED
  BY <1>1, <1>2, <1>3, <1>4 DEF SystemNext, Producing

(* The two processes, with all their workers, buffers, connections and       *)
(* restarts, are a behaviour of Pipeline: the indexer keeps to what the      *)
(* producer assumes of the other side of its queues.                         *)
THEOREM SystemImplementsPipeline == SystemSpec => ImplementsPipeline
<1>1. SystemInit => Pipe!PipelineInit
  <2> SUFFICES ASSUME SystemInit PROVE Pipe!PipelineInit
    OBVIOUS
  <2>1. Contract!Init
    BY InitRefines DEF SystemInit
  <2>2. Pipe!Contract!Init
    BY <2>1, SamePipeChain DEF Contract!Init, Pipe!Contract!Init
  <2> QED
    BY <2>2 DEF SystemInit, Pipe!PipelineInit
<1> QED
  BY <1>1, SystemInvariant, StepOfPipeline, PTL
  DEF SystemSpec, ImplementsPipeline, Pipe!PipelineSpec

-----------------------------------------------------------------------------
(* What is proved of Pipeline holds of the system.  Q is Pipe with the       *)
(* theorems about it: the definitions are the same, one by one.              *)

LEMMA SameAround ==
  ASSUME NEW c
  PROVE  /\ Pipe!Mine => Q!Mine
         /\ Pipe!Crash => Q!Crash
         /\ Pipe!ConnDrop(c) => Q!ConnDrop(c)
         /\ Pipe!ContinueUpdateBlockNumber => Q!ContinueUpdateBlockNumber
         /\ Pipe!PanicNoHead => Q!PanicNoHead
<1> USE DEF Pipe!rowVars, Q!rowVars, Pipe!queueVars, Q!queueVars, Pipe!connVars,
      Q!connVars, Pipe!loopVars, Q!loopVars, Pipe!ackVars, Q!ackVars,
      Pipe!historyVars, Q!historyVars
<1> QED
  BY DEF Pipe!Mine, Q!Mine, Pipe!Crash, Q!Crash, Pipe!ConnDrop, Q!ConnDrop,
      Pipe!ContinueUpdateBlockNumber, Q!ContinueUpdateBlockNumber,
      Pipe!PanicNoHead, Q!PanicNoHead, Pipe!AskHead, Q!AskHead, Pipe!MissHead,
      Q!MissHead, Pipe!ExitProcess,
      Q!ExitProcess, Pipe!CreateEthClient, Q!CreateEthClient, Pipe!Started,
      Q!Started, Pipe!Fault, Q!Fault

LEMMA SameLoop == Pipe!StartLoop => Q!StartLoop
<1> USE DEF Pipe!rowVars, Q!rowVars, Pipe!queueVars, Q!queueVars, Pipe!connVars,
      Q!connVars, Pipe!loopVars, Q!loopVars, Pipe!ackVars, Q!ackVars,
      Pipe!historyVars, Q!historyVars
<1> QED
  BY DEF Pipe!StartLoop, Q!StartLoop, Pipe!Dial, Q!Dial,
      Pipe!GetLatestBlockNumber, Q!GetLatestBlockNumber, Pipe!Load, Q!Load,
      Pipe!AssignDbLatest, Q!AssignDbLatest, Pipe!PushNext, Q!PushNext,
      Pipe!PushMsg, Q!PushMsg, Pipe!LoopEnds, Q!LoopEnds, Pipe!AskHead,
      Q!AskHead, Pipe!MissHead, Q!MissHead, Pipe!CreateEthClient,
      Q!CreateEthClient, Pipe!Fault, Q!Fault, Pipe!Numbers, Q!Numbers

LEMMA SameAcks == Pipe!ReceiveACK => Q!ReceiveACK
<1> USE DEF Pipe!rowVars, Q!rowVars, Pipe!queueVars, Q!queueVars, Pipe!connVars,
      Q!connVars, Pipe!loopVars, Q!loopVars, Pipe!ackVars, Q!ackVars,
      Pipe!historyVars, Q!historyVars
<1> QED
  BY DEF Pipe!ReceiveACK, Q!ReceiveACK, Pipe!Subscribe, Q!Subscribe,
      Pipe!SubscribeFatal, Q!SubscribeFatal, Pipe!ReceiveDone, Q!ReceiveDone,
      Pipe!AckHead, Q!AckHead, Pipe!UpdateRow, Q!UpdateRow, Pipe!StoreDbLatest,
      Q!StoreDbLatest, Pipe!AckDone, Q!AckDone, Pipe!ReceiverEnds,
      Q!ReceiverEnds, Pipe!ExitProcess, Q!ExitProcess, Pipe!Fault, Q!Fault

LEMMA SamePromises ==
  /\ Pipe!Numbers = Q!Numbers
  /\ Pipe!Contract!Rows = Q!Contract!Rows
  /\ \A b : Pipe!Contract!RowsOf(b) = Q!Contract!RowsOf(b)
  /\ Pipe!Contract!Accounted = Q!Contract!Accounted
  /\ \A r : Pipe!Contract!TakeOver(r) => Q!Contract!TakeOver(r)
  /\ \A b, i : Pipe!Contract!Skip(b, i) => Q!Contract!Skip(b, i)
  /\ \A b : Pipe!Contract!Report(b) => Q!Contract!Report(b)
  /\ \A b : Pipe!Contract!Retire(b) => Q!Contract!Retire(b)
  /\ Pipe!Contract!Forget => Q!Contract!Forget
BY DEF Pipe!Numbers, Q!Numbers, Pipe!Contract!RowsOf, Q!Contract!RowsOf,
      Pipe!Contract!Rows, Q!Contract!Rows, Pipe!Contract!Before,
      Q!Contract!Before, Pipe!Contract!Accounted, Q!Contract!Accounted,
      Pipe!Contract!TakeOver, Q!Contract!TakeOver, Pipe!Contract!Skip,
      Q!Contract!Skip, Pipe!Contract!Report, Q!Contract!Report,
      Pipe!Contract!Retire, Q!Contract!Retire, Pipe!Contract!Forget,
      Q!Contract!Forget

LEMMA SameIndexer ==
  ASSUME NEW b
  PROVE  /\ Pipe!HandOver => Q!HandOver
         /\ Pipe!Report(b) => Q!Report(b)
         /\ Pipe!Retire(b) => Q!Retire(b)
         /\ Pipe!Declare => Q!Declare
         /\ Pipe!QueuesLost => Q!QueuesLost
<1> USE SamePromises DEF Pipe!rowVars, Q!rowVars, Pipe!queueVars, Q!queueVars, Pipe!connVars,
      Q!connVars, Pipe!loopVars, Q!loopVars, Pipe!ackVars, Q!ackVars,
      Pipe!historyVars, Q!historyVars
<1>1. Pipe!HandOver => Q!HandOver
  BY DEF Pipe!HandOver, Q!HandOver, Pipe!vars, Q!vars
<1>2. Pipe!Report(b) => Q!Report(b)
  BY DEF Pipe!Report, Q!Report, Pipe!IndexerDone, Q!IndexerDone
<1>3. Pipe!Retire(b) => Q!Retire(b)
  BY DEF Pipe!Retire, Q!Retire, Pipe!IndexerGivesUp, Q!IndexerGivesUp
<1>4. Pipe!Declare => Q!Declare
  BY DEF Pipe!Declare, Q!Declare, Pipe!IndexerDeclares, Q!IndexerDeclares,
     Pipe!scanVars, Q!scanVars
<1>5. Pipe!QueuesLost => Q!QueuesLost
  BY DEF Pipe!QueuesLost, Q!QueuesLost, Pipe!BrokerRestart, Q!BrokerRestart,
     Pipe!Fault, Q!Fault
<1> QED
  BY <1>1, <1>2, <1>3, <1>4, <1>5

LEMMA SystemIsPipeline == SystemSpec => Q!PipelineSpec
<1>1. Pipe!PipelineInit => Q!PipelineInit
  BY DEF Pipe!PipelineInit, Q!PipelineInit, Pipe!Init, Q!Init, Pipe!Contract!Init,
     Q!Contract!Init, Pipe!Numbers, Q!Numbers
<1>2. [Pipe!PipelineNext]_(Pipe!pipelineVars) => [Q!PipelineNext]_(Q!pipelineVars)
  <2> SUFFICES ASSUME Pipe!PipelineNext \/ UNCHANGED Pipe!pipelineVars
               PROVE  Q!PipelineNext \/ UNCHANGED Q!pipelineVars
    OBVIOUS
  <2>1. CASE Pipe!ProducerStep
    BY <2>1, SameAround, SameLoop, SameAcks
    DEF Pipe!ProducerStep, Q!ProducerStep, Q!PipelineNext, Pipe!scanVars, Q!scanVars
  <2>2. CASE \/ Pipe!QueuesLost \/ Pipe!HandOver \/ Pipe!Declare
             \/ \E b \in Blocks : Pipe!Report(b) \/ Pipe!Retire(b)
    BY <2>2, SameIndexer, SamePromises, SamePipeChain DEF Q!PipelineNext
  <2>3. CASE UNCHANGED Pipe!pipelineVars
    BY <2>3 DEF Pipe!pipelineVars, Q!pipelineVars, Pipe!vars, Q!vars, Pipe!scanVars,
       Q!scanVars, Pipe!rowVars, Q!rowVars, Pipe!queueVars, Q!queueVars, Pipe!connVars,
       Q!connVars, Pipe!loopVars, Q!loopVars, Pipe!ackVars, Q!ackVars,
       Pipe!historyVars, Q!historyVars
  <2> QED
    BY <2>1, <2>2, <2>3, SamePipeChain DEF Pipe!PipelineNext
<1> QED
  BY <1>1, <1>2, SystemImplementsPipeline, PTL
  DEF ImplementsPipeline, Pipe!PipelineSpec, Q!PipelineSpec

LEMMA ProducerSettings == Q!ProducerAssumption
BY SystemAssumption DEF Q!ProducerAssumption, Q!FaultKinds

-----------------------------------------------------------------------------
(* The end to end promise, of the processes themselves: a block below the    *)
(* watermark is handed over whole or its number is still on the queue,       *)
(* unless its push failed, a worker gave it up, or RabbitMQ lost it.         *)
THEOREM NothingMissed == SystemSpec => []NothingMissedSilently
<1>1. Q!PipelineSpec => []Q!NothingMissedSilently
  BY ProducerSettings, Q!NoSilentMiss
<1>2. Q!NothingMissedSilently => NothingMissedSilently
  BY SamePromises
  DEF Q!NothingMissedSilently, NothingMissedSilently, Pipe!NothingMissedSilently,
      Q!Complete, Pipe!Complete
<1> QED
  BY <1>1, <1>2, SystemIsPipeline, PTL

(* The watermark is the number of a block whose rows were all taken over.    *)
THEOREM WatermarkIsWhole == SystemSpec => []WatermarkComplete
<1>1. Q!PipelineSpec => []Q!WatermarkComplete
  BY ProducerSettings, Q!WatermarkIsComplete
<1>2. Q!WatermarkComplete => WatermarkComplete
  BY SamePromises
  DEF Q!WatermarkComplete, WatermarkComplete, Pipe!WatermarkComplete,
      Q!Complete, Pipe!Complete
<1> QED
  BY <1>1, <1>2, SystemIsPipeline, PTL

(* No worker scans a block that is not mined: what it holds was pushed, and  *)
(* what is pushed is mined.                                                  *)
THEOREM FetchedIsMined == SystemSpec => []OnlyMinedFetched
<1>1. Q!PipelineSpec => []Q!OnlyMinedPushed
  BY ProducerSettings, Q!PipelineImplementsProducer, Q!NothingPushedAhead, PTL
  DEF Q!ImplementsProducer
<1>2. SystemInv /\ Q!OnlyMinedPushed => OnlyMinedFetched
  BY DEF SystemInv, FromPush, Q!OnlyMinedPushed, OnlyMinedFetched
<1> QED
  BY <1>1, <1>2, SystemIsPipeline, SystemInvariant, PTL

-----------------------------------------------------------------------------
(* Without the failures that lose numbers.                                   *)

(* No number was given up, and Shutdown keeps its order.                     *)
KeptInv == SystemInv /\ ClosedFirst /\ abandoned = {}

LEMMA NextKept ==
  ASSUME "rpc" \notin Faults, "broker" \notin Faults, BadTxs = {}
  PROVE  KeptInv /\ [SystemNext]_systemVars => KeptInv'
<1> SUFFICES ASSUME KeptInv, [SystemNext]_systemVars PROVE KeptInv'
  OBVIOUS
<1>1. /\ TypeInv /\ TypeInv' /\ HandOverInv /\ HoldInv /\ [Next]_vars /\ SystemInv'
  BY SystemNextInv, StepOfIndexer DEF KeptInv, SystemInv, HandOverInv
<1>2. ClosedFirst'
  BY <1>1, NextClosedFirst DEF KeptInv
<1>3. CASE Producing \/ UNCHANGED systemVars
  BY <1>1, <1>2, <1>3, ProducingIs DEF KeptInv, systemVars
<1>4. CASE IndexerStep
  <2>1. GivenUp = {}
    BY <1>1, LeavesReported DEF KeptInv, GivenUp
  <2> QED
    BY <1>1, <1>2, <1>4, <2>1, IndexerStepIs DEF KeptInv
<1>5. ~QueuesLost
  BY DEF QueuesLost, BrokerRestart, Fault
<1> QED
  BY <1>3, <1>4, <1>5 DEF SystemNext, Producing

(* A gap below the watermark is the mark of an RPC failure, of a transaction *)
(* that does not convert, of a push that failed or of a restart of RabbitMQ. *)
THEOREM NoGapWithoutLoss ==
  ASSUME "rpc" \notin Faults, "broker" \notin Faults, BadTxs = {},
         ProducerFaults \cap {"publish", "drop", "broker"} = {}
  PROVE  SystemSpec => []NoGap
<1>1. SystemInit => KeptInv
  BY SystemInitInv DEF SystemInit, KeptInv, Init, ClosedFirst
<1>2. SystemSpec => [](abandoned = {})
  <2>1. KeptInv => abandoned = {}
    BY DEF KeptInv
  <2> QED
    BY <1>1, <2>1, NextKept, PTL DEF SystemSpec
<1>3. Q!PipelineSpec => [](dropped = {})
  <2>1. Q!Spec => [](dropped = {})
    BY ProducerSettings, Q!NothingDropped
  <2>2. Q!PipelineSpec => Q!ImplementsProducer
    BY ProducerSettings, Q!PipelineImplementsProducer
  <2> QED
    BY <2>1, <2>2, PTL DEF Q!ImplementsProducer
<1>4. NothingMissedSilently /\ dropped = {} /\ abandoned = {} => NoGap
  BY SamePipeChain DEF NothingMissedSilently, Pipe!NothingMissedSilently, NoGap
<1> QED
  BY <1>2, <1>3, <1>4, NothingMissed, SystemIsPipeline, PTL

=============================================================================
