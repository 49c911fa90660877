-------------------------------- MODULE System --------------------------------
(***************************************************************************)
(* The two processes as they run: the indexer of Indexer, worker by worker *)
(* and buffer by buffer, and the producer of Producer, over the same two   *)
(* queues.  What either module assumes of the other side is here done by   *)
(* it: a push of the producer is what the workers are delivered, a publish *)
(* of scanDone what receiveACK takes.  The variables of the indexer have   *)
(* their names, of those of the producer exits is called restarts.         *)
(***************************************************************************)
EXTENDS Indexer

CONSTANTS
  MaxRetryTime,      (* MAX_RETRY_TIME of the configuration                  *)
  ProducerFaults,    (* the failures that may hit the producer               *)
  MaxHead,           (* bound: the highest block mined                       *)
  MaxDones,          (* bound: done messages published                       *)
  MaxDials,          (* bound: AMQP connections opened by one producer       *)
  MaxRestarts        (* bound: exits of the producer                         *)

ASSUME SystemAssumption ==
  /\ Blocks = 0 .. MaxHead
  /\ MaxRetryTime \in Nat \ {0}
  /\ ProducerFaults \subseteq {"rpc", "reset", "load", "update", "publish", "drop",
                               "broker", "crash"}
  /\ MaxHead \in Nat
  /\ MaxDones \in Nat
  /\ MaxDials \in Nat \ {0}
  /\ MaxRestarts \in Nat

VARIABLES
  head, dbRow, declared, dones, open, dials, mqConn, ackConn, latest, dbLatest,
  tries, ppc, index, apc, num, restarts, pushed, dropped, synced,
  abandoned          (* history, as in Pipeline                              *)

loopVars == <<head, dbRow, open, dials, mqConn, ackConn, latest, dbLatest, tries,
              ppc, index, apc, num, restarts, pushed, dropped, synced>>
systemVars == <<vars, loopVars, declared, dones, abandoned>>

(* The producer with the indexer as its queues and its rows show it: on the  *)
(* queue are the copies of a number that RabbitMQ answers for.               *)
Pipe == INSTANCE Pipeline WITH
  ready    <- [b \in Blocks |-> Copies(b)],
  handed   <- Handed,
  reported <- published,
  Faults   <- ProducerFaults,
  MaxExits <- MaxRestarts,
  exits    <- restarts

SystemInit == Init /\ Pipe!Init /\ abandoned = {}

-----------------------------------------------------------------------------
(* The producer.                                                             *)

(* A push that succeeds puts the number where workers are delivered it.      *)
StartLoop ==
  /\ UNCHANGED vars \/ \E b \in Blocks : Push(b)
  /\ Pipe!StartLoop
  /\ UNCHANGED abandoned

(* An ack takes the message scanDone published.                              *)
ReceiveACK ==
  /\ UNCHANGED vars \/ TakeDone
  /\ Pipe!ReceiveACK
  /\ UNCHANGED abandoned

ContinueUpdateBlockNumber ==
  /\ UNCHANGED vars
  /\ Pipe!ContinueUpdateBlockNumber \/ Pipe!PanicNoHead
  /\ UNCHANGED abandoned

(* What happens to the producer and around it.                               *)
ProducerSurroundings ==
  /\ UNCHANGED vars
  /\ \/ Pipe!Mine \/ Pipe!Crash
     \/ \E c \in open : Pipe!ConnDrop(c)
  /\ UNCHANGED abandoned

-----------------------------------------------------------------------------
(* The indexer.                                                              *)

(* Block numbers that leave the queue without a done message.                *)
GivenUp == {b \in Blocks \ published : Copies(b)' < Copies(b)}

(* What a step of the indexer is to the other side: scanDone declares the    *)
(* done queue, even when its publish then fails, and publishes on it.        *)
DoneQueue ==
  \/ /\ doneQ' # doneQ
     /\ dones < MaxDones
     /\ dones' = dones + 1
     /\ declared' = TRUE
  \/ /\ doneQ' = doneQ
     /\ dones' = dones
     /\ \/ declared' = declared
        \/ /\ \E w \in Workers : conn /\ pc[w] = "publish" /\ pc'[w] = "range"
           /\ declared' = TRUE

(* Step A of the indexer, while the producer does nothing.                   *)
Indexing(A) ==
  /\ A
  /\ DoneQueue
  /\ abandoned' = abandoned \cup GivenUp
  /\ UNCHANGED loopVars

IndexerStep ==
  \/ Indexing(Start) \/ Indexing(Restart) \/ Indexing(Crash) \/ Indexing(ConnDrop)
  \/ Indexing(Signal) \/ Indexing(ShutdownStep)
  \/ \E w \in Workers : Indexing(Scan(w)) \/ \E b \in Blocks : Indexing(Deliver(w, b))
  \/ \E k \in Kinds : Indexing(ConsumerRun(k))

(* RabbitMQ restarts, under both.                                            *)
QueuesLost ==
  /\ BrokerRestart
  /\ Pipe!BrokerRestart
  /\ abandoned' = abandoned \cup GivenUp

-----------------------------------------------------------------------------
SystemNext ==
  \/ StartLoop \/ ReceiveACK \/ ContinueUpdateBlockNumber \/ ProducerSurroundings
  \/ IndexerStep \/ QueuesLost

SystemSpec == SystemInit /\ [][SystemNext]_systemVars

(* The fairness of both modules: the goroutines run, RabbitMQ delivers,      *)
(* docker restarts the indexer.                                              *)
SystemFairness ==
  /\ WF_systemVars(StartLoop) /\ WF_systemVars(ReceiveACK)
  /\ WF_systemVars(ContinueUpdateBlockNumber)
  /\ WF_systemVars(Indexing(Start)) /\ WF_systemVars(Indexing(Restart))
  /\ WF_systemVars(Indexing(ShutdownStep))
  /\ \A w \in Workers :
       /\ WF_systemVars(Indexing(Scan(w)))
       /\ WF_systemVars(\E b \in Blocks : Indexing(Deliver(w, b)))
  /\ \A k \in Kinds : WF_systemVars(Indexing(ConsumerRun(k)))

FairSystemSpec == SystemSpec /\ SystemFairness

-----------------------------------------------------------------------------
(* Properties.                                                               *)

(* The real indexer is what Pipeline takes it for: no interleaving of its    *)
(* workers, buffers, connections and restarts with the steps of the producer *)
(* shows the producer anything else.                                         *)
ImplementsPipeline == Pipe!PipelineSpec

(* Nobody looks again at a block below the watermark: each is handed over    *)
(* whole, or RabbitMQ still answers for its number, or its push failed, a    *)
(* worker gave it up, or RabbitMQ lost it.                                   *)
NothingMissedSilently == Pipe!NothingMissedSilently

(* The same without exception.  It holds of a system whose RPC endpoint      *)
(* answers the indexer, whose transactions all convert, whose RabbitMQ stays *)
(* up and takes what the producer pushes: crashes and signals, connections   *)
(* the indexer loses, and done messages, saves and updates that fail leave   *)
(* no gap.                                                                   *)
NoGap == \A b \in Blocks : b < dbRow => Pipe!Complete(b) \/ Copies(b) > 0

(* The watermark in MySQL is the number of a block whose rows the consumers  *)
(* of some indexer all took over, or the 0 of the migration.                 *)
WatermarkComplete == Pipe!WatermarkComplete

(* No worker is ever asked for a block that is not mined yet: the fetch      *)
(* would fail, and the number would be acked and gone.  (The loop of the     *)
(* producer ends at the head it was told, through redelivery and restarts.)  *)
OnlyMinedFetched == \A w \in Workers : job[w] # None => job[w] <= head

(* No worker will be delivered a number again: its Scan has returned, or it  *)
(* waits for the next message and RabbitMQ for the ack of the one whose done *)
(* message it failed to publish.                                             *)
NobodyListens ==
  /\ phase = "up"
  /\ \A w \in Workers : pc[w] = "exited" \/ (pc[w] = "range" /\ unacked[w] # None)

(* A number that was pushed ends as rows in MySQL: it is delivered, scanned, *)
(* buffered and saved, through redelivery and restarts of the indexer,       *)
(* unless it was given up or lost with RabbitMQ, the process that held its   *)
(* rows exited with them, or nobody listens any more: the connection is      *)
(* gone, which is not dialled again, or every worker failed to publish.      *)
EveryBlockArrives ==
  []<>\A b \in pushed :
        \/ RowsOf(b) \subseteq store \cup lost \cup SkippedRows
        \/ b \in abandoned
        \/ NobodyListens

=============================================================================
