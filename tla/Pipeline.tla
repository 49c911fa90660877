------------------------------- MODULE Pipeline -------------------------------
(***************************************************************************)
(* The producer and the indexer together, over the two queues they share.  *)
(* The producer is Producer, step by step; of the indexer there is what    *)
(* ScanContract promises, which Indexer implements: what Producer assumes  *)
(* of the other side of its queues is here done by it.                     *)
(***************************************************************************)
EXTENDS Producer

CONSTANT TxLogs   (* TxLogs[b][i]: number of logs of the i-th tx of block b  *)

VARIABLES
  handed,     (* rows the indexer has taken over                             *)
  skipped,    (* transactions whose logs it left out                         *)
  reported,   (* blocks it published a done message for                      *)
  abandoned   (* history: blocks not reported of which a copy went from the  *)
              (* queue: given up by a worker, or lost with RabbitMQ          *)

scanVars == <<handed, skipped, reported>>
pipelineVars == <<vars, scanVars, abandoned>>

Contract == INSTANCE ScanContract WITH queued <- ready, Blocks <- Numbers

PipelineInit ==
  /\ Init
  /\ Contract!Init
  /\ abandoned = {}

(* The steps of the producer alone.                                          *)
ProducerStep ==
  /\ \/ Mine \/ Crash
     \/ \E c \in open : ConnDrop(c)
     \/ ContinueUpdateBlockNumber \/ PanicNoHead
     \/ StartLoop \/ ReceiveACK
  /\ UNCHANGED <<scanVars, abandoned>>

(* RabbitMQ restarts, for both.                                              *)
QueuesLost ==
  /\ BrokerRestart
  /\ Contract!Forget
  /\ abandoned' = abandoned \cup {b \in Numbers \ reported : ready[b] > 0}

(* A worker of the indexer hands a row to a consumer, or leaves the logs of  *)
(* a transaction out; the block was once delivered to it.                    *)
HandOver ==
  /\ \/ \E r \in Contract!Rows : r[1] \in pushed /\ Contract!TakeOver(r)
     \/ \E b \in pushed : \E i \in DOMAIN TxLogs[b] : Contract!Skip(b, i)
  /\ UNCHANGED <<vars, abandoned>>

(* scanDone publishes the done message, and the producer's queue has it.     *)
Report(b) ==
  /\ IndexerDone(b)
  /\ Contract!Report(b)
  /\ UNCHANGED abandoned

(* A worker acks a block number.                                             *)
Retire(b) ==
  /\ IndexerGivesUp(b)
  /\ Contract!Retire(b)
  /\ abandoned' = abandoned \cup ({b} \ reported)

(* scanDone declares the producer's queue and fails to publish.              *)
Declare == IndexerDeclares /\ UNCHANGED <<scanVars, abandoned>>

PipelineNext ==
  \/ ProducerStep \/ QueuesLost \/ HandOver \/ Declare
  \/ \E b \in Numbers : Report(b) \/ Retire(b)

PipelineSpec == PipelineInit /\ [][PipelineNext]_pipelineVars

-----------------------------------------------------------------------------
(* Properties.                                                               *)

(* The producer does in the pipeline what it does alone.                     *)
ImplementsProducer == Spec

(* What the producer does to the queues is what the contract of the indexer  *)
(* expects of the other side: it adds copies of block numbers and takes done *)
(* messages one by one, whatever its receiver, restarts and lost connections *)
(* do.  (The acks of receiveACK, pushMsg.)                                   *)
ImplementsContract == Contract!Spec

Complete(b) == Contract!RowsOf(b) \subseteq Contract!Accounted

(* The end to end promise: nobody looks again at a block below the           *)
(* watermark, so each is handed over whole, or its number is still on the    *)
(* queue, unless its push failed, a worker gave it up on an error, or        *)
(* RabbitMQ lost it.  No order of done messages, watermark that falls back,  *)
(* redelivery or restart adds another case.                                  *)
NothingMissedSilently ==
  \A b \in Numbers :
    b < dbRow => Complete(b) \/ ready[b] > 0 \/ b \in dropped \cup abandoned

(* The watermark in MySQL, which survives every process, is the number of a  *)
(* block handed over whole, or the 0 of the migration: neither redelivered   *)
(* done messages nor a race of the goroutines stores another number.         *)
WatermarkComplete == dbRow # 0 => Complete(dbRow)

=============================================================================
