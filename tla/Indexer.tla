------------------------------- MODULE Indexer -------------------------------
(***************************************************************************)
(* The indexer_service process: the workers that run ScanHandler.Scan, the *)
(* three consumer goroutines that buffer rows and save them to MySQL, the  *)
(* process that starts and stops them, and the two RabbitMQ queues as they *)
(* see them.  A block number is taken from blockNumber_queue, the rows of  *)
(* the block are handed to the consumers over unbuffered channels, a done  *)
(* message is published to blockNumber_done_queue, the number is acked.    *)
(***************************************************************************)
EXTENDS Chain, FiniteSets, Functions

CONSTANTS
  Workers,          (* the WORKER_NUMBER goroutines running Scan             *)
  BadTxs,           (* <<b, i>>: txs whose sender the signer cannot recover  *)
  StoreBufferSize,  (* STORE_BUFFER_SIZE of the configuration                *)
  Faults,           (* the kinds of failure the environment may cause        *)
  MaxPushes,        (* bound: messages put on blockNumber_queue              *)
  MaxExits,         (* bound: exits of the process                           *)
  None              (* no message                                            *)

Kinds == {"block", "tx", "log"}

FaultKinds == {"rpc", "pending", "save", "setup", "publish",
               "drop", "broker", "crash", "shutdown"}

ASSUME IndexerAssumption ==
  /\ IsFiniteSet(Workers)
  /\ Blocks \subseteq Nat
  /\ None \notin Blocks
  /\ TxLogs \in [Blocks -> Seq(Nat)]
  /\ BadTxs \subseteq Blocks \X Nat
  /\ StoreBufferSize \in Nat \ {0}
  /\ Faults \subseteq FaultKinds
  /\ MaxPushes \in Nat
  /\ MaxExits \in Nat

VARIABLES
  ready,      (* ready messages of blockNumber_queue: number of copies of b  *)
  unacked,    (* the message the broker holds as unacked for a worker's      *)
              (* channel; prefetch 1 allows one                              *)
  doneQ,      (* blockNumber_done_queue                                      *)
  pushes,     (* how many messages were put on blockNumber_queue             *)
  conn,       (* TRUE while the AMQP connection of the process is open       *)
  phase,      (* where the process is between start and exit                 *)
  exits,      (* how many times the process has exited                       *)
  pc,         (* where each worker is in Scan / getBlockInfo / scanDone      *)
  job,        (* the block number a worker is scanning                       *)
  tx,         (* the transaction of the block it is at                       *)
  lg,         (* the log of that transaction it is at                        *)
  buf,        (* blockBuf, txBuf, logBuf of the consumers                    *)
  saver,      (* what each consumer goroutine is doing                       *)
  store,      (* the rows in MySQL                                           *)
  lost,       (* history: rows a consumer held and dropped                   *)
  skipped,    (* history: <<b, i>> whose logs were skipped as pending        *)
  published   (* history: blocks a done message was published for            *)

queueVars    == <<ready, unacked, doneQ, pushes>>
processVars  == <<conn, phase, exits>>
workerVars   == <<pc, job, tx, lg>>
consumerVars == <<buf, saver, store, lost>>
historyVars  == <<skipped, published>>
vars == <<queueVars, processVars, workerVars, consumerVars, historyVars>>

Phases == {"starting", "up", "mqClosed", "blockClosed", "txClosed",
           "logClosed", "down"}

Pcs == {"none", "setup", "range", "fetch", "send", "nextTx", "detail",
        "logs", "publish", "ack", "exited"}

-----------------------------------------------------------------------------
(* The table a row belongs to, and the channel it is sent on.                *)
KindOf(r) == IF r[2] = 0 THEN "block" ELSE IF r[3] = 0 THEN "tx" ELSE "log"

-----------------------------------------------------------------------------
(* The process and the queues.                                               *)

Init ==
  /\ ready = [b \in Blocks |-> 0]
  /\ unacked = [w \in Workers |-> None]
  /\ doneQ = <<>>
  /\ pushes = 0
  /\ conn = FALSE
  /\ phase = "starting"
  /\ exits = 0
  /\ pc = [w \in Workers |-> "none"]
  /\ job = [w \in Workers |-> None]
  /\ tx = [w \in Workers |-> 0]
  /\ lg = [w \in Workers |-> 0]
  /\ buf = [k \in Kinds |-> <<>>]
  /\ saver = [k \in Kinds |-> "run"]
  /\ store = {}
  /\ lost = {}
  /\ skipped = {}
  /\ published = {}

Fault(f) == f \in Faults

(* RabbitMQ puts the unacked messages of a closed connection back.           *)
Requeued ==
  [b \in Blocks |-> ready[b] + Cardinality({w \in Workers : unacked[w] = b})]

RequeueUnacked ==
  /\ ready' = Requeued
  /\ unacked' = [w \in Workers |-> None]

Buffered == UNION {Range(buf[k]) : k \in Kinds}

(* All goroutines die with the process, and the buffers with them.           *)
ExitProcess ==
  /\ exits < MaxExits
  /\ exits' = exits + 1
  /\ phase' = "down"
  /\ conn' = FALSE
  /\ RequeueUnacked
  /\ pc' = [w \in Workers |-> "none"]
  /\ job' = [w \in Workers |-> None]
  /\ tx' = [w \in Workers |-> 0]
  /\ lg' = [w \in Workers |-> 0]
  /\ lost' = lost \cup Buffered
  /\ buf' = [k \in Kinds |-> <<>>]
  /\ saver' = [k \in Kinds |-> "none"]
  /\ UNCHANGED <<doneQ, pushes, store, historyVars>>

(* The producer publishes a block number.                                    *)
Push(b) ==
  /\ pushes < MaxPushes
  /\ pushes' = pushes + 1
  /\ ready' = [ready EXCEPT ![b] = @ + 1]
  /\ UNCHANGED <<unacked, doneQ, processVars, workerVars, consumerVars, historyVars>>

(* The producer acks the oldest done message.                                *)
TakeDone ==
  /\ doneQ # <<>>
  /\ doneQ' = Tail(doneQ)
  /\ UNCHANGED <<ready, unacked, pushes, processVars, workerVars, consumerVars, historyVars>>

(* Service.Start: dial RabbitMQ, then spawn the workers.                     *)
Start ==
  /\ phase = "starting"
  /\ phase' = "up"
  /\ conn' = TRUE
  /\ pc' = [w \in Workers |-> "setup"]
  /\ UNCHANGED <<exits, queueVars, job, tx, lg, consumerVars, historyVars>>

(* docker-compose "restart: always": a new process with new consumers.       *)
Restart ==
  /\ phase = "down"
  /\ phase' = "starting"
  /\ saver' = [k \in Kinds |-> "run"]
  /\ UNCHANGED <<conn, exits, queueVars, workerVars, buf, store, lost, historyVars>>

(* The process dies at any point: a kill, Fatalf when RabbitMQ cannot be     *)
(* dialled, the panic of createClient when the RPC endpoint cannot be.       *)
Crash ==
  /\ Fault("crash")
  /\ phase # "down"
  /\ ExitProcess

(* The connection to RabbitMQ is lost; nothing dials it again.               *)
ConnDrop ==
  /\ Fault("drop")
  /\ conn
  /\ conn' = FALSE
  /\ RequeueUnacked
  /\ UNCHANGED <<doneQ, pushes, phase, exits, workerVars, consumerVars, historyVars>>

(* RabbitMQ restarts: the queues are durable but the messages, published     *)
(* without a delivery mode, are transient and are gone.                      *)
BrokerRestart ==
  /\ Fault("broker")
  /\ conn' = FALSE
  /\ ready' = [b \in Blocks |-> 0]
  /\ unacked' = [w \in Workers |-> None]
  /\ doneQ' = <<>>
  /\ UNCHANGED <<pushes, phase, exits, workerVars, consumerVars, historyVars>>

(* SIGINT or SIGTERM: Service.Shutdown first closes the connection.  Before  *)
(* Start has dialled, mqConn is nil and Close panics.                        *)
Signal ==
  /\ Fault("shutdown")
  /\ exits < MaxExits
  /\ \/ /\ phase = "up"
        /\ phase' = "mqClosed"
        /\ conn' = FALSE
        /\ RequeueUnacked
        /\ UNCHANGED <<doneQ, pushes, exits, workerVars, consumerVars, historyVars>>
     \/ phase = "starting" /\ ExitProcess

(* Then it closes the three channels in turn; main returns, and the process  *)
(* ends, as soon as it is done: nobody waits for the consumers.              *)
ShutdownStep ==
  \/ /\ \E step \in {<<"mqClosed", "blockClosed">>, <<"blockClosed", "txClosed">>,
                     <<"txClosed", "logClosed">>} :
          phase = step[1] /\ phase' = step[2]
     /\ UNCHANGED <<conn, exits, queueVars, workerVars, consumerVars, historyVars>>
  \/ phase = "logClosed" /\ ExitProcess

ClosedChans ==
  CASE phase = "blockClosed" -> {"block"}
    [] phase = "txClosed"    -> {"block", "tx"}
    [] phase = "logClosed"   -> Kinds
    [] OTHER                 -> {}

-----------------------------------------------------------------------------
(* The consumers.  Their channels are unbuffered: a send and the receive     *)
(* that takes it are one step, possible while the consumer is in its select. *)

Receive(k, r) ==
  /\ saver[k] = "run"
  /\ k \notin ClosedChans
  /\ buf' = [buf EXCEPT ![k] = Append(@, r)]
  /\ saver' = [saver EXCEPT ![k] =
                 IF Len(buf[k]) + 1 = StoreBufferSize THEN "saving" ELSE @]

(* Mutant: the ticker leaves a buffer of one row alone as well.              *)
TickSparesOne(k) ==
  /\ saver[k] = "run"
  /\ Len(buf[k]) > 1
  /\ saver' = [saver EXCEPT ![k] = "saving"]
  /\ UNCHANGED <<buf, store, lost>>

(* The ticker fires; an empty buffer is left alone.                          *)
Tick(k) ==
  /\ saver[k] = "run"
  /\ buf[k] # <<>>
  /\ saver' = [saver EXCEPT ![k] = "saving"]
  /\ UNCHANGED <<buf, store, lost>>

(* The receive from the closed channel.                                      *)
SeeClosed(k) ==
  /\ saver[k] = "run"
  /\ k \in ClosedChans
  /\ saver' = [saver EXCEPT ![k] = "flushing"]
  /\ UNCHANGED <<buf, store, lost>>

(* INSERT IGNORE: one statement, rows whose key is taken are skipped.        *)
InsertIgnore(rows) == store' = store \cup rows

(* Mutant: a failed save keeps the buffer for the next tick.                 *)
SaveKeepsBufferOnError(k) ==
  /\ saver[k] \in {"saving", "flushing"}
  /\ \/ InsertIgnore(Range(buf[k])) /\ buf' = [buf EXCEPT ![k] = <<>>]
     \/ Fault("save") /\ UNCHANGED <<store, buf>>
  /\ lost' = lost
  /\ saver' = [saver EXCEPT ![k] =
                 IF saver[k] = "saving" THEN "run" ELSE "exited"]

(* Mutant: the goroutine of the consumer returns on a failed save.           *)
SaveReturnsOnError(k) ==
  /\ saver[k] \in {"saving", "flushing"}
  /\ \/ /\ InsertIgnore(Range(buf[k])) /\ lost' = lost
        /\ saver' = [saver EXCEPT ![k] = IF @ = "saving" THEN "run" ELSE "exited"]
     \/ /\ Fault("save") /\ lost' = lost \cup Range(buf[k]) /\ store' = store
        /\ saver' = [saver EXCEPT ![k] = "exited"]
  /\ buf' = [buf EXCEPT ![k] = <<>>]

(* The save returns; an error is logged, and the buffer is emptied anyway.   *)
Save(k) ==
  /\ saver[k] \in {"saving", "flushing"}
  /\ \/ InsertIgnore(Range(buf[k])) /\ lost' = lost
     \/ Fault("save") /\ lost' = lost \cup Range(buf[k]) /\ store' = store
  /\ buf' = [buf EXCEPT ![k] = <<>>]
  /\ saver' = [saver EXCEPT ![k] =
                 IF saver[k] = "saving" THEN "run" ELSE "exited"]

ConsumerRun(k) ==
  /\ Tick(k) \/ SeeClosed(k) \/ Save(k)
  /\ UNCHANGED <<queueVars, processVars, workerVars, historyVars>>

BlockConsumerRun == ConsumerRun("block")
TxConsumerRun    == ConsumerRun("tx")
LogConsumerRun   == ConsumerRun("log")

-----------------------------------------------------------------------------
(* The workers.                                                              *)

(* An RPC call fails when the endpoint does, and once Shutdown has closed the *)
(* clients and canceled the context.                                         *)
RpcFails == Fault("rpc") \/ phase = "logClosed"

GoTo(w, label) == pc' = [pc EXCEPT ![w] = label]

(* The worker drops the block number it was scanning.                        *)
ClearJob(w) ==
  /\ job' = [job EXCEPT ![w] = None]
  /\ tx' = [tx EXCEPT ![w] = 0]
  /\ lg' = [lg EXCEPT ![w] = 0]

(* An ack on a closed connection is an error nobody looks at.                *)
AckMessage(w) ==
  /\ unacked' = [unacked EXCEPT ![w] = None]
  /\ UNCHANGED <<ready, doneQ, pushes>>

(* Scan opens its channel, sets prefetch to 1, declares the queue and        *)
(* subscribes; on any error it returns, and nobody starts it again.          *)
Setup(w) ==
  /\ pc[w] = "setup"
  /\ \/ conn /\ GoTo(w, "range")
     \/ (~conn \/ Fault("setup")) /\ GoTo(w, "exited")
  /\ UNCHANGED <<queueVars, processVars, job, tx, lg, consumerVars, historyVars>>

(* Mutant: the subscription asks for automatic acks.                         *)
DeliverAutoAck(w, b) ==
  /\ conn
  /\ pc[w] = "range"
  /\ ready[b] > 0
  /\ ready' = [ready EXCEPT ![b] = @ - 1]
  /\ GoTo(w, "fetch")
  /\ job' = [job EXCEPT ![w] = b]
  /\ UNCHANGED <<unacked, doneQ, pushes, processVars, tx, lg, consumerVars, historyVars>>

(* The broker delivers a message to an idle worker that has acked its last.  *)
Deliver(w, b) ==
  /\ conn
  /\ pc[w] = "range"
  /\ unacked[w] = None
  /\ ready[b] > 0
  /\ ready' = [ready EXCEPT ![b] = @ - 1]
  /\ unacked' = [unacked EXCEPT ![w] = b]
  /\ GoTo(w, "fetch")
  /\ job' = [job EXCEPT ![w] = b]
  /\ UNCHANGED <<doneQ, pushes, processVars, tx, lg, consumerVars, historyVars>>

(* The delivery channel is closed with the connection: Scan returns.         *)
RangeEnds(w) ==
  /\ pc[w] = "range"
  /\ ~conn
  /\ GoTo(w, "exited")
  /\ UNCHANGED <<queueVars, processVars, job, tx, lg, consumerVars, historyVars>>

(* A failed scan: log, Ack(false), next message.                             *)
FailScan(w) ==
  /\ AckMessage(w)
  /\ GoTo(w, "range")
  /\ ClearJob(w)
  /\ UNCHANGED <<processVars, consumerVars, historyVars>>

(* Mutant: the row of the block is left for the end, and then forgotten.     *)
FetchBlockTxsFirst(w) ==
  /\ pc[w] = "fetch"
  /\ \/ /\ GoTo(w, "nextTx")
        /\ UNCHANGED <<queueVars, processVars, job, tx, lg, consumerVars, historyVars>>
     \/ RpcFails /\ FailScan(w)

(* BlockByNumber, asked once.                                                *)
FetchBlock(w) ==
  /\ pc[w] = "fetch"
  /\ \/ /\ GoTo(w, "send")
        /\ UNCHANGED <<queueVars, processVars, job, tx, lg, consumerVars, historyVars>>
     \/ RpcFails /\ FailScan(w)

SendRow(w) ==
  LET r == <<job[w], tx[w], lg[w]>> IN
  /\ pc[w] = "send"
  /\ Receive(KindOf(r), r)
  /\ UNCHANGED <<queueVars, processVars, job, tx, store, lost, historyVars>>

SendBlockRow(w) ==
  /\ tx[w] = 0
  /\ SendRow(w)
  /\ GoTo(w, "nextTx")
  /\ UNCHANGED lg

(* Mutant: the loop runs one past the last transaction.                      *)
NextTxOnePast(w) ==
  /\ pc[w] = "nextTx"
  /\ IF tx[w] > Len(TxLogs[job[w]])
     THEN GoTo(w, "publish") /\ UNCHANGED <<tx, lg>>
     ELSE /\ GoTo(w, "send")
          /\ tx' = [tx EXCEPT ![w] = @ + 1]
          /\ lg' = [lg EXCEPT ![w] = 0]
  /\ UNCHANGED <<queueVars, processVars, job, consumerVars, historyVars>>

(* Mutant: a transaction that does not convert is skipped.                   *)
NextTxSkipsBad(w) ==
  /\ pc[w] = "nextTx"
  /\ IF tx[w] = Len(TxLogs[job[w]])
     THEN GoTo(w, "publish") /\ UNCHANGED <<tx, lg>>
     ELSE /\ IF <<job[w], tx[w] + 1>> \in BadTxs
             THEN UNCHANGED pc
             ELSE GoTo(w, "send")
          /\ tx' = [tx EXCEPT ![w] = @ + 1]
          /\ lg' = [lg EXCEPT ![w] = 0]
  /\ UNCHANGED <<queueVars, processVars, job, consumerVars, historyVars>>

(* The head of the loop over block.Transactions(): convertTxToRow fails on a *)
(* transaction type the EIP-155 signer does not know.                        *)
NextTx(w) ==
  /\ pc[w] = "nextTx"
  /\ \/ /\ tx[w] = Len(TxLogs[job[w]])
        /\ GoTo(w, "publish")
        /\ UNCHANGED <<queueVars, processVars, job, tx, lg, consumerVars, historyVars>>
     \/ /\ tx[w] < Len(TxLogs[job[w]])
        /\ <<job[w], tx[w] + 1>> \notin BadTxs
        /\ GoTo(w, "send")
        /\ tx' = [tx EXCEPT ![w] = @ + 1]
        /\ lg' = [lg EXCEPT ![w] = 0]
        /\ UNCHANGED <<queueVars, processVars, job, consumerVars, historyVars>>
     \/ /\ tx[w] < Len(TxLogs[job[w]])
        /\ <<job[w], tx[w] + 1>> \in BadTxs
        /\ FailScan(w)

SendTxRow(w) ==
  /\ tx[w] > 0 /\ lg[w] = 0
  /\ SendRow(w)
  /\ GoTo(w, "detail")
  /\ UNCHANGED lg

(* TxDetailByHash: a pending transaction has its logs skipped; not found is  *)
(* not an error here, GetLogs is still asked.                                *)
TxDetail(w) ==
  /\ pc[w] = "detail"
  /\ \/ /\ GoTo(w, "logs")
        /\ UNCHANGED <<queueVars, processVars, job, tx, lg, consumerVars, historyVars>>
     \/ /\ Fault("pending")
        /\ GoTo(w, "nextTx")
        /\ skipped' = skipped \cup {<<job[w], tx[w]>>}
        /\ UNCHANGED <<queueVars, processVars, job, tx, lg, consumerVars, published>>
     \/ RpcFails /\ FailScan(w)

(* Mutant: an error of GetLogs moves on to the next transaction.             *)
GetLogsMovesOn(w) ==
  /\ pc[w] = "logs"
  /\ \/ /\ TxLogs[job[w]][tx[w]] > 0
        /\ GoTo(w, "send")
        /\ lg' = [lg EXCEPT ![w] = 1]
     \/ /\ TxLogs[job[w]][tx[w]] = 0 \/ RpcFails
        /\ GoTo(w, "nextTx")
        /\ UNCHANGED lg
  /\ UNCHANGED <<queueVars, processVars, job, tx, consumerVars, historyVars>>

GetLogs(w) ==
  /\ pc[w] = "logs"
  /\ \/ /\ IF TxLogs[job[w]][tx[w]] = 0
           THEN GoTo(w, "nextTx") /\ UNCHANGED lg
           ELSE GoTo(w, "send") /\ lg' = [lg EXCEPT ![w] = 1]
        /\ UNCHANGED <<queueVars, processVars, job, tx, consumerVars, historyVars>>
     \/ RpcFails /\ FailScan(w)

SendLogRow(w) ==
  /\ lg[w] > 0
  /\ SendRow(w)
  /\ IF lg[w] = TxLogs[job[w]][tx[w]]
     THEN GoTo(w, "nextTx") /\ UNCHANGED lg
     ELSE UNCHANGED pc /\ lg' = [lg EXCEPT ![w] = @ + 1]

(* A send on a channel Shutdown has closed panics, and takes the process     *)
(* with it, buffers and all.                                                 *)
SendPanics(w) ==
  /\ pc[w] = "send"
  /\ KindOf(<<job[w], tx[w], lg[w]>>) \in ClosedChans
  /\ ExitProcess

(* scanDone publishes the done message; when that fails it returns without   *)
(* an ack, and the message stays unacked for as long as the connection lives.*)
PublishDone(w) ==
  /\ pc[w] = "publish"
  /\ \/ /\ conn
        /\ GoTo(w, "ack")
        /\ doneQ' = Append(doneQ, job[w])
        /\ published' = published \cup {job[w]}
        /\ UNCHANGED <<job, tx, lg, skipped>>
     \/ /\ ~conn \/ Fault("publish")
        /\ GoTo(w, "range")
        /\ ClearJob(w)
        /\ UNCHANGED <<doneQ, historyVars>>
  /\ UNCHANGED <<ready, unacked, pushes, processVars, consumerVars>>

(* Mutant: scanDone does not ack.                                            *)
AckDoneForgets(w) ==
  /\ pc[w] = "ack"
  /\ GoTo(w, "range")
  /\ ClearJob(w)
  /\ UNCHANGED <<queueVars, processVars, consumerVars, historyVars>>

(* ... and then acks the block number.                                       *)
AckDone(w) ==
  /\ pc[w] = "ack"
  /\ AckMessage(w)
  /\ GoTo(w, "range")
  /\ ClearJob(w)
  /\ UNCHANGED <<processVars, consumerVars, historyVars>>

GetBlockInfo(w) ==
  \/ SendBlockRow(w) \/ NextTx(w) \/ SendTxRow(w) \/ TxDetail(w)
  \/ GetLogs(w) \/ SendLogRow(w) \/ SendPanics(w)

Scan(w) ==
  \/ Setup(w) \/ RangeEnds(w) \/ FetchBlock(w) \/ GetBlockInfo(w)
  \/ PublishDone(w) \/ AckDone(w)

Next ==
  \/ \E b \in Blocks : Push(b)
  \/ TakeDone
  \/ Start \/ Restart \/ Crash \/ ConnDrop \/ BrokerRestart
  \/ Signal \/ ShutdownStep
  \/ \E w \in Workers, b \in Blocks : Deliver(w, b)
  \/ \E w \in Workers : Scan(w)
  \/ BlockConsumerRun \/ TxConsumerRun \/ LogConsumerRun

Spec == Init /\ [][Next]_vars

(* The Go scheduler runs every goroutine that can run, RabbitMQ delivers to  *)
(* every idle consumer, docker restarts a process that exited.               *)
Fairness ==
  /\ WF_vars(Start) /\ WF_vars(Restart) /\ WF_vars(ShutdownStep)
  /\ \A w \in Workers : WF_vars(Scan(w)) /\ WF_vars(\E b \in Blocks : Deliver(w, b))
  /\ WF_vars(BlockConsumerRun) /\ WF_vars(TxConsumerRun) /\ WF_vars(LogConsumerRun)

FairSpec == Spec /\ Fairness

-----------------------------------------------------------------------------
(* Properties.                                                               *)

TypeOK ==
  /\ ready \in [Blocks -> Nat]
  /\ unacked \in [Workers -> Blocks \cup {None}]
  /\ doneQ \in Seq(Blocks)
  /\ pushes \in 0 .. MaxPushes
  /\ conn \in BOOLEAN
  /\ phase \in Phases
  /\ exits \in 0 .. MaxExits
  /\ pc \in [Workers -> Pcs]
  /\ job \in [Workers -> Blocks \cup {None}]
  /\ tx \in [Workers -> Nat]
  /\ lg \in [Workers -> Nat]
  /\ buf \in [Kinds -> Seq(Rows)]
  /\ saver \in [Kinds -> {"run", "saving", "flushing", "exited", "none"}]
  /\ store \subseteq Rows
  /\ lost \subseteq Rows
  /\ skipped \subseteq Blocks \X Nat
  /\ published \subseteq Blocks

(* Every row a worker has ever sent to a consumer.                           *)
Handed == store \cup lost \cup Buffered

(* The log rows that were left out because TxDetailByHash said pending.      *)
SkippedRows == {r \in Rows : r[3] > 0 /\ <<r[1], r[2]>> \in skipped}

(* When the done message of a block is published, every row of the block has *)
(* been taken by a consumer, by this worker or by an earlier scan of the     *)
(* block, except for the logs of transactions the endpoint called pending;   *)
(* and the done queue holds only such blocks.  (scanDone is called after     *)
(* getBlockInfo returned nil.)                                               *)
DoneMeansHandedOver ==
  /\ \A b \in published : RowsOf(b) \subseteq Handed \cup SkippedRows
  /\ Range(doneQ) \subseteq published

(* Rows reach the consumers in chain order whatever the workers do: no log   *)
(* without its transaction, no transaction without its block and the         *)
(* transactions before it.  (The order of the sends in getBlockInfo, under   *)
(* redelivery and restarts.)                                                 *)
HandOverOrder ==
  \A r \in Handed : Before(r[1], r[2], r[3]) \subseteq Handed \cup SkippedRows

(* A block with a transaction convertTxToRow rejects is never reported done, *)
(* though some of its rows are stored.                                       *)
BadBlockNeverDone ==
  \A b \in published : \A i \in DOMAIN TxLogs[b] : <<b, i>> \notin BadTxs

(* A buffer never outgrows STORE_BUFFER_SIZE, and a full one is being saved: *)
(* the test is "==", so a buffer that missed it would grow without bound.    *)
BufferBounded ==
  \A k \in Kinds :
    /\ Len(buf[k]) <= StoreBufferSize
    /\ saver[k] = "run" => Len(buf[k]) < StoreBufferSize

(* A worker that sends is not left alone with its channel: the consumer at   *)
(* the other end is in its select or comes back to it after a save, however  *)
(* that ends, or the channel is closed and the send panics.  Consumers only  *)
(* return when their channel is closed, which workers still send on.         *)
SendServed ==
  \A w \in Workers :
    LET k == KindOf(<<job[w], tx[w], lg[w]>>) IN
    pc[w] = "send" => saver[k] \in {"run", "saving"} \/ k \in ClosedChans

(* What the readme says of the indexer: the producer is told once the block  *)
(* is scanned and saved to the database.                                     *)
DoneMeansStored == \A b \in published : RowsOf(b) \subseteq store \cup SkippedRows

(* The copies of b RabbitMQ still answers for.                               *)
Copies(b) == ready[b] + Cardinality({w \in Workers : unacked[w] = b})

(* RabbitMQ forgets a copy of a block number only when the block has been    *)
(* reported done, when the worker that holds it gives up on an error, or     *)
(* when RabbitMQ itself restarts: no crash, redelivery or lost connection    *)
(* drops a block silently.  (The acks in Scan and scanDone.)                 *)
AckFollowsOutcome ==
  [][\A b \in Blocks : Copies(b)' < Copies(b) =>
       \/ b \in published
       \/ \E w \in Workers : /\ job[w] = b
                              /\ pc[w] \in {"fetch", "nextTx", "detail", "logs"}
                              /\ pc'[w] = "range"
       \/ BrokerRestart]_vars

(* What is visible of the indexer from its queues and its rows: no worker    *)
(* and no failure adds a copy of a block number or takes one away but the    *)
(* one being acked, no row is handed over out of order, and no done message  *)
(* is published for a block that is not on the queue any more, or not        *)
(* complete.                                                                 *)
Contract == INSTANCE ScanContract WITH
  queued   <- [b \in Blocks |-> Copies(b)],
  handed   <- Handed,
  reported <- published

ImplementsContract == Contract!Spec

(* The connection is lost, every Scan has returned, the process is still up. *)
Abandoned == phase = "up" /\ ~conn /\ \A w \in Workers : pc[w] = "exited"

(* Every block number on the queue is eventually scanned or given up, by     *)
(* this process or the next, unless the connection is lost: then every       *)
(* worker returns, and the number is left to a process nobody starts.        *)
(* Nothing else keeps a number: neither workers blocked on the consumers'    *)
(* channels nor a crash.  (Without failed publishes, which keep a number     *)
(* with its worker while the connection lives.)                              *)
EveryMessageRetired ==
  \A b \in Blocks : Copies(b) > 0 ~> Copies(b) = 0 \/ Abandoned

(* Every row of a done block is eventually in MySQL, unless the exit of the  *)
(* process that held it lost it: no buffer keeps a row for good, however     *)
(* few rows follow it.  (The tickers of the consumers; without failed saves.)*)
DoneEventuallyStored ==
  \A b \in Blocks : b \in published ~> RowsOf(b) \subseteq store \cup lost \cup SkippedRows

=============================================================================
