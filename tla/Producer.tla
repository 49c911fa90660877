------------------------------ MODULE Producer -------------------------------
(***************************************************************************)
(* The producer process.  startLoop reads the watermark (the last block    *)
(* MySQL knows to be done) and pushes every block number from there to the *)
(* head of the chain to blockNumber_queue; continueUpdateBlockNumber asks  *)
(* the RPC endpoint for the head; receiveACK takes the done messages and   *)
(* moves the watermark.  The three share latestBlockNumber and             *)
(* dbLatestBlockNumber without a lock, and the AMQP connection of mqConn.  *)
(* The indexer is here what it looks like from the two queues.             *)
(***************************************************************************)
EXTENDS Naturals, Sequences, Functions

CONSTANTS
  MaxRetryTime,   (* MAX_RETRY_TIME of the configuration                     *)
  Faults,         (* the kinds of failure the environment may cause          *)
  MaxHead,        (* bound: the highest block mined                          *)
  MaxDones,       (* bound: done messages published                          *)
  MaxDials,       (* bound: AMQP connections opened by one process           *)
  MaxExits        (* bound: exits of the process                             *)

FaultKinds == {"rpc", "reset", "load", "update", "publish", "drop", "broker", "crash"}

ASSUME ProducerAssumption ==
  /\ MaxRetryTime \in Nat \ {0}
  /\ Faults \subseteq FaultKinds
  /\ MaxHead \in Nat
  /\ MaxDones \in Nat
  /\ MaxDials \in Nat \ {0}
  /\ MaxExits \in Nat

Numbers == 0 .. MaxHead

VARIABLES
  head,        (* the last block mined                                       *)
  dbRow,       (* block_number in the table latest_block_number              *)
  ready,       (* blockNumber_queue: number of copies of each block number   *)
  doneQ,       (* blockNumber_done_queue; its head stays until it is acked   *)
  declared,    (* TRUE once an indexer has declared blockNumber_done_queue   *)
  dones,       (* how many done messages were published                      *)
  open,        (* the open AMQP connections of the process                   *)
  dials,       (* how many it has opened                                     *)
  mqConn,      (* the connection pushMsg uses                                *)
  ackConn,     (* the connection receiveACK subscribed on                    *)
  latest,      (* latestBlockNumber                                          *)
  dbLatest,    (* dbLatestBlockNumber                                        *)
  tries,       (* failed attempts at BlockNumber in a row                    *)
  ppc,         (* where Start and startLoop are                              *)
  index,       (* the next block number startLoop pushes                     *)
  apc,         (* where receiveACK is                                        *)
  num,         (* the block number it is handling                            *)
  exits,       (* how many times the process has exited                      *)
  pushed,      (* history: block numbers put on the queue                    *)
  dropped,     (* history: block numbers whose push failed                   *)
  synced       (* history: startLoop set dbLatest to what dbRow was then     *)

rowVars    == <<head, dbRow>>
queueVars  == <<ready, doneQ, declared, dones>>
connVars   == <<open, dials, mqConn, ackConn>>
loopVars   == <<ppc, index>>
ackVars    == <<apc, num>>
historyVars == <<pushed, dropped, synced>>
vars == <<rowVars, queueVars, connVars, latest, dbLatest, tries, loopVars,
          ackVars, exits, historyVars>>

Init ==
  /\ head = 0
  /\ dbRow = 0
  /\ ready = [b \in Numbers |-> 0]
  /\ doneQ = <<>>
  /\ declared = FALSE
  /\ dones = 0
  /\ open = {}
  /\ dials = 0
  /\ mqConn = 0
  /\ ackConn = 0
  /\ latest = 0
  /\ dbLatest = 0
  /\ tries = 0
  /\ ppc = "dial"
  /\ index = 0
  /\ apc = "off"
  /\ num = 0
  /\ exits = 0
  /\ pushed = {}
  /\ dropped = {}
  /\ synced = FALSE

Fault(f) == f \in Faults

-----------------------------------------------------------------------------
(* Everything around the producer.                                           *)

Mine ==
  /\ head < MaxHead
  /\ head' = head + 1
  /\ UNCHANGED <<dbRow, queueVars, connVars, latest, dbLatest, tries, loopVars,
                 ackVars, exits, historyVars>>

(* An indexer takes a block number, declares the done queue, publishes the   *)
(* done message and acks the number; when the ack is lost, the number is     *)
(* delivered again.                                                          *)
IndexerDone(b) ==
  /\ ready[b] > 0
  /\ dones < MaxDones
  /\ dones' = dones + 1
  /\ declared' = TRUE
  /\ doneQ' = Append(doneQ, b)
  /\ ready' = [ready EXCEPT ![b] = @ - 1] \/ ready' = ready
  /\ UNCHANGED <<rowVars, connVars, latest, dbLatest, tries, loopVars, ackVars,
                 exits, historyVars>>

(* An indexer declares the done queue, and its publish fails: the message it  *)
(* holds stays where it is.                                                  *)
IndexerDeclares ==
  /\ \E b \in Numbers : ready[b] > 0
  /\ declared' = TRUE
  /\ UNCHANGED <<rowVars, ready, doneQ, dones, connVars, latest, dbLatest, tries,
                 loopVars, ackVars, exits, historyVars>>

(* An indexer fails to scan a block, and acks its number.                    *)
IndexerGivesUp(b) ==
  /\ ready[b] > 0
  /\ ready' = [ready EXCEPT ![b] = @ - 1]
  /\ UNCHANGED <<rowVars, doneQ, declared, dones, connVars, latest, dbLatest,
                 tries, loopVars, ackVars, exits, historyVars>>

ConnDrop(c) ==
  /\ Fault("drop")
  /\ open' = open \ {c}
  /\ UNCHANGED <<rowVars, queueVars, dials, mqConn, ackConn, latest, dbLatest,
                 tries, loopVars, ackVars, exits, historyVars>>

(* The queues are durable, the messages are not.                             *)
BrokerRestart ==
  /\ Fault("broker")
  /\ open' = {}
  /\ ready' = [b \in Numbers |-> 0]
  /\ doneQ' = <<>>
  /\ UNCHANGED <<rowVars, declared, dones, dials, mqConn, ackConn, latest,
                 dbLatest, tries, loopVars, ackVars, exits, historyVars>>

(* The process ends.  docker-compose starts a new one, whose Producer struct *)
(* is zeroed; what receiveACK had not acked is ready again.                  *)
ExitProcess ==
  /\ exits < MaxExits
  /\ exits' = exits + 1
  /\ open' = {}
  /\ dials' = 0 /\ mqConn' = 0 /\ ackConn' = 0
  /\ latest' = 0 /\ dbLatest' = 0 /\ tries' = 0
  /\ ppc' = "dial" /\ index' = 0
  /\ apc' = "off" /\ num' = 0
  /\ synced' = FALSE
  /\ UNCHANGED <<rowVars, queueVars, pushed, dropped>>

(* A kill, a signal, or a panic of NewProducer or createEthClient.           *)
Crash == Fault("crash") /\ ExitProcess

-----------------------------------------------------------------------------
(* Start.                                                                    *)

(* createEthClient, whose name says otherwise, dials RabbitMQ and makes the  *)
(* new connection that of the pushes; the old one is not closed.             *)
CreateEthClient ==
  /\ dials < MaxDials
  /\ dials' = dials + 1
  /\ open' = open \cup {dials + 1}
  /\ mqConn' = dials + 1

Dial ==
  /\ ppc = "dial"
  /\ CreateEthClient
  /\ ppc' = "latest"
  /\ UNCHANGED <<rowVars, queueVars, ackConn, latest, dbLatest, tries, index,
                 ackVars, exits, historyVars>>

(* One attempt at BlockNumber.  A failed one leaves latestBlockNumber at 0;  *)
(* after "connection reset by peer" RabbitMQ is dialled anew.                *)
AskHead ==
  /\ tries < MaxRetryTime
  /\ latest' = head
  /\ tries' = 0
  /\ UNCHANGED connVars

(* Mutant: one attempt too many.                                             *)
MissHeadOnceMore ==
  /\ Fault("rpc")
  /\ tries <= MaxRetryTime
  /\ latest' = 0
  /\ tries' = tries + 1
  /\ UNCHANGED connVars

(* (The last attempt is bounded by the panic that follows it.)               *)
MissHead ==
  /\ Fault("rpc")
  /\ tries < MaxRetryTime
  /\ tries + 1 < MaxRetryTime \/ exits < MaxExits
  /\ latest' = 0
  /\ tries' = tries + 1
  /\ \/ UNCHANGED connVars
     \/ Fault("reset") /\ CreateEthClient /\ UNCHANGED ackConn

(* After the last attempt the goroutine sleeps once more, and panics; until  *)
(* then the others run, with a latestBlockNumber of 0.                       *)
PanicNoHead ==
  /\ tries = MaxRetryTime
  /\ ExitProcess

(* getLatestBlockNumber; then the two goroutines start.                      *)
GetLatestBlockNumber ==
  /\ ppc = "latest"
  /\ \/ AskHead /\ ppc' = "load" /\ apc' = "subscribe"
     \/ MissHead /\ UNCHANGED <<ppc, apc>>
  /\ UNCHANGED <<rowVars, queueVars, dbLatest, index, num, exits, historyVars>>

Started == ppc \in {"load", "assign", "loop", "ended"}

(* continueUpdateBlockNumber: one attempt, every 5 s or 1 s after a failure. *)
ContinueUpdateBlockNumber ==
  /\ Started
  /\ AskHead \/ MissHead
  /\ UNCHANGED <<rowVars, queueVars, dbLatest, loopVars, ackVars, exits, historyVars>>

-----------------------------------------------------------------------------
(* startLoop.                                                                *)

(* Mutant: the block of the watermark is done, so the loop starts after it.  *)
LoadNext ==
  /\ ppc = "load"
  /\ \/ ppc' = "assign" /\ index' = dbRow + 1 /\ UNCHANGED dbLatest
     \/ Fault("load") /\ ppc' = "ended" /\ index' = 0 /\ dbLatest' = 0
  /\ UNCHANGED <<rowVars, queueVars, connVars, latest, tries, ackVars, exits, historyVars>>

(* The watermark is read; on an error 0 is stored and the loop never runs.   *)
Load ==
  /\ ppc = "load"
  /\ \/ ppc' = "assign" /\ index' = dbRow /\ UNCHANGED dbLatest
     \/ Fault("load") /\ ppc' = "ended" /\ index' = 0 /\ dbLatest' = 0
  /\ UNCHANGED <<rowVars, queueVars, connVars, latest, tries, ackVars, exits, historyVars>>

(* ... and stored, over what receiveACK may have stored since.               *)
AssignDbLatest ==
  /\ ppc = "assign"
  /\ ppc' = "loop"
  /\ dbLatest' = index
  /\ synced' = (index = dbRow /\ apc \notin {"update", "store"})
  /\ UNCHANGED <<rowVars, queueVars, connVars, latest, tries, index, ackVars,
                 exits, pushed, dropped>>

(* pushMsg, without publisher confirms: a push that fails is logged, one     *)
(* that is lost on the way is not even that, and the loop goes on.           *)
PushMsg(b) ==
  \/ /\ mqConn \in open
     /\ ready' = [ready EXCEPT ![b] = @ + 1]
     /\ pushed' = pushed \cup {b}
     /\ UNCHANGED dropped
  \/ /\ mqConn \notin open \/ Fault("publish")
     /\ dropped' = dropped \cup {b}
     /\ UNCHANGED <<ready, pushed>>

(* Mutant: the loop runs one past the head.                                  *)
PushNextOnePast ==
  /\ ppc = "loop"
  /\ index <= latest + 1 /\ index \in Numbers
  /\ PushMsg(index)
  /\ index' = index + 1
  /\ UNCHANGED <<rowVars, doneQ, declared, dones, connVars, latest, dbLatest,
                 tries, ppc, ackVars, exits, synced>>

PushNext ==
  /\ ppc = "loop"
  /\ index <= latest
  /\ PushMsg(index)
  /\ index' = index + 1
  /\ UNCHANGED <<rowVars, doneQ, declared, dones, connVars, latest, dbLatest,
                 tries, ppc, ackVars, exits, synced>>

(* Caught up: startLoop returns for good.                                    *)
LoopEnds ==
  /\ ppc = "loop"
  /\ index > latest
  /\ ppc' = "ended"
  /\ UNCHANGED <<rowVars, queueVars, connVars, latest, dbLatest, tries, index,
                 ackVars, exits, historyVars>>

-----------------------------------------------------------------------------
(* receiveACK.                                                               *)

(* It retries until the queue exists; it cannot open a channel on a closed   *)
(* connection, and Fatalf ends the process.                                  *)
Subscribe ==
  /\ apc = "subscribe"
  /\ mqConn \in open
  /\ declared
  /\ apc' = "range"
  /\ ackConn' = mqConn
  /\ UNCHANGED <<rowVars, queueVars, open, dials, mqConn, latest, dbLatest,
                 tries, loopVars, num, exits, historyVars>>

SubscribeFatal ==
  /\ apc = "subscribe"
  /\ mqConn \notin open
  /\ ExitProcess

(* The ack of the message at the head of the queue.                          *)
AckHead == doneQ' = IF ackConn \in open THEN Tail(doneQ) ELSE doneQ

(* Mutant: no comparison with the watermark.                                 *)
ReceiveAnyDone ==
  /\ apc = "range"
  /\ ackConn \in open
  /\ doneQ # <<>>
  /\ num' = Head(doneQ)
  /\ apc' = "update"
  /\ UNCHANGED <<rowVars, queueVars, connVars, latest, dbLatest,
                 tries, loopVars, exits, historyVars>>

(* A message is received; a number below the watermark is just acked.        *)
ReceiveDone ==
  /\ apc = "range"
  /\ ackConn \in open
  /\ doneQ # <<>>
  /\ num' = Head(doneQ)
  /\ IF Head(doneQ) < dbLatest
     THEN AckHead /\ UNCHANGED apc
     ELSE apc' = "update" /\ UNCHANGED doneQ
  /\ UNCHANGED <<rowVars, ready, declared, dones, connVars, latest, dbLatest,
                 tries, loopVars, exits, historyVars>>

(* Mutant: after an error of the update the next message is received, and    *)
(* this one is never acked.                                                  *)
UpdateRowContinues ==
  /\ apc = "update"
  /\ \/ dbRow' = num /\ apc' = "store"
     \/ Fault("update") /\ dbRow' = dbRow /\ apc' = "range"
  /\ UNCHANGED <<head, queueVars, connVars, latest, dbLatest, tries, loopVars,
                 num, exits, historyVars>>

(* UpdateLatestBlockNumber; an error is logged, and the rest goes on.        *)
UpdateRow ==
  /\ apc = "update"
  /\ apc' = "store"
  /\ dbRow' = num \/ (Fault("update") /\ dbRow' = dbRow)
  /\ UNCHANGED <<head, queueVars, connVars, latest, dbLatest, tries, loopVars,
                 num, exits, historyVars>>

StoreDbLatest ==
  /\ apc = "store"
  /\ apc' = "ack"
  /\ dbLatest' = num
  /\ UNCHANGED <<rowVars, queueVars, connVars, latest, tries, loopVars, num,
                 exits, historyVars>>

AckDone ==
  /\ apc = "ack"
  /\ apc' = "range"
  /\ AckHead
  /\ UNCHANGED <<rowVars, ready, declared, dones, connVars, latest, dbLatest,
                 tries, loopVars, num, exits, historyVars>>

(* The connection is gone: the range loop ends, and nothing replaces it.     *)
ReceiverEnds ==
  /\ apc = "range"
  /\ ackConn \notin open
  /\ apc' = "ended"
  /\ UNCHANGED <<rowVars, queueVars, connVars, latest, dbLatest, tries, loopVars,
                 num, exits, historyVars>>

-----------------------------------------------------------------------------
StartLoop ==
  Dial \/ GetLatestBlockNumber \/ Load \/ AssignDbLatest \/ PushNext \/ LoopEnds

ReceiveACK ==
  \/ Subscribe \/ SubscribeFatal \/ ReceiveDone \/ UpdateRow \/ StoreDbLatest
  \/ AckDone \/ ReceiverEnds

Next ==
  \/ Mine \/ BrokerRestart \/ Crash \/ IndexerDeclares
  \/ \E b \in Numbers : IndexerDone(b) \/ IndexerGivesUp(b)
  \/ \E c \in open : ConnDrop(c)
  \/ ContinueUpdateBlockNumber \/ PanicNoHead
  \/ StartLoop \/ ReceiveACK

Spec == Init /\ [][Next]_vars

(* The three goroutines run whenever they can.                               *)
Fairness ==
  /\ WF_vars(StartLoop) /\ WF_vars(ReceiveACK)
  /\ WF_vars(ContinueUpdateBlockNumber \/ PanicNoHead)

FairSpec == Spec /\ Fairness

-----------------------------------------------------------------------------
(* Properties.                                                               *)

TypeOK ==
  /\ head \in Numbers /\ dbRow \in Numbers
  /\ ready \in [Numbers -> Nat]
  /\ doneQ \in Seq(Numbers)
  /\ declared \in BOOLEAN
  /\ dones \in 0 .. MaxDones
  /\ open \subseteq 1 .. MaxDials
  /\ dials \in 0 .. MaxDials
  /\ mqConn \in 0 .. MaxDials /\ ackConn \in 0 .. MaxDials
  /\ latest \in Numbers /\ dbLatest \in Numbers
  /\ tries \in 0 .. MaxRetryTime
  /\ ppc \in {"dial", "latest", "load", "assign", "loop", "ended"}
  /\ index \in Nat
  /\ apc \in {"off", "subscribe", "range", "update", "store", "ack", "ended"}
  /\ num \in Numbers
  /\ exits \in 0 .. MaxExits
  /\ pushed \subseteq Numbers /\ dropped \subseteq Numbers
  /\ synced \in BOOLEAN

(* A producer that starts again starts at the watermark, so every block      *)
(* below it must have been tried: through restarts, early ends of the loop   *)
(* when an RPC error zeroes latestBlockNumber, watermarks that fall back,    *)
(* and done messages in any order, startLoop leaves no gap behind it other   *)
(* than the pushes that failed.                                              *)
WatermarkCovered == \A b \in Numbers : b < dbRow => b \in pushed \cup dropped

(* No block is asked for before it is mined: the indexer would fail to fetch *)
(* it, ack it, and it would be lost.                                         *)
OnlyMinedPushed == \A b \in pushed : b <= head

(* The watermark in MySQL never falls, whatever the order of the done        *)
(* messages, once startLoop has set dbLatestBlockNumber to what the row held *)
(* (and receiveACK was not just then about to move it).  Before that moment, *)
(* and when the two race, it can: receiveACK compares with 0, or startLoop   *)
(* overwrites a newer value with the older one it read.                      *)
WatermarkMonotone == [][dbRow' < dbRow => ~synced]_vars

(* The connection was closed under receiveACK: its range loop has ended, and *)
(* nothing replaces it, or it finds it closed as it subscribes, and exits.   *)
ReceiverLost == apc = "ended" \/ (apc = "subscribe" /\ mqConn \notin open)

(* Every done message is acked in the end: whatever order the messages come  *)
(* in, although updates of the row fail, and although the process crashes    *)
(* between the update and the ack and its successor gets the message again;  *)
(* unless the connection of the receiver is lost.                            *)
EveryDoneAcked == doneQ # <<>> ~> doneQ = <<>> \/ ReceiverLost

(* What the readme says of the producer: it keeps sending the block numbers  *)
(* that need to be scanned to the queue.                                     *)
KeepsPushing == \A b \in Numbers : b <= head ~> b \in pushed

=============================================================================
