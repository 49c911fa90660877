----------------------- MODULE IndexerContractProofs -----------------------
(***************************************************************************)
(* Proofs that the buffers stay bounded, that every send is served, that a *)
(* block with a transaction that does not convert is never reported, that  *)
(* no copy of a block number disappears without an outcome, and that       *)
(* Indexer implements ScanContract.  The last two rest on HoldInv: while   *)
(* the connection is open, a scanning worker is the one RabbitMQ has its   *)
(* message out to.                                                         *)
(***************************************************************************)
EXTENDS IndexerProofs

-----------------------------------------------------------------------------
(* Bounded buffers.  A process that is down has nothing in its buffers: the  *)
(* consumers of the next one start with room.                                *)

DownEmpty == phase = "down" => \A k \in Kinds : buf[k] = <<>> /\ saver[k] = "none"

BufferInv == BufferBounded /\ DownEmpty

LEMMA ReceiveBounded ==
  ASSUME TypeInv, BufferInv, NEW k \in Kinds, NEW r \in Rows, Receive(k, r),
         phase' = phase, phase # "down"
  PROVE  BufferInv'
<1>1. /\ buf[k] \in Seq(Rows) /\ Len(buf[k]) < StoreBufferSize
      /\ Len(buf[k]) \in Nat /\ StoreBufferSize \in Nat
  BY IndexerAssumption DEF TypeInv, TypeOK, BufferInv, BufferBounded, Receive
<1>2. /\ buf'[k] = Append(buf[k], r) /\ Len(buf'[k]) = Len(buf[k]) + 1
      /\ saver'[k] = IF Len(buf[k]) + 1 = StoreBufferSize THEN "saving" ELSE "run"
  BY <1>1 DEF TypeInv, TypeOK, Receive
<1>3. \A l \in Kinds \ {k} : buf'[l] = buf[l] /\ saver'[l] = saver[l]
  BY DEF TypeInv, TypeOK, Receive
<1>4. /\ Len(buf'[k]) <= StoreBufferSize
      /\ saver'[k] = "run" => Len(buf'[k]) < StoreBufferSize
  BY <1>1, <1>2
<1>5. BufferBounded'
  BY <1>3, <1>4 DEF BufferInv, BufferBounded
<1> QED
  BY <1>5 DEF BufferInv, DownEmpty

(* A consumer step empties a buffer or stops it from growing.                *)
LEMMA ConsumerBounded ==
  ASSUME TypeInv, BufferInv, NEW k \in Kinds, ConsumerRun(k)
  PROVE  BufferInv'
<1>1. phase' = phase /\ Len(<<>>) = 0 /\ StoreBufferSize \in Nat \ {0}
  BY IndexerAssumption DEF ConsumerRun, processVars
<1>2. phase # "down"
  BY DEF ConsumerRun, Tick, SeeClosed, Save, BufferInv, DownEmpty
<1>3. CASE Tick(k) \/ SeeClosed(k)
  <2>1. buf' = buf /\ \A l \in Kinds : saver'[l] = "run" => saver[l] = "run"
    BY <1>3 DEF Tick, SeeClosed, TypeInv, TypeOK
  <2> QED
    BY <1>1, <1>2, <2>1 DEF BufferInv, BufferBounded, DownEmpty
<1>4. CASE Save(k)
  <2>1. /\ buf'[k] = <<>>
        /\ \A l \in Kinds \ {k} : buf'[l] = buf[l] /\ saver'[l] = saver[l]
    BY <1>4 DEF Save, TypeInv, TypeOK
  <2>2. BufferBounded'
    BY <1>1, <2>1 DEF BufferInv, BufferBounded
  <2> QED
    BY <1>1, <1>2, <2>2 DEF BufferInv, DownEmpty
<1> QED
  BY <1>3, <1>4 DEF ConsumerRun

LEMMA NextBounded == TypeInv /\ BufferInv /\ [Next]_vars => BufferInv'
<1> SUFFICES ASSUME TypeInv, BufferInv, [Next]_vars PROVE BufferInv'
  OBVIOUS
<1> USE DEF processVars, workerVars, consumerVars, historyVars, queueVars
<1>1. Len(<<>>) = 0 /\ StoreBufferSize \in Nat \ {0}
  BY IndexerAssumption
<1>2. CASE ExitProcess
  <2>1. \A k \in Kinds : buf'[k] = <<>> /\ saver'[k] = "none"
    BY <1>2 DEF ExitProcess
  <2> QED
    BY <1>1, <2>1 DEF BufferInv, BufferBounded, DownEmpty
<1>3. CASE Restart
  <2>1. /\ \A k \in Kinds : buf'[k] = <<>>
        /\ phase' = "starting"
    BY <1>3 DEF Restart, BufferInv, DownEmpty
  <2> QED
    BY <1>1, <2>1 DEF BufferInv, BufferBounded, DownEmpty
<1>4. ASSUME UNCHANGED <<buf, saver>>, phase' = "down" => phase = "down"
      PROVE  BufferInv'
  BY <1>4 DEF BufferInv, BufferBounded, DownEmpty
<1>5. ASSUME NEW k \in Kinds, ConsumerRun(k) PROVE BufferInv'
  BY <1>5, ConsumerBounded
<1>6. ASSUME NEW w \in Workers, SendRow(w) PROVE BufferInv'
  <2> DEFINE r == <<job[w], tx[w], lg[w]>>
  <2>1. pc[w] = "send" /\ job[w] \in Blocks /\ r \in RowsOf(job[w])
    BY <1>6 DEF SendRow, TypeInv, CursorOK, Cursor, Scanning
  <2>2. r \in Rows /\ KindOf(r) \in Kinds /\ phase # "down"
    BY <2>1, RowsOfRows DEF KindOf, Kinds, TypeInv, CursorOK
  <2> QED
    BY <1>6, <2>2, ReceiveBounded DEF SendRow
<1>7. CASE UNCHANGED vars
  BY <1>4, <1>7 DEF vars
<1>8. ASSUME NEW w \in Workers,
             \/ Scan(w) \/ (\E b \in Blocks : Deliver(w, b)),
             ~ExitProcess, ~SendRow(w)
      PROVE  UNCHANGED <<buf, saver, phase>>
  BY <1>8 DEF Scan, GetBlockInfo, Setup, RangeEnds, FetchBlock, NextTx, TxDetail,
     GetLogs, PublishDone, AckDone, FailScan, Deliver, SendBlockRow, SendTxRow,
     SendLogRow, SendPanics
<1>9. CASE \/ \E b \in Blocks : Push(b)
           \/ TakeDone \/ Start \/ Crash \/ ConnDrop \/ BrokerRestart
           \/ Signal \/ ShutdownStep
  <2>1. CASE ~ExitProcess
    <3>1. UNCHANGED <<buf, saver>> /\ (phase' = "down" => phase = "down")
      BY <1>9, <2>1 DEF Push, TakeDone, Start, Crash, ConnDrop, BrokerRestart,
                        Signal, ShutdownStep
    <3> QED
      BY <1>4, <3>1
  <2> QED
    BY <1>2, <2>1
<1>10. ASSUME Next, NEW w \in Workers, \/ Scan(w) \/ (\E b \in Blocks : Deliver(w, b))
       PROVE  BufferInv'
  BY <1>2, <1>4, <1>6, <1>8, <1>10
<1>11. CASE BlockConsumerRun \/ TxConsumerRun \/ LogConsumerRun
  BY <1>5, <1>11 DEF BlockConsumerRun, TxConsumerRun, LogConsumerRun, Kinds
<1> QED
  BY <1>3, <1>7, <1>9, <1>10, <1>11 DEF Next

(* A buffer never outgrows STORE_BUFFER_SIZE, whatever its size, the rows    *)
(* and the failures of the saves.                                            *)
THEOREM BuffersBounded == Spec => []BufferBounded
<1>1. Init => BufferInv
  <2>1. Len(<<>>) = 0 /\ StoreBufferSize \in Nat \ {0}
    BY IndexerAssumption
  <2> QED
    BY <2>1 DEF Init, BufferInv, BufferBounded, DownEmpty
<1>2. TypeInv /\ [Next]_vars => TypeInv'
  BY NextType
<1> QED
  BY <1>1, <1>2, InitType, NextBounded, PTL DEF Spec, BufferInv

-----------------------------------------------------------------------------
(* Consumers stay.  While the process lives, a consumer is in its select or  *)
(* in a save it comes back from, unless its channel is closed.               *)
ServeInv ==
  \A k \in Kinds : saver[k] \in {"run", "saving"} \/ k \in ClosedChans \/ phase = "down"

LEMMA ConsumerServes ==
  ASSUME TypeInv, ServeInv, NEW k \in Kinds, ConsumerRun(k)
  PROVE  ServeInv'
<1>1. phase' = phase /\ ClosedChans' = ClosedChans
  BY DEF ConsumerRun, processVars, ClosedChans
<1>2. \A l \in Kinds \ {k} : saver'[l] = saver[l]
  BY DEF ConsumerRun, Tick, SeeClosed, Save, TypeInv, TypeOK
<1>3. saver'[k] \in {"run", "saving"} \/ k \in ClosedChans \/ phase = "down"
  BY DEF ConsumerRun, Tick, SeeClosed, Save, TypeInv, TypeOK, ServeInv
<1> QED
  BY <1>1, <1>2, <1>3 DEF ServeInv

LEMMA NextServes == TypeInv /\ ServeInv /\ [Next]_vars => ServeInv'
<1> SUFFICES ASSUME TypeInv, ServeInv, [Next]_vars PROVE ServeInv'
  OBVIOUS
<1> USE DEF processVars, workerVars, consumerVars, historyVars, queueVars
<1>1. CASE ExitProcess
  BY <1>1 DEF ExitProcess, ServeInv
<1>2. CASE Restart
  BY <1>2 DEF Restart, ServeInv
<1>3. CASE (Start \/ Signal \/ ShutdownStep) /\ ~ExitProcess
  <2>1. saver' = saver /\ phase # "down" /\ ClosedChans \subseteq ClosedChans'
    BY <1>3 DEF Start, Signal, ShutdownStep, ClosedChans, Kinds
  <2> QED
    BY <2>1 DEF ServeInv
<1>4. CASE BlockConsumerRun \/ TxConsumerRun \/ LogConsumerRun
  BY <1>4, ConsumerServes DEF BlockConsumerRun, TxConsumerRun, LogConsumerRun, Kinds
<1>5. ASSUME phase' = phase,
             \A k \in Kinds : saver[k] \in {"run", "saving"} => saver'[k] \in {"run", "saving"}
      PROVE  ServeInv'
  BY <1>5 DEF ServeInv, ClosedChans
<1>6. CASE \/ \E b \in Blocks : Push(b)
           \/ TakeDone \/ ConnDrop \/ BrokerRestart \/ UNCHANGED vars
  BY <1>5, <1>6 DEF Push, TakeDone, ConnDrop, BrokerRestart, vars
<1>7. ASSUME NEW w \in Workers, ~ExitProcess,
             Scan(w) \/ (\E c \in Blocks : Deliver(w, c))
      PROVE  ServeInv'
  <2>1. CASE SendRow(w)
    <3>1. /\ phase' = phase
          /\ \A l \in Kinds : saver'[l] = saver[l] \/ saver'[l] = "saving"
      BY <2>1 DEF SendRow, Receive, TypeInv, TypeOK
    <3> QED
      BY <1>5, <3>1
  <2>2. CASE ~SendRow(w)
    <3>1. UNCHANGED <<phase, saver>>
      BY <1>7, <2>2 DEF Scan, GetBlockInfo, Setup, RangeEnds, FetchBlock, NextTx,
         TxDetail, GetLogs, SendPanics, SendBlockRow, SendTxRow, SendLogRow,
         PublishDone, AckDone, FailScan, Deliver
    <3> QED
      BY <1>5, <3>1
  <2> QED
    BY <2>1, <2>2
<1>8. CASE Crash
  BY <1>1, <1>8 DEF Crash
<1> QED
  BY <1>1, <1>2, <1>3, <1>4, <1>6, <1>7, <1>8 DEF Next

(* No worker waits on a channel for good: what the saves of the consumer     *)
(* come to, and whatever is signalled, its send is taken or panics.          *)
THEOREM SendsAreServed == Spec => []SendServed
<1>1. Init => ServeInv
  BY DEF Init, ServeInv
<1>2. TypeInv /\ ServeInv => SendServed
  BY RowsOfRows DEF SendServed, ServeInv, TypeInv, CursorOK, KindOf, Kinds
<1> QED
  BY <1>1, <1>2, InitType, NextType, NextServes, PTL DEF Spec

-----------------------------------------------------------------------------
(* Blocks that do not convert.  A worker that has come to the end of a block *)
(* has been at each of its transactions.                                     *)

PassedGood(w) ==
  pc[w] \in Scanning =>
    /\ \A i \in 1 .. tx[w] : <<job[w], i>> \notin BadTxs
    /\ pc[w] \in {"publish", "ack"} => tx[w] = Len(TxLogs[job[w]])

BadInv == BadBlockNeverDone /\ \A w \in Workers : PassedGood(w)

LEMMA WorkerBad ==
  ASSUME BadInv, TypeInv, NEW w \in Workers, published' = published,
         \A v \in Workers \ {w} : pc'[v] = pc[v] /\ job'[v] = job[v] /\ tx'[v] = tx[v],
         PassedGood(w)'
  PROVE  BadInv'
<1>1. BadBlockNeverDone'
  BY DEF BadInv, BadBlockNeverDone
<1>2. \A v \in Workers \ {w} : PassedGood(v)'
  BY DEF BadInv, PassedGood
<1> QED
  BY <1>1, <1>2 DEF BadInv

LEMMA NextBad == TypeInv /\ BadInv /\ [Next]_vars => BadInv'
<1> SUFFICES ASSUME TypeInv, BadInv, [Next]_vars PROVE BadInv'
  OBVIOUS
<1> USE DEF processVars, workerVars, consumerVars, historyVars, queueVars
<1>0. /\ pc \in [Workers -> Pcs] /\ job \in [Workers -> Blocks \cup {None}]
      /\ tx \in [Workers -> Nat] /\ lg \in [Workers -> Nat]
  BY DEF TypeInv, TypeOK
<1>1. ASSUME UNCHANGED <<job, tx, published>>,
             \A w \in Workers : pc'[w] = pc[w] \/ pc'[w] \notin Scanning
      PROVE  BadInv'
  <2>1. BadBlockNeverDone'
    BY <1>1 DEF BadInv, BadBlockNeverDone
  <2>2. \A w \in Workers : PassedGood(w)'
    BY <1>1 DEF BadInv, PassedGood
  <2> QED
    BY <2>1, <2>2 DEF BadInv
<1>2. CASE ExitProcess
  <2>1. published' = published /\ \A w \in Workers : pc'[w] = "none"
    BY <1>2 DEF ExitProcess
  <2>2. BadBlockNeverDone'
    BY <2>1 DEF BadInv, BadBlockNeverDone
  <2>3. \A w \in Workers : PassedGood(w)'
    BY <2>1 DEF PassedGood, Scanning
  <2> QED
    BY <2>2, <2>3 DEF BadInv
<1>3. CASE UNCHANGED vars
  BY <1>1, <1>3 DEF vars
<1>4. CASE \/ \E b \in Blocks : Push(b)
           \/ TakeDone \/ Start \/ Restart \/ Crash \/ ConnDrop \/ BrokerRestart
           \/ Signal \/ ShutdownStep
           \/ BlockConsumerRun \/ TxConsumerRun \/ LogConsumerRun
  <2>1. CASE ~ExitProcess
    <3>1. UNCHANGED <<job, tx, published>>
      BY <1>4, <2>1 DEF Push, TakeDone, Start, Restart, Crash, ConnDrop, BrokerRestart,
        Signal, ShutdownStep, BlockConsumerRun, TxConsumerRun, LogConsumerRun, ConsumerRun
    <3>2. pc' = pc \/ \A w \in Workers : pc'[w] = "setup"
      BY <1>4, <2>1 DEF Push, TakeDone, Start, Restart, Crash, ConnDrop, BrokerRestart,
        Signal, ShutdownStep, BlockConsumerRun, TxConsumerRun, LogConsumerRun, ConsumerRun
    <3> QED
      BY <1>1, <3>1, <3>2 DEF Scanning
  <2> QED
    BY <1>2, <2>1
<1>5. ASSUME NEW w \in Workers, NEW label \in {"range", "exited"},
             GoTo(w, label), published' = published,
             \/ ClearJob(w)
             \/ UNCHANGED <<job, tx>>
      PROVE  BadInv'
  <2>1. /\ pc'[w] = label
        /\ \A v \in Workers \ {w} : pc'[v] = pc[v] /\ job'[v] = job[v] /\ tx'[v] = tx[v]
    BY <1>0, <1>5 DEF GoTo, ClearJob
  <2>2. PassedGood(w)'
    BY <2>1 DEF PassedGood, Scanning
  <2> QED
    BY <1>5, <2>1, <2>2, WorkerBad
<1>6. ASSUME NEW w \in Workers, NEW b \in Blocks, Deliver(w, b) PROVE BadInv'
  <2>1. /\ pc'[w] = "fetch" /\ tx'[w] = 0 /\ published' = published
        /\ \A v \in Workers \ {w} : pc'[v] = pc[v] /\ job'[v] = job[v] /\ tx'[v] = tx[v]
    BY <1>0, <1>6 DEF Deliver, GoTo, TypeInv, CursorOK, Scanning
  <2>2. PassedGood(w)'
    BY <2>1 DEF PassedGood
  <2> QED
    BY <2>1, <2>2, WorkerBad
<1>7. ASSUME NEW w \in Workers, pc[w] \in Scanning, NEW label \in Pcs,
             GoTo(w, label), UNCHANGED <<job, tx, published>>,
             label \notin {"publish", "ack"}
      PROVE  BadInv'
  <2>1. /\ pc'[w] = label
        /\ \A v \in Workers \ {w} : pc'[v] = pc[v]
    BY <1>0, <1>7 DEF GoTo
  <2>2. PassedGood(w)'
    BY <1>7, <2>1 DEF BadInv, PassedGood
  <2> QED
    BY <1>7, <2>1, <2>2, WorkerBad
<1>8. ASSUME NEW w \in Workers, Setup(w) \/ RangeEnds(w) \/ AckDone(w) \/ FailScan(w)
      PROVE  BadInv'
  BY <1>5, <1>8 DEF Setup, RangeEnds, AckDone, FailScan
<1>9. ASSUME NEW w \in Workers, ~FailScan(w),
             FetchBlock(w) \/ TxDetail(w) \/ GetLogs(w)
      PROVE  BadInv'
  BY <1>7, <1>9 DEF FetchBlock, TxDetail, GetLogs, Scanning, Pcs
<1>10. ASSUME NEW w \in Workers, SendBlockRow(w) \/ SendTxRow(w) \/ SendLogRow(w)
       PROVE  BadInv'
  <2>1. pc[w] = "send" /\ UNCHANGED <<job, tx, published>>
    BY <1>10 DEF SendBlockRow, SendTxRow, SendLogRow, SendRow
  <2>2. CASE pc' = pc
    BY <1>1, <2>1, <2>2
  <2>3. CASE pc' # pc
    BY <1>7, <1>10, <2>1, <2>3
    DEF SendBlockRow, SendTxRow, SendLogRow, Scanning, Pcs
  <2> QED
    BY <2>2, <2>3
<1>11. ASSUME NEW w \in Workers, NextTx(w), ~FailScan(w) PROVE BadInv'
  <2>1. pc[w] = "nextTx" /\ UNCHANGED <<job, published>> /\ tx[w] \in Nat
    BY <1>0, <1>11 DEF NextTx
  <2>2. \A i \in 1 .. tx[w] : <<job[w], i>> \notin BadTxs
    BY <2>1 DEF BadInv, PassedGood, Scanning
  <2>3. CASE tx[w] = Len(TxLogs[job[w]]) /\ GoTo(w, "publish") /\ UNCHANGED tx
    <3>1. /\ pc'[w] = "publish"
          /\ \A v \in Workers \ {w} : pc'[v] = pc[v]
      BY <1>0, <2>3 DEF GoTo
    <3>2. PassedGood(w)'
      BY <2>1, <2>2, <2>3, <3>1 DEF PassedGood
    <3> QED
      BY <2>1, <2>3, <3>1, <3>2, WorkerBad
  <2>4. CASE /\ <<job[w], tx[w] + 1>> \notin BadTxs
             /\ GoTo(w, "send") /\ tx' = [tx EXCEPT ![w] = @ + 1]
    <3>1. /\ pc'[w] = "send" /\ tx'[w] = tx[w] + 1
          /\ \A v \in Workers \ {w} : pc'[v] = pc[v] /\ tx'[v] = tx[v]
      BY <1>0, <2>4 DEF GoTo
    <3>2. ASSUME NEW i \in 1 .. tx[w] + 1 PROVE <<job[w], i>> \notin BadTxs
      BY <2>1, <2>2, <2>4, <3>2
    <3>3. PassedGood(w)'
      BY <2>1, <3>1, <3>2 DEF PassedGood
    <3> QED
      BY <2>1, <3>1, <3>3, WorkerBad
  <2> QED
    BY <1>11, <2>3, <2>4 DEF NextTx
<1>12. ASSUME NEW w \in Workers, PublishDone(w) PROVE BadInv'
  <2>1. CASE GoTo(w, "range") /\ ClearJob(w) /\ published' = published
    BY <1>5, <2>1
  <2>2. CASE GoTo(w, "ack") /\ published' = published \cup {job[w]}
             /\ UNCHANGED <<job, tx>>
    <3>1. /\ pc[w] = "publish" /\ pc'[w] = "ack"
          /\ \A v \in Workers \ {w} : pc'[v] = pc[v]
      BY <1>0, <1>12, <2>2 DEF GoTo, PublishDone
    <3>2. /\ \A i \in 1 .. Len(TxLogs[job[w]]) : <<job[w], i>> \notin BadTxs
          /\ tx[w] = Len(TxLogs[job[w]]) /\ job[w] \in Blocks
      BY <3>1 DEF BadInv, PassedGood, Scanning, TypeInv, CursorOK
    <3>3. DOMAIN TxLogs[job[w]] = 1 .. Len(TxLogs[job[w]])
      <4>1. TxLogs[job[w]] \in Seq(Nat)
        BY <3>2, IndexerAssumption
      <4> QED
        BY <4>1
    <3>4. BadBlockNeverDone'
      BY <2>2, <3>2, <3>3 DEF BadInv, BadBlockNeverDone
    <3>5. \A v \in Workers : PassedGood(v)'
      BY <2>2, <3>1, <3>2 DEF BadInv, PassedGood
    <3> QED
      BY <3>4, <3>5 DEF BadInv
  <2> QED
    BY <1>12, <2>1, <2>2 DEF PublishDone
<1>13. ASSUME NEW w \in Workers, Scan(w) PROVE BadInv'
  BY <1>2, <1>8, <1>9, <1>10, <1>11, <1>12, <1>13 DEF Scan, GetBlockInfo, SendPanics
<1> QED
  BY <1>3, <1>4, <1>6, <1>13 DEF Next

(* A block with a transaction convertTxToRow rejects is never reported,      *)
(* whichever worker scans it and however often it is redelivered.            *)
THEOREM BadNeverReported == Spec => []BadBlockNeverDone
<1>1. Init => BadInv
  BY DEF Init, BadInv, BadBlockNeverDone, PassedGood, Scanning
<1>2. TypeInv /\ [Next]_vars => TypeInv'
  BY NextType
<1> QED
  BY <1>1, <1>2, InitType, NextBad, PTL DEF Spec, BadInv

-----------------------------------------------------------------------------
(* The copies of a block number.                                             *)

Holders(b) == {w \in Workers : unacked[w] = b}

LEMMA HoldersFinite ==
  ASSUME NEW b
  PROVE  /\ IsFiniteSet(Holders(b))
         /\ Cardinality(Holders(b)) \in Nat
         /\ Copies(b) = ready[b] + Cardinality(Holders(b))
<1>1. IsFiniteSet(Holders(b))
  BY IndexerAssumption, FS_Subset DEF Holders
<1> QED
  BY <1>1, FS_CardinalityType DEF Copies, Holders

(* A message put back on the queue is still there.                           *)
LEMMA RequeueKeepsCopies ==
  ASSUME TypeOK, TypeOK', RequeueUnacked, NEW b \in Blocks
  PROVE  Copies(b)' = Copies(b)
<1>1. ready'[b] = ready[b] + Cardinality(Holders(b))
  BY DEF RequeueUnacked, Requeued, Holders
<1>2. Holders(b)' = {}
  BY IndexerAssumption DEF RequeueUnacked, Holders
<1>3. Copies(b)' = ready'[b] + Cardinality(Holders(b)')
  BY DEF Copies, Holders
<1>4. Cardinality(Holders(b)') = 0
  BY <1>2, FS_EmptySet
<1>5. ready'[b] \in Nat
  BY DEF TypeOK
<1> QED
  BY <1>1, <1>3, <1>4, <1>5, HoldersFinite

(* So is a message delivered.                                                *)
LEMMA DeliverKeepsCopies ==
  ASSUME TypeOK, NEW w \in Workers, NEW c \in Blocks, Deliver(w, c), NEW b \in Blocks
  PROVE  Copies(b)' = Copies(b)
<1>1. /\ unacked[w] = None /\ unacked'[w] = c /\ ready[c] \in Nat \ {0} /\ c # None
      /\ \A v \in Workers \ {w} : unacked'[v] = unacked[v]
      /\ ready'[b] = IF b = c THEN ready[b] - 1 ELSE ready[b]
  BY IndexerAssumption DEF TypeOK, Deliver
<1>2. Copies(b)' = ready'[b] + Cardinality(Holders(b)')
  BY DEF Copies, Holders
<1>3. CASE b = c
  <2>1. Holders(b)' = Holders(b) \cup {w} /\ w \notin Holders(b)
    BY <1>1, <1>3 DEF Holders
  <2>2. Cardinality(Holders(b)') = Cardinality(Holders(b)) + 1
    BY <2>1, HoldersFinite, FS_AddElement
  <2> QED
    BY <1>1, <1>2, <1>3, <2>2, HoldersFinite
<1>4. CASE b # c
  <2>1. Holders(b)' = Holders(b)
    BY IndexerAssumption, <1>1, <1>4 DEF Holders
  <2> QED
    BY <1>1, <1>2, <1>4, <2>1, HoldersFinite
<1> QED
  BY <1>3, <1>4

(* An ack takes one copy of the message acked, and no other.                 *)
LEMMA AckTakesOne ==
  ASSUME TypeOK, NEW w \in Workers, AckMessage(w), NEW b \in Blocks
  PROVE  Copies(b)' = IF unacked[w] = b THEN Copies(b) - 1 ELSE Copies(b)
<1>1. /\ unacked'[w] = None /\ b # None /\ ready' = ready
      /\ \A v \in Workers \ {w} : unacked'[v] = unacked[v]
  BY IndexerAssumption DEF TypeOK, AckMessage
<1>2. Copies(b)' = ready[b] + Cardinality(Holders(b)')
  BY <1>1 DEF Copies, Holders
<1>3. CASE unacked[w] = b
  <2>1. Holders(b)' = Holders(b) \ {w} /\ w \in Holders(b)
    BY <1>1, <1>3 DEF Holders
  <2>2. Cardinality(Holders(b)') = Cardinality(Holders(b)) - 1
    BY <2>1, HoldersFinite, FS_RemoveElement
  <2>3. ready[b] \in Nat
    BY DEF TypeOK
  <2> QED
    BY <1>2, <1>3, <2>2, <2>3, HoldersFinite
<1>4. CASE unacked[w] # b
  <2>1. Holders(b)' = Holders(b)
    BY <1>1, <1>4 DEF Holders
  <2> QED
    BY <1>2, <1>4, <2>1, HoldersFinite
<1> QED
  BY <1>3, <1>4

(* A worker whose message is still out has at least that copy.               *)
LEMMA HolderCounts ==
  ASSUME TypeOK, NEW w \in Workers, NEW b \in Blocks, unacked[w] = b
  PROVE  Copies(b) > 0
<1>1. w \in Holders(b)
  BY DEF Holders
<1>2. Cardinality(Holders(b)) # 0
  BY <1>1, HoldersFinite, FS_EmptySet
<1>3. ready[b] \in Nat
  BY DEF TypeOK
<1> QED
  BY <1>2, <1>3, HoldersFinite

-----------------------------------------------------------------------------
(* Who holds a message.                                                      *)

HoldsJob(w) ==
  /\ ~conn => unacked[w] = None
  /\ conn /\ pc[w] \in Scanning => unacked[w] = job[w]
  /\ pc[w] = "ack" => job[w] \in published

HoldInv == \A w \in Workers : HoldsJob(w)

(* A step of one worker that leaves the connection alone.                    *)
LEMMA WorkerHolds ==
  ASSUME HoldInv, NEW w \in Workers, conn' = conn, published \subseteq published',
         \A v \in Workers \ {w} : pc'[v] = pc[v] /\ job'[v] = job[v] /\ unacked'[v] = unacked[v],
         HoldsJob(w)'
  PROVE  HoldInv'
<1>1. \A v \in Workers \ {w} : HoldsJob(v)'
  BY DEF HoldInv, HoldsJob
<1> QED
  BY <1>1 DEF HoldInv

LEMMA NextHold == TypeInv /\ HoldInv /\ [Next]_vars => HoldInv'
<1> SUFFICES ASSUME TypeInv, HoldInv, [Next]_vars PROVE HoldInv'
  OBVIOUS
<1> USE DEF processVars, workerVars, consumerVars, historyVars, queueVars
<1>0. /\ pc \in [Workers -> Pcs] /\ job \in [Workers -> Blocks \cup {None}]
      /\ unacked \in [Workers -> Blocks \cup {None}]
  BY DEF TypeInv, TypeOK
<1>1. ASSUME UNCHANGED <<unacked, conn, job, published>>,
             \A w \in Workers : pc'[w] = pc[w] \/ pc'[w] \notin Scanning
      PROVE  HoldInv'
  BY <1>1 DEF HoldInv, HoldsJob, Scanning
<1>2. ASSUME conn' = FALSE, unacked' = [w \in Workers |-> None],
             published' = published,
             \A w \in Workers : pc'[w] = "none" \/ (pc'[w] = pc[w] /\ job'[w] = job[w])
      PROVE  HoldInv'
  BY <1>2 DEF HoldInv, HoldsJob
<1>3. CASE \/ ExitProcess \/ ConnDrop \/ BrokerRestart
           \/ (Signal /\ ~ExitProcess)
  BY <1>2, <1>3 DEF ExitProcess, ConnDrop, BrokerRestart, Signal, RequeueUnacked
<1>4. CASE Start
  BY <1>4 DEF Start, HoldInv, HoldsJob, Scanning
<1>5. CASE \/ \E b \in Blocks : Push(b)
           \/ TakeDone \/ Restart \/ (ShutdownStep /\ ~ExitProcess)
           \/ BlockConsumerRun \/ TxConsumerRun \/ LogConsumerRun
           \/ UNCHANGED vars
  BY <1>1, <1>5 DEF Push, TakeDone, Restart, ShutdownStep, BlockConsumerRun,
     TxConsumerRun, LogConsumerRun, ConsumerRun, vars
<1>6. ASSUME NEW w \in Workers, NEW label \in {"range", "exited"},
             GoTo(w, label), UNCHANGED <<conn, published>>,
             ClearJob(w) \/ job' = job,
             AckMessage(w) \/ unacked' = unacked
      PROVE  HoldInv'
  <2>1. /\ pc'[w] = label /\ unacked'[w] \in {unacked[w], None}
        /\ \A v \in Workers \ {w} : pc'[v] = pc[v] /\ job'[v] = job[v] /\ unacked'[v] = unacked[v]
    BY <1>0, <1>6 DEF GoTo, ClearJob, AckMessage
  <2>2. HoldsJob(w)'
    BY <1>6, <2>1 DEF HoldInv, HoldsJob, Scanning
  <2> QED
    BY <1>6, <2>1, <2>2, WorkerHolds
<1>7. ASSUME NEW w \in Workers, NEW b \in Blocks, Deliver(w, b) PROVE HoldInv'
  <2>1. /\ pc'[w] = "fetch" /\ job'[w] = b /\ unacked'[w] = b /\ conn
        /\ UNCHANGED <<conn, published>>
        /\ \A v \in Workers \ {w} : pc'[v] = pc[v] /\ job'[v] = job[v] /\ unacked'[v] = unacked[v]
    BY <1>0, <1>7 DEF Deliver, GoTo
  <2>2. HoldsJob(w)'
    BY <2>1 DEF HoldsJob
  <2> QED
    BY <2>1, <2>2, WorkerHolds
<1>8. ASSUME NEW w \in Workers, pc[w] \in Scanning, NEW label \in Pcs \ {"ack"},
             GoTo(w, label), UNCHANGED <<conn, job, unacked, published>>
      PROVE  HoldInv'
  <2>1. /\ pc'[w] = label
        /\ \A v \in Workers \ {w} : pc'[v] = pc[v]
    BY <1>0, <1>8 DEF GoTo
  <2>2. HoldsJob(w)'
    BY <1>8, <2>1 DEF HoldInv, HoldsJob
  <2> QED
    BY <1>8, <2>1, <2>2, WorkerHolds
<1>9. ASSUME NEW w \in Workers, Setup(w) \/ RangeEnds(w) \/ AckDone(w) \/ FailScan(w)
      PROVE  HoldInv'
  BY <1>6, <1>9 DEF Setup, RangeEnds, AckDone, FailScan
<1>10. ASSUME NEW w \in Workers, ~FailScan(w),
              FetchBlock(w) \/ NextTx(w) \/ TxDetail(w) \/ GetLogs(w)
       PROVE  HoldInv'
  BY <1>8, <1>10 DEF FetchBlock, NextTx, TxDetail, GetLogs, Scanning, Pcs
<1>11. ASSUME NEW w \in Workers, SendBlockRow(w) \/ SendTxRow(w) \/ SendLogRow(w)
       PROVE  HoldInv'
  <2>1. pc[w] = "send" /\ UNCHANGED <<conn, job, unacked, published>>
    BY <1>11 DEF SendBlockRow, SendTxRow, SendLogRow, SendRow
  <2>2. CASE pc' = pc
    BY <1>1, <2>1, <2>2
  <2>3. CASE pc' # pc
    BY <1>8, <1>11, <2>1, <2>3
    DEF SendBlockRow, SendTxRow, SendLogRow, Scanning, Pcs
  <2> QED
    BY <2>2, <2>3
<1>12. ASSUME NEW w \in Workers, PublishDone(w) PROVE HoldInv'
  <2>1. CASE GoTo(w, "range") /\ ClearJob(w) /\ UNCHANGED <<conn, published, unacked>>
    BY <1>6, <2>1
  <2>2. CASE GoTo(w, "ack") /\ published' = published \cup {job[w]}
             /\ UNCHANGED <<job, conn, unacked>>
    <3>1. /\ pc[w] = "publish" /\ pc'[w] = "ack"
          /\ \A v \in Workers \ {w} : pc'[v] = pc[v]
      BY <1>0, <1>12, <2>2 DEF GoTo, PublishDone
    <3>2. HoldsJob(w)'
      BY <2>2, <3>1 DEF HoldInv, HoldsJob, Scanning
    <3> QED
      BY <2>2, <3>1, <3>2, WorkerHolds
  <2> QED
    BY <1>12, <2>1, <2>2 DEF PublishDone
<1>13. ASSUME NEW w \in Workers, Scan(w) PROVE HoldInv'
  BY <1>3, <1>9, <1>10, <1>11, <1>12, <1>13 DEF Scan, GetBlockInfo, SendPanics
<1>14. CASE Crash \/ Signal \/ ShutdownStep
  BY <1>3, <1>5, <1>14 DEF Crash
<1> QED
  BY <1>3, <1>4, <1>5, <1>7, <1>13, <1>14 DEF Next

(* What a step does to the copies: an action of a worker that is not an ack, *)
(* and every failure but the restart of RabbitMQ, keeps them all.            *)

(* A worker that gives its block up on an error.                             *)
GivesUp(w) == pc[w] \in {"fetch", "nextTx", "detail", "logs"} /\ FailScan(w)

LEMMA WorkerCopies ==
  ASSUME TypeInv, TypeInv', NEW w \in Workers, Scan(w) \/ (\E c \in Blocks : Deliver(w, c)),
         ~GivesUp(w), ~AckDone(w), NEW b \in Blocks
  PROVE  Copies(b)' = Copies(b)
<1> USE DEF processVars, workerVars, consumerVars, historyVars, queueVars
<1>1. CASE \E c \in Blocks : Deliver(w, c)
  BY <1>1, DeliverKeepsCopies DEF TypeInv
<1>2. CASE ExitProcess
  BY <1>2, RequeueKeepsCopies DEF TypeInv, ExitProcess
<1>3. CASE Scan(w) /\ ~ExitProcess
  <2>1. UNCHANGED <<ready, unacked>>
    BY <1>3 DEF Scan, GetBlockInfo, Setup, RangeEnds, FetchBlock, NextTx, TxDetail,
       GetLogs, PublishDone, SendBlockRow, SendTxRow, SendLogRow, SendRow,
       SendPanics, GivesUp
  <2> QED
    BY <2>1 DEF Copies
<1> QED
  BY <1>1, <1>2, <1>3

LEMMA OtherCopies ==
  ASSUME TypeInv, TypeInv',
         \/ TakeDone \/ Start \/ Restart \/ Crash \/ ConnDrop
         \/ Signal \/ ShutdownStep
         \/ BlockConsumerRun \/ TxConsumerRun \/ LogConsumerRun
         \/ UNCHANGED vars,
         NEW b \in Blocks
  PROVE  Copies(b)' = Copies(b)
<1> USE DEF processVars, workerVars, consumerVars, historyVars, queueVars
<1>1. CASE RequeueUnacked
  BY <1>1, RequeueKeepsCopies DEF TypeInv
<1>2. CASE ~RequeueUnacked
  <2>1. UNCHANGED <<ready, unacked>>
    BY <1>2 DEF TakeDone, Start, Restart, Crash, ConnDrop, Signal, ShutdownStep,
       ExitProcess, BlockConsumerRun, TxConsumerRun, LogConsumerRun, ConsumerRun, vars
  <2> QED
    BY <2>1 DEF Copies
<1> QED
  BY <1>1, <1>2

LEMMA PushCopies ==
  ASSUME TypeOK, NEW c \in Blocks, Push(c), NEW b \in Blocks
  PROVE  Copies(b)' = IF b = c THEN Copies(b) + 1 ELSE Copies(b)
<1>1. unacked' = unacked /\ ready'[b] = IF b = c THEN ready[b] + 1 ELSE ready[b]
  BY DEF Push, TypeOK
<1>2. Copies(b)' = ready'[b] + Cardinality(Holders(b)) /\ ready[b] \in Nat
  BY <1>1 DEF Copies, Holders, TypeOK
<1> QED
  BY <1>1, <1>2, HoldersFinite

(* A worker that acks is in its scan, and a message out to it is its job.    *)
LEMMA AckerHolds ==
  ASSUME TypeInv, HoldInv, NEW w \in Workers, pc[w] \in Scanning
  PROVE  unacked[w] \in {job[w], None} /\ job[w] \in Blocks
BY DEF HoldInv, HoldsJob, TypeInv, CursorOK

-----------------------------------------------------------------------------
(* Every copy that goes has an outcome.                                      *)

(* It is the ack of the worker that holds it.                                *)
LEMMA AckerOfStep ==
  ASSUME TypeInv, TypeInv', HoldInv, [Next]_vars, ~BrokerRestart,
         NEW b \in Blocks, Copies(b)' < Copies(b)
  PROVE  \E w \in Workers : /\ Scan(w) \/ \E c \in Blocks : Deliver(w, c)
                            /\ AckDone(w) \/ GivesUp(w)
                            /\ unacked[w] = b /\ job[w] = b
<1>1. Copies(b) \in Nat /\ ~(Copies(b) < Copies(b))
  BY HoldersFinite DEF TypeInv, TypeOK
<1>2. Copies(b)' # Copies(b)
  BY <1>1
<1>3. ASSUME NEW c \in Blocks, Push(c) PROVE FALSE
  BY <1>1, <1>3, PushCopies DEF TypeInv
<1>4. PICK w \in Workers : Scan(w) \/ (\E c \in Blocks : Deliver(w, c))
  BY <1>2, <1>3, OtherCopies DEF Next
<1>5. AckDone(w) \/ GivesUp(w)
  BY <1>2, <1>4, WorkerCopies
<1>6. AckMessage(w) /\ pc[w] \in Scanning
  BY <1>5 DEF AckDone, GivesUp, FailScan, Scanning
<1>7. unacked[w] = b /\ b # None
  BY <1>2, <1>6, AckTakesOne, IndexerAssumption DEF TypeInv
<1>8. job[w] = b
  BY <1>6, <1>7, AckerHolds
<1> QED
  BY <1>4, <1>5, <1>7, <1>8

LEMMA OutcomeOfStep ==
  ASSUME TypeInv, TypeInv', HoldInv, [Next]_vars, ~BrokerRestart,
         NEW b \in Blocks, Copies(b)' < Copies(b)
  PROVE  \/ b \in published
         \/ \E w \in Workers : /\ job[w] = b
                                /\ pc[w] \in {"fetch", "nextTx", "detail", "logs"}
                                /\ pc'[w] = "range"
<1>1. PICK w \in Workers : (AckDone(w) \/ GivesUp(w)) /\ job[w] = b
  BY AckerOfStep
<1>2. CASE AckDone(w)
  BY <1>1, <1>2 DEF AckDone, HoldInv, HoldsJob
<1>3. CASE GivesUp(w)
  <2>1. pc'[w] = "range"
    BY <1>3 DEF GivesUp, FailScan, GoTo, TypeInv, TypeOK
  <2> QED
    BY <1>1, <1>3, <2>1 DEF GivesUp
<1> QED
  BY <1>1, <1>2, <1>3

HoldTypeInv == TypeInv /\ HoldInv

LEMMA InitHold == Init => HoldTypeInv
BY InitType DEF Init, HoldTypeInv, HoldInv, HoldsJob, Scanning

(* RabbitMQ drops a copy of a block number only for a block reported done, a *)
(* worker that gave it up, or a restart of its own.                          *)
THEOREM AckedWithOutcome == Spec => AckFollowsOutcome
<1>1. TypeInv /\ [Next]_vars => TypeInv'
  BY NextType
<1>2. HoldTypeInv /\ [Next]_vars => HoldTypeInv'
  BY <1>1, NextHold DEF HoldTypeInv
<1>3. HoldTypeInv /\ HoldTypeInv' /\ [Next]_vars =>
        [\A b \in Blocks : Copies(b)' < Copies(b) =>
           \/ b \in published
           \/ \E w \in Workers : /\ job[w] = b
                                  /\ pc[w] \in {"fetch", "nextTx", "detail", "logs"}
                                  /\ pc'[w] = "range"
           \/ BrokerRestart]_vars
  BY OutcomeOfStep DEF HoldTypeInv
<1> QED
  BY <1>2, <1>3, InitHold, PTL DEF Spec, AckFollowsOutcome

-----------------------------------------------------------------------------
(* What a number is given up for.                                            *)

(* Shutdown closes the connection before it closes anything else.            *)
ClosedFirst ==
  phase \in {"mqClosed", "blockClosed", "txClosed", "logClosed"} => ~conn

LEMMA NextClosedFirst == ClosedFirst /\ [Next]_vars => ClosedFirst'
<1> SUFFICES ASSUME ClosedFirst, [Next]_vars PROVE ClosedFirst'
  OBVIOUS
<1> USE DEF ClosedFirst, processVars, workerVars, consumerVars, historyVars, queueVars
<1>1. CASE ExitProcess \/ Start \/ Restart \/ Crash \/ ConnDrop \/ BrokerRestart
  BY <1>1 DEF ExitProcess, Start, Restart, Crash, ConnDrop, BrokerRestart
<1>2. CASE (Signal \/ ShutdownStep) /\ ~ExitProcess
  BY <1>2 DEF Signal, ShutdownStep
<1>3. CASE \/ \E b \in Blocks : Push(b)
           \/ TakeDone \/ BlockConsumerRun \/ TxConsumerRun \/ LogConsumerRun
           \/ UNCHANGED vars
  BY <1>3 DEF Push, TakeDone, BlockConsumerRun, TxConsumerRun, LogConsumerRun,
     ConsumerRun, vars
<1>4. ASSUME NEW w \in Workers, ~ExitProcess,
             Scan(w) \/ (\E c \in Blocks : Deliver(w, c))
      PROVE  UNCHANGED <<phase, conn>>
  BY <1>4 DEF Scan, GetBlockInfo, Setup, RangeEnds, FetchBlock, NextTx, TxDetail,
     GetLogs, SendPanics, SendBlockRow, SendTxRow, SendLogRow, SendRow, PublishDone,
     AckDone, FailScan, Deliver
<1> QED
  BY <1>1, <1>2, <1>3, <1>4 DEF Next

(* A scan fails on an RPC call or on a transaction that does not convert.    *)
LEMMA GivesUpOnError ==
  ASSUME TypeInv, NEW w \in Workers, GivesUp(w),
         Scan(w) \/ \E c \in Blocks : Deliver(w, c)
  PROVE  RpcFails \/ BadTxs # {}
<1>1. /\ pc \in [Workers -> Pcs] /\ pc'[w] = "range"
      /\ pc[w] \in {"fetch", "nextTx", "detail", "logs"}
  BY DEF GivesUp, FailScan, GoTo, TypeInv, TypeOK
<1>2. pc' = [pc EXCEPT ![w] = "range"]
  BY DEF GivesUp, FailScan, GoTo
<1> QED
  BY <1>1, <1>2
  DEF Scan, GetBlockInfo, Setup, RangeEnds, FetchBlock, NextTx, TxDetail, GetLogs,
      SendPanics, SendBlockRow, SendTxRow, SendLogRow, SendRow, PublishDone, AckDone,
      Deliver, ExitProcess, GoTo

LEMMA LeavesReported ==
  ASSUME "rpc" \notin Faults, "broker" \notin Faults, BadTxs = {},
         TypeInv, TypeInv', HoldInv, ClosedFirst, [Next]_vars,
         NEW b \in Blocks, Copies(b)' < Copies(b)
  PROVE  b \in published
<1>1. ~BrokerRestart
  BY DEF BrokerRestart, Fault
<1>2. PICK w \in Workers : /\ Scan(w) \/ \E c \in Blocks : Deliver(w, c)
                           /\ AckDone(w) \/ GivesUp(w)
                           /\ unacked[w] = b /\ job[w] = b
  BY <1>1, AckerOfStep
<1>3. ~GivesUp(w)
  <2>1. unacked[w] # None
    BY <1>2, IndexerAssumption
  <2>2. phase # "logClosed"
    BY <2>1 DEF HoldInv, HoldsJob, ClosedFirst
  <2> QED
    BY <1>2, <2>2, GivesUpOnError DEF RpcFails, Fault
<1> QED
  BY <1>2, <1>3 DEF AckDone, HoldInv, HoldsJob

(* While the RPC endpoint answers, every transaction converts and RabbitMQ   *)
(* stays up, a number leaves the queue only after its done message: neither  *)
(* a crash, a signal, a lost connection nor a failed publish or save takes   *)
(* one away.                                                                 *)
THEOREM OnlyReportedLeave ==
  ASSUME "rpc" \notin Faults, "broker" \notin Faults, BadTxs = {}
  PROVE  Spec => [][\A b \in Blocks : Copies(b)' < Copies(b) => b \in published]_vars
<1> DEFINE Inv == HoldTypeInv /\ ClosedFirst
<1>1. Init => Inv
  BY InitHold DEF Init, ClosedFirst
<1>2. Inv /\ [Next]_vars => Inv'
  BY NextType, NextHold, NextClosedFirst DEF HoldTypeInv
<1>3. Inv /\ Inv' /\ [Next]_vars
        => [\A b \in Blocks : Copies(b)' < Copies(b) => b \in published]_vars
  BY LeavesReported DEF HoldTypeInv
<1> HIDE DEF Inv
<1> QED
  BY <1>1, <1>2, <1>3, PTL DEF Spec

-----------------------------------------------------------------------------
(* Indexer implements ScanContract.                                          *)

(* The two modules read the chain alike.                                     *)
LEMMA SameChain ==
  /\ Contract!Accounted = Accounted
  /\ Contract!Rows = Rows
  /\ \A b : Contract!RowsOf(b) = RowsOf(b)
  /\ \A b, i, j : Contract!Before(b, i, j) = Before(b, i, j)
BY DEF Contract!Accounted, Accounted, SkippedRows, Contract!Rows, Rows,
       Contract!RowsOf, RowsOf, Contract!Before, Before

LEMMA Stutters ==
  ASSUME \A b \in Blocks : Copies(b)' = Copies(b),
         UNCHANGED <<doneQ, skipped, published>>, Handed' = Handed
  PROVE  UNCHANGED Contract!contractVars
BY DEF Contract!contractVars

(* The steps of the process and of the consumers show nothing, whatever they *)
(* do to the connection.                                                     *)
LEMMA ProcessRefines ==
  ASSUME TypeInv, TypeInv',
         \/ Start \/ Restart \/ Crash \/ ConnDrop \/ Signal \/ ShutdownStep
         \/ BlockConsumerRun \/ TxConsumerRun \/ LogConsumerRun
         \/ UNCHANGED vars
  PROVE  UNCHANGED Contract!contractVars
<1> USE DEF processVars, workerVars, consumerVars, historyVars, queueVars
<1>1. \A b \in Blocks : Copies(b)' = Copies(b)
  BY OtherCopies
<1>2. UNCHANGED <<doneQ, skipped, published>>
  BY DEF Start, Restart, Crash, ConnDrop, Signal, ShutdownStep, ExitProcess,
     BlockConsumerRun, TxConsumerRun, LogConsumerRun, ConsumerRun, vars
<1>3. Handed' = Handed
  <2>1. CASE ExitProcess
    BY <2>1, ExitKeeps DEF TypeInv
  <2>2. CASE BlockConsumerRun \/ TxConsumerRun \/ LogConsumerRun
    BY <2>2, ConsumerKeeps
    DEF TypeInv, BlockConsumerRun, TxConsumerRun, LogConsumerRun, Kinds
  <2>3. CASE ~ExitProcess /\ ~(BlockConsumerRun \/ TxConsumerRun \/ LogConsumerRun)
    BY <2>3, UnchangedKeeps
    DEF Start, Restart, Crash, ConnDrop, Signal, ShutdownStep, vars
  <2> QED
    BY <2>1, <2>2, <2>3
<1> QED
  BY <1>1, <1>2, <1>3, Stutters

(* A restart of RabbitMQ takes every copy and every done message.            *)
LEMMA RestartRefines ==
  ASSUME BrokerRestart
  PROVE  Contract!Forget
<1> USE DEF processVars, workerVars, consumerVars, historyVars, queueVars
<1>1. ASSUME NEW b \in Blocks PROVE Copies(b)' = 0
  <2>1. Holders(b)' = {} /\ ready'[b] = 0
    BY IndexerAssumption DEF BrokerRestart, Holders
  <2>2. Cardinality(Holders(b)') = 0
    BY <2>1, FS_EmptySet
  <2> QED
    BY <2>1, <2>2 DEF Copies, Holders
<1>2. doneQ' = <<>> /\ UNCHANGED <<skipped, published>>
  BY DEF BrokerRestart
<1>3. Handed' = Handed
  BY UnchangedKeeps DEF BrokerRestart
<1> QED
  BY <1>1, <1>2, <1>3 DEF Contract!Forget

(* The other side of the queues pushes a number or takes a done message.     *)
LEMMA OutsideRefines ==
  ASSUME TypeInv, TypeInv', (\E b \in Blocks : Push(b)) \/ TakeDone
  PROVE  Contract!Next
<1> USE DEF processVars, workerVars, consumerVars, historyVars, queueVars
<1>1. ASSUME NEW c \in Blocks, Push(c) PROVE Contract!Push(c)
  <2>1. [b \in Blocks |-> Copies(b)]' = [[b \in Blocks |-> Copies(b)] EXCEPT ![c] = @ + 1]
    BY <1>1, PushCopies DEF TypeInv
  <2>2. UNCHANGED <<doneQ, skipped, published>> /\ Handed' = Handed
    BY <1>1, UnchangedKeeps DEF Push
  <2> QED
    BY <2>1, <2>2 DEF Contract!Push
<1>2. CASE TakeDone
  <2>1. \A b \in Blocks : Copies(b)' = Copies(b)
    BY <1>2, OtherCopies
  <2>2. doneQ # <<>> /\ doneQ' = Tail(doneQ) /\ UNCHANGED <<skipped, published>>
    BY <1>2 DEF TakeDone
  <2>3. Handed' = Handed
    BY <1>2, UnchangedKeeps DEF TakeDone
  <2>4. Contract!TakeDone
    BY <2>1, <2>2, <2>3 DEF Contract!TakeDone
  <2> QED
    BY <2>4 DEF Contract!Next
<1> QED
  BY <1>1, <1>2 DEF Contract!Next

(* A worker that sends takes a row of its block over.                        *)
LEMMA SendRefines ==
  ASSUME HandOverInv, TypeInv', NEW w \in Workers,
         SendBlockRow(w) \/ SendTxRow(w) \/ SendLogRow(w)
  PROVE  /\ Cursor(w) \in Rows /\ Contract!TakeOver(Cursor(w))
         /\ pc[w] \in Scanning
<1> DEFINE r == <<job[w], tx[w], lg[w]>>
<1>1. /\ pc[w] = "send" /\ SendRow(w) /\ job[w] \in Blocks
  BY DEF SendBlockRow, SendTxRow, SendLogRow, SendRow, CursorOK, Scanning,
         TypeInv, HandOverInv
<1>2. r \in RowsOf(job[w]) /\ r \in Rows
  BY <1>1, RowsOfRows DEF CursorOK, TypeInv, HandOverInv, Cursor
<1>3. /\ Receive(KindOf(r), r) /\ KindOf(r) \in Kinds
      /\ UNCHANGED <<store, lost, ready, unacked, skipped, published, doneQ>>
  BY <1>1 DEF SendRow, KindOf, Kinds, historyVars, queueVars
<1>4. Handed' = Handed \cup {r}
  <2>1. Buffered' = Buffered \cup {r}
    BY <1>2, <1>3, AppendBuffered DEF HandOverInv, TypeInv
  <2> QED
    BY <1>3, <2>1 DEF Handed
<1>5. Before(r[1], r[2], r[3]) \subseteq Accounted
  BY <1>1 DEF HandOverInv, CoveredOK, Covered
<1>6. \A b \in Blocks : Copies(b)' = Copies(b)
  BY <1>3 DEF Copies
<1>7. Contract!TakeOver(r)
  <2> HIDE DEF r
  <2> QED
    BY <1>3, <1>4, <1>5, <1>6, SameChain DEF Contract!TakeOver
<1> QED
  BY <1>1, <1>2, <1>7 DEF Cursor, Scanning

(* One that calls a transaction pending skips its logs.                      *)
LEMMA PendingRefines ==
  ASSUME HandOverInv, TypeInv', NEW w \in Workers, TxDetail(w), ~GivesUp(w),
         skipped' # skipped
  PROVE  /\ tx[w] \in DOMAIN TxLogs[job[w]] /\ Contract!Skip(job[w], tx[w])
         /\ job[w] \in Blocks /\ pc[w] \in Scanning
<1> DEFINE b == job[w]
           i == tx[w]
<1>1. /\ pc[w] = "detail" /\ b \in Blocks /\ i \in 1 .. Len(TxLogs[b])
  BY DEF TxDetail, Scanning, HandOverInv, TypeInv, CursorOK
<1>2. /\ skipped' = skipped \cup {<<b, i>>}
      /\ UNCHANGED <<ready, unacked, doneQ, buf, store, lost, published>>
  BY DEF TxDetail, GivesUp, FailScan, AckMessage, queueVars, consumerVars, historyVars
<1>3. TxLogs[b] \in Seq(Nat) /\ DOMAIN TxLogs[b] = 1 .. Len(TxLogs[b])
  <2>1. TxLogs[b] \in Seq(Nat)
    BY <1>1, IndexerAssumption
  <2> QED
    BY <2>1
<1>4. <<b, i, 0>> \in Handed
  <2>1. TxLogs[b][i] \in Nat
    BY <1>1, <1>3
  <2>2. <<b, i, 0>> \in RowsOf(b)
    BY <1>1, <2>1, RowsOfMembers
  <2>3. <<b, i, 0>> \in Before(b, i, 1)
    BY <2>2 DEF Before
  <2>4. <<b, i, 0>> \in Accounted
    BY <1>1, <2>3 DEF HandOverInv, CoveredOK, Covered
  <2>5. <<b, i, 0>> \notin SkippedRows
    BY DEF SkippedRows
  <2> QED
    BY <2>4, <2>5 DEF Accounted
<1>5. Handed' = Handed /\ \A c \in Blocks : Copies(c)' = Copies(c)
  BY <1>2, UnchangedKeeps DEF Copies
<1>6. Contract!Skip(b, i)
  BY <1>2, <1>4, <1>5 DEF Contract!Skip
<1> QED
  BY <1>1, <1>3, <1>6 DEF Scanning

(* One that publishes reports a block whose number is still on the queue.    *)
LEMMA ReportRefines ==
  ASSUME HandOverInv, TypeInv', HoldInv, NEW w \in Workers, PublishDone(w)
  PROVE  \/ job[w] \in Blocks /\ Contract!Report(job[w])
         \/ UNCHANGED Contract!contractVars
<1>1. /\ pc[w] = "publish" /\ job[w] \in Blocks
      /\ UNCHANGED <<ready, unacked, buf, store, lost>>
  BY DEF PublishDone, HandOverInv, TypeInv, CursorOK, Scanning, consumerVars
<1>2. Handed' = Handed /\ \A c \in Blocks : Copies(c)' = Copies(c)
  BY <1>1, UnchangedKeeps DEF Copies
<1>3. CASE UNCHANGED <<doneQ, historyVars>>
  BY <1>2, <1>3, Stutters DEF historyVars
<1>4. CASE /\ conn /\ doneQ' = Append(doneQ, job[w])
           /\ published' = published \cup {job[w]} /\ skipped' = skipped
  <2>1. unacked[w] = job[w]
    BY <1>1, <1>4 DEF HoldInv, HoldsJob, Scanning
  <2>2. Copies(job[w]) > 0
    BY <1>1, <2>1, HolderCounts DEF HandOverInv, TypeInv
  <2>3. RowsOf(job[w]) \subseteq Accounted
    BY <1>1 DEF HandOverInv, CoveredOK, Covered
  <2>4. Contract!Report(job[w])
    BY <1>1, <1>2, <1>4, <2>2, <2>3, SameChain DEF Contract!Report
  <2> QED
    BY <1>1, <2>4
<1> QED
  BY <1>3, <1>4 DEF PublishDone

(* One that acks retires the copy it holds; an ack on a closed connection    *)
(* changes nothing.                                                          *)
LEMMA AckRefines ==
  ASSUME TypeInv, HoldInv, NEW w \in Workers, AckDone(w) \/ GivesUp(w)
  PROVE  \/ job[w] \in Blocks /\ Contract!Retire(job[w])
         \/ UNCHANGED Contract!contractVars
<1>1. /\ AckMessage(w) /\ pc[w] \in Scanning
      /\ UNCHANGED <<buf, store, lost, doneQ, skipped, published>>
  BY DEF AckDone, GivesUp, FailScan, Scanning, AckMessage, consumerVars, historyVars
<1>2. Handed' = Handed
  BY <1>1, UnchangedKeeps
<1>3. job[w] \in Blocks /\ unacked[w] \in {job[w], None} /\ None \notin Blocks
  BY <1>1, AckerHolds, IndexerAssumption
<1>4. CASE unacked[w] = None
  <2>1. \A b \in Blocks : Copies(b)' = Copies(b)
    BY <1>1, <1>3, <1>4, AckTakesOne DEF TypeInv
  <2> QED
    BY <1>1, <1>2, <2>1, Stutters
<1>5. CASE unacked[w] = job[w]
  <2>1. \A b \in Blocks : Copies(b)' = IF b = job[w] THEN Copies(b) - 1 ELSE Copies(b)
    BY <1>1, <1>5, AckTakesOne DEF TypeInv
  <2>2. Copies(job[w]) > 0
    BY <1>3, <1>5, HolderCounts DEF TypeInv
  <2>3. Contract!Retire(job[w])
    BY <1>1, <1>2, <1>3, <2>1, <2>2 DEF Contract!Retire
  <2> QED
    BY <1>3, <2>3
<1> QED
  BY <1>3, <1>4, <1>5

(* Every other step of a worker is its own business.                         *)
LEMMA SilentRefines ==
  ASSUME HandOverInv, TypeInv', NEW w \in Workers,
         Scan(w) \/ (\E c \in Blocks : Deliver(w, c)),
         ~AckDone(w), ~GivesUp(w), ~PublishDone(w),
         ~(SendBlockRow(w) \/ SendTxRow(w) \/ SendLogRow(w)),
         skipped' = skipped
  PROVE  UNCHANGED Contract!contractVars
<1> USE DEF processVars, workerVars, consumerVars, historyVars, queueVars
<1>1. \A b \in Blocks : Copies(b)' = Copies(b)
  BY WorkerCopies DEF HandOverInv
<1>2. CASE ExitProcess
  <2>1. UNCHANGED <<doneQ, skipped, published>>
    BY <1>2 DEF ExitProcess
  <2>2. Handed' = Handed
    BY <1>2, ExitKeeps DEF HandOverInv, TypeInv
  <2> QED
    BY <1>1, <2>1, <2>2, Stutters
<1>3. CASE ~ExitProcess
  <2>1. UNCHANGED <<buf, store, lost, doneQ, published>>
    BY <1>3 DEF Scan, GetBlockInfo, Setup, RangeEnds, FetchBlock, NextTx, TxDetail,
       GetLogs, SendPanics, Deliver, FailScan, AckMessage
  <2> QED
    BY <1>1, <2>1, UnchangedKeeps, Stutters
<1> QED
  BY <1>2, <1>3

(* What a step of a worker shows: it takes a row over, skips the logs of a   *)
(* transaction, reports its block or retires its number.                     *)
Shows(w) ==
  /\ pc[w] \in Scanning
  /\ \/ Cursor(w) \in Rows /\ Contract!TakeOver(Cursor(w))
     \/ /\ job[w] \in Blocks
        /\ \/ tx[w] \in DOMAIN TxLogs[job[w]] /\ Contract!Skip(job[w], tx[w])
           \/ Contract!Report(job[w]) \/ Contract!Retire(job[w])

LEMMA WorkerShows ==
  ASSUME HandOverInv, TypeInv', HoldInv, NEW w \in Workers,
         Scan(w) \/ (\E c \in Blocks : Deliver(w, c))
  PROVE  UNCHANGED Contract!contractVars \/ Shows(w)
<1>1. CASE AckDone(w) \/ GivesUp(w)
  <2>1. pc[w] \in Scanning
    BY <1>1 DEF AckDone, GivesUp, Scanning
  <2> QED
    BY <1>1, <2>1, AckRefines DEF HandOverInv, Shows
<1>2. CASE PublishDone(w)
  <2>1. pc[w] \in Scanning
    BY <1>2 DEF PublishDone, Scanning
  <2> QED
    BY <1>2, <2>1, ReportRefines DEF Shows
<1>3. CASE SendBlockRow(w) \/ SendTxRow(w) \/ SendLogRow(w)
  BY <1>3, SendRefines DEF Shows
<1>4. CASE /\ ~AckDone(w) /\ ~GivesUp(w) /\ ~PublishDone(w)
           /\ ~(SendBlockRow(w) \/ SendTxRow(w) \/ SendLogRow(w))
  <2>1. CASE skipped' = skipped
    BY <1>4, <2>1, SilentRefines
  <2>2. CASE skipped' # skipped
    <3>1. TxDetail(w)
      BY <1>4, <2>2 DEF Scan, GetBlockInfo, Setup, RangeEnds, FetchBlock, NextTx,
         GetLogs, SendPanics, ExitProcess, Deliver, FailScan, historyVars
    <3> QED
      BY <1>4, <2>2, <3>1, PendingRefines DEF Shows
  <2> QED
    BY <2>1, <2>2
<1> QED
  BY <1>1, <1>2, <1>3, <1>4

LEMMA WorkerRefines ==
  ASSUME HandOverInv, TypeInv', HoldInv, NEW w \in Workers,
         Scan(w) \/ (\E c \in Blocks : Deliver(w, c))
  PROVE  [Contract!Next]_Contract!contractVars
BY WorkerShows, SameChain DEF Shows, Contract!Next

LEMMA InitRefines == Init => Contract!Init
<1> SUFFICES ASSUME Init PROVE Contract!Init
  OBVIOUS
<1>1. ASSUME NEW b \in Blocks PROVE Copies(b) = 0
  <2>1. Holders(b) = {} /\ ready[b] = 0
    BY IndexerAssumption DEF Init, Holders
  <2> QED
    BY <2>1, HoldersFinite, FS_EmptySet
<1>2. Handed = {}
  <2>1. \A k \in Kinds : Range(buf[k]) = {}
    BY EmptyRange DEF Init
  <2> QED
    BY <2>1 DEF Init, Handed, Buffered
<1> QED
  BY <1>1, <1>2 DEF Init, Contract!Init

(* The indexer implements ScanContract: seen from its queues and from MySQL, *)
(* it takes block numbers over once, hands rows over in chain order, and     *)
(* reports only complete blocks that are still on the queue, whatever its    *)
(* workers, buffers, connections and restarts do.                            *)
THEOREM IndexerImplementsContract == Spec => ImplementsContract
<1>1. TypeInv /\ [Next]_vars => TypeInv'
  BY NextType
<1>2. HandOverInv /\ [Next]_vars => HandOverInv'
  BY <1>1, NextHandOver DEF HandOverInv
<1>3. HandOverInv /\ HoldInv /\ [Next]_vars => HoldInv'
  BY NextHold DEF HandOverInv
<1>4. Init => HandOverInv /\ HoldInv /\ Contract!Init
  BY InitHandOver, InitHold, InitRefines DEF HoldTypeInv
<1>5. HandOverInv /\ HandOverInv' /\ HoldInv /\ [Next]_vars
        => [Contract!Next]_Contract!contractVars
  <2> SUFFICES ASSUME HandOverInv, HandOverInv', HoldInv, [Next]_vars
               PROVE  [Contract!Next]_Contract!contractVars
    OBVIOUS
  <2>1. TypeInv /\ TypeInv'
    BY DEF HandOverInv
  <2>2. ASSUME NEW w \in Workers, Scan(w) \/ (\E c \in Blocks : Deliver(w, c))
        PROVE  [Contract!Next]_Contract!contractVars
    BY <2>1, <2>2, WorkerRefines
  <2> QED
    BY <2>1, <2>2, ProcessRefines, RestartRefines, OutsideRefines
    DEF Next, Contract!Next
<1> QED
  BY <1>2, <1>3, <1>4, <1>5, PTL DEF Spec, ImplementsContract, Contract!Spec
=============================================================================
