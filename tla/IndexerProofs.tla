---------------------------- MODULE IndexerProofs ----------------------------
(***************************************************************************)
(* Proofs about Indexer, for every set of workers, chain, buffer size and  *)
(* set of faults.  TypeOK is not inductive: that a row a worker sends is a *)
(* row of the chain depends on where its cursor may be, which is CursorOK. *)
(***************************************************************************)
EXTENDS Indexer, FiniteSetTheorems, TLAPS

Scanning == {"fetch", "send", "nextTx", "detail", "logs", "publish", "ack"}

Cursor(w) == <<job[w], tx[w], lg[w]>>

(* No worker exists before Start, and where the cursor of a worker is, by    *)
(* program point.                                                            *)
CursorOK ==
  \A w \in Workers :
    /\ phase \in {"starting", "down"} => pc[w] = "none"
    /\ pc[w] \in Scanning => job[w] \in Blocks
    /\ pc[w] \in {"none", "setup", "range", "fetch"} => tx[w] = 0 /\ lg[w] = 0
    /\ pc[w] = "send" => Cursor(w) \in RowsOf(job[w])
    /\ pc[w] = "nextTx" => tx[w] \in 0 .. Len(TxLogs[job[w]])
    /\ pc[w] \in {"detail", "logs"} => tx[w] \in 1 .. Len(TxLogs[job[w]])

TypeInv == TypeOK /\ CursorOK

-----------------------------------------------------------------------------
(* The chain.                                                                *)

(* The members of RowsOf(b), spelled out.                                    *)
LEMMA RowsOfMembers ==
  ASSUME NEW b \in Blocks, NEW i \in Nat, NEW j \in Nat
  PROVE  <<b, i, j>> \in RowsOf(b) <=>
           \/ i = 0 /\ j = 0
           \/ i \in 1 .. Len(TxLogs[b]) /\ j \in 0 .. TxLogs[b][i]
<1>1. TxLogs[b] \in Seq(Nat)
  BY IndexerAssumption
<1>2. DOMAIN TxLogs[b] = 1 .. Len(TxLogs[b])
  BY <1>1
<1> QED
  BY <1>2 DEF RowsOf

(* The rows of a block of the chain are rows.                                *)
LEMMA RowsOfRows ==
  ASSUME NEW b \in Blocks
  PROVE  RowsOf(b) \subseteq Rows
BY DEF Rows

(* The rows of an appended sequence.                                         *)
LEMMA RangeAppend ==
  ASSUME NEW S, NEW s \in Seq(S), NEW e \in S
  PROVE  /\ Append(s, e) \in Seq(S)
         /\ Range(Append(s, e)) = Range(s) \cup {e}
<1>1. /\ Append(s, e) \in Seq(S)
      /\ Len(Append(s, e)) = Len(s) + 1
      /\ \A i \in 1 .. Len(s) : Append(s, e)[i] = s[i]
      /\ Append(s, e)[Len(s) + 1] = e
      /\ Len(s) \in Nat
  OBVIOUS
<1>2. DOMAIN s = 1 .. Len(s) /\ DOMAIN Append(s, e) = 1 .. (Len(s) + 1)
  BY <1>1
<1>3. 1 .. (Len(s) + 1) = (1 .. Len(s)) \cup {Len(s) + 1}
  BY <1>1
<1> QED
  BY <1>1, <1>2, <1>3 DEF Range

(* The rows of a buffer are rows.                                            *)
LEMMA RangeRows ==
  ASSUME NEW s \in Seq(Rows)
  PROVE  Range(s) \subseteq Rows
BY DEF Range

-----------------------------------------------------------------------------
(* Type correctness.                                                         *)

LEMMA RequeuedType ==
  ASSUME TypeOK
  PROVE  Requeued \in [Blocks -> Nat]
<1>1. SUFFICES ASSUME NEW b \in Blocks
               PROVE  ready[b] + Cardinality({w \in Workers : unacked[w] = b}) \in Nat
  BY DEF Requeued
<1>2. IsFiniteSet({w \in Workers : unacked[w] = b})
  BY IndexerAssumption, FS_Subset
<1>3. Cardinality({w \in Workers : unacked[w] = b}) \in Nat
  BY <1>2, FS_CardinalityType
<1> QED
  BY <1>3 DEF TypeOK

LEMMA ExitType ==
  ASSUME TypeInv, ExitProcess
  PROVE  TypeInv'
<1>1. ready' \in [Blocks -> Nat]
  BY RequeuedType DEF TypeInv, ExitProcess, RequeueUnacked
<1>2. Buffered \subseteq Rows
  BY RangeRows DEF Buffered, TypeInv, TypeOK
<1>3. TypeOK'
  <2> USE DEF TypeInv, TypeOK, ExitProcess
  <2>1. unacked' \in [Workers -> Blocks \cup {None}]
    BY DEF RequeueUnacked
  <2>2. exits' \in 0 .. MaxExits
    BY IndexerAssumption
  <2>3. /\ pc' \in [Workers -> Pcs] /\ job' \in [Workers -> Blocks \cup {None}]
        /\ tx' \in [Workers -> Nat] /\ lg' \in [Workers -> Nat]
        /\ phase' \in Phases /\ conn' \in BOOLEAN
    BY DEF Phases, Pcs
  <2>4. buf' \in [Kinds -> Seq(Rows)]
    <3>1. <<>> \in Seq(Rows)
      OBVIOUS
    <3> QED
      BY <3>1
  <2>5. saver' \in [Kinds -> {"run", "saving", "flushing", "exited", "none"}]
    OBVIOUS
  <2>6. lost' \subseteq Rows
    BY <1>2
  <2> QED
    BY <1>1, <2>1, <2>2, <2>3, <2>4, <2>5, <2>6 DEF historyVars
<1>4. CursorOK'
  BY DEF CursorOK, ExitProcess, Scanning
<1> QED
  BY <1>3, <1>4 DEF TypeInv

LEMMA FailScanType ==
  ASSUME TypeInv, NEW w \in Workers, pc[w] # "none", FailScan(w)
  PROVE  TypeInv'
<1> USE DEF TypeInv, FailScan, AckMessage, GoTo, ClearJob, processVars,
            consumerVars, historyVars
<1>1. TypeOK'
  BY DEF TypeOK, Phases, Pcs
<1>2. CursorOK'
  BY DEF TypeOK, CursorOK, Scanning, Cursor
<1> QED
  BY <1>1, <1>2

LEMMA ReceiveType ==
  ASSUME TypeOK, NEW k \in Kinds, NEW r \in Rows, Receive(k, r)
  PROVE  /\ buf' \in [Kinds -> Seq(Rows)]
         /\ saver' \in [Kinds -> {"run", "saving", "flushing", "exited", "none"}]
BY RangeAppend DEF TypeOK, Receive

LEMMA InitType == Init => TypeInv
<1> SUFFICES ASSUME Init PROVE TypeInv
  OBVIOUS
<1>1. TypeOK
  <2>1. <<>> \in Seq(Rows) /\ <<>> \in Seq(Blocks)
    OBVIOUS
  <2>2. buf \in [Kinds -> Seq(Rows)] /\ doneQ \in Seq(Blocks)
    BY <2>1 DEF Init
  <2>3. pushes \in 0 .. MaxPushes /\ exits \in 0 .. MaxExits
    BY IndexerAssumption DEF Init
  <2>4. /\ ready \in [Blocks -> Nat]
        /\ unacked \in [Workers -> Blocks \cup {None}]
        /\ pc \in [Workers -> Pcs]
        /\ job \in [Workers -> Blocks \cup {None}]
        /\ tx \in [Workers -> Nat] /\ lg \in [Workers -> Nat]
        /\ saver \in [Kinds -> {"run", "saving", "flushing", "exited", "none"}]
    BY DEF Init, Pcs
  <2> QED
    BY <2>2, <2>3, <2>4 DEF Init, TypeOK, Phases
<1>2. CursorOK
  BY DEF Init, CursorOK, Scanning
<1> QED
  BY <1>1, <1>2 DEF TypeInv

(* The steps of the queues and of the process.                               *)
LEMMA EnvironmentType ==
  ASSUME TypeInv,
         \/ \E b \in Blocks : Push(b)
         \/ TakeDone \/ Start \/ Restart \/ Crash \/ ConnDrop \/ BrokerRestart
         \/ Signal \/ ShutdownStep
  PROVE  TypeInv'
<1> USE DEF TypeInv, processVars, workerVars, consumerVars, historyVars, queueVars
<1>1. ASSUME NEW b \in Blocks, Push(b) PROVE TypeInv'
  <2>1. TypeOK'
    BY <1>1, IndexerAssumption DEF Push, TypeOK
  <2> QED
    BY <1>1, <2>1 DEF Push, CursorOK, Cursor
<1>2. CASE TakeDone
  <2>1. doneQ' \in Seq(Blocks)
    BY <1>2 DEF TakeDone, TypeOK
  <2> QED
    BY <1>2, <2>1 DEF TakeDone, TypeOK, CursorOK, Cursor
<1>3. CASE Start
  <2>1. TypeOK'
    BY <1>3 DEF Start, TypeOK, Phases, Pcs
  <2> QED
    BY <1>3, <2>1 DEF Start, CursorOK, Cursor, Scanning
<1>4. CASE Restart
  BY <1>4 DEF Restart, TypeOK, Phases, CursorOK, Cursor
<1>5. ASSUME ExitProcess PROVE TypeInv'
  BY <1>5, ExitType
<1>6. CASE Crash
  BY <1>6, <1>5 DEF Crash
<1>7. ASSUME RequeueUnacked
      PROVE  /\ ready' \in [Blocks -> Nat]
             /\ unacked' \in [Workers -> Blocks \cup {None}]
  BY <1>7, RequeuedType DEF RequeueUnacked
<1>8. CASE ConnDrop
  BY <1>8, <1>7 DEF ConnDrop, TypeOK, CursorOK, Cursor
<1>9. CASE BrokerRestart
  <2>1. doneQ' \in Seq(Blocks)
    BY <1>9 DEF BrokerRestart
  <2> QED
    BY <1>9, <2>1 DEF BrokerRestart, TypeOK, CursorOK, Cursor
<1>10. CASE Signal
  <2>1. CASE phase = "starting" /\ ExitProcess
    BY <2>1, <1>5
  <2>2. CASE phase = "up"
    BY <1>10, <2>2, <1>7 DEF Signal, TypeOK, Phases, CursorOK, Cursor
  <2> QED
    BY <1>10, <2>1, <2>2 DEF Signal
<1>11. CASE ShutdownStep
  <2>1. CASE phase = "logClosed" /\ ExitProcess
    BY <2>1, <1>5
  <2>2. CASE phase # "logClosed"
    <3>1. phase' \in {"blockClosed", "txClosed", "logClosed"}
          /\ phase \notin {"starting", "down"}
      BY <1>11, <2>2 DEF ShutdownStep
    <3> QED
      BY <1>11, <2>2, <3>1 DEF ShutdownStep, TypeOK, Phases, CursorOK, Cursor
  <2> QED
    BY <1>11, <2>1, <2>2 DEF ShutdownStep
<1> QED
  BY <1>1, <1>2, <1>3, <1>4, <1>6, <1>8, <1>9, <1>10, <1>11

(* The steps of the consumers.                                               *)
LEMMA ConsumerType ==
  ASSUME TypeInv, NEW k \in Kinds, ConsumerRun(k)
  PROVE  TypeInv'
<1> USE DEF TypeInv, ConsumerRun, processVars, workerVars, historyVars, queueVars
<1>1. CASE Tick(k) \/ SeeClosed(k)
  BY <1>1 DEF Tick, SeeClosed, TypeOK, CursorOK, Cursor
<1>2. CASE Save(k)
  <2>1. Range(buf[k]) \subseteq Rows
    BY RangeRows DEF TypeOK
  <2>2. <<>> \in Seq(Rows)
    OBVIOUS
  <2>3. buf' \in [Kinds -> Seq(Rows)]
    BY <1>2, <2>2 DEF Save, TypeOK
  <2>4. /\ saver' \in [Kinds -> {"run", "saving", "flushing", "exited", "none"}]
        /\ store' \subseteq Rows /\ lost' \subseteq Rows
    BY <1>2, <2>1 DEF Save, InsertIgnore, TypeOK
  <2> QED
    BY <2>3, <2>4 DEF TypeOK, CursorOK, Cursor
<1> QED
  BY <1>1, <1>2

(* A worker may go to a program point with a cursor that suits it.           *)
LEMMA MoveType ==
  ASSUME TypeInv, NEW w \in Workers, pc[w] # "none", phase' = phase,
         NEW label \in Pcs \ {"none"}, NEW b \in Blocks \cup {None},
         NEW i \in Nat, NEW j \in Nat,
         label \in Scanning => b \in Blocks,
         label \in {"setup", "range", "fetch"} => i = 0 /\ j = 0,
         label = "send" => <<b, i, j>> \in RowsOf(b),
         label = "nextTx" => i \in 0 .. Len(TxLogs[b]),
         label \in {"detail", "logs"} => i \in 1 .. Len(TxLogs[b]),
         pc' = [pc EXCEPT ![w] = label],
         job' = [job EXCEPT ![w] = b],
         tx' = [tx EXCEPT ![w] = i],
         lg' = [lg EXCEPT ![w] = j]
  PROVE  /\ pc' \in [Workers -> Pcs]
         /\ job' \in [Workers -> Blocks \cup {None}]
         /\ tx' \in [Workers -> Nat]
         /\ lg' \in [Workers -> Nat]
         /\ CursorOK'
<1>1. /\ pc' \in [Workers -> Pcs]
      /\ job' \in [Workers -> Blocks \cup {None}]
      /\ tx' \in [Workers -> Nat]
      /\ lg' \in [Workers -> Nat]
  BY DEF TypeInv, TypeOK
<1>2. pc'[w] = label /\ job'[w] = b /\ tx'[w] = i /\ lg'[w] = j
  BY DEF TypeInv, TypeOK
<1>3. ASSUME NEW v \in Workers, v # w
      PROVE  pc'[v] = pc[v] /\ job'[v] = job[v] /\ tx'[v] = tx[v] /\ lg'[v] = lg[v]
  BY <1>3 DEF TypeInv, TypeOK
<1>4. phase' \notin {"starting", "down"}
  BY DEF TypeInv, CursorOK
<1>5. CursorOK'
  <2> SUFFICES ASSUME NEW v \in Workers
               PROVE  /\ pc'[v] \in Scanning => job'[v] \in Blocks
                      /\ pc'[v] \in {"none", "setup", "range", "fetch"}
                           => tx'[v] = 0 /\ lg'[v] = 0
                      /\ pc'[v] = "send" =>
                           <<job'[v], tx'[v], lg'[v]>> \in RowsOf(job'[v])
                      /\ pc'[v] = "nextTx" => tx'[v] \in 0 .. Len(TxLogs[job'[v]])
                      /\ pc'[v] \in {"detail", "logs"}
                           => tx'[v] \in 1 .. Len(TxLogs[job'[v]])
    BY <1>4 DEF CursorOK, Cursor
  <2>1. CASE v = w
    BY <1>2, <2>1
  <2>2. CASE v # w
    BY <1>3, <2>2 DEF TypeInv, CursorOK, Cursor
  <2> QED
    BY <2>1, <2>2
<1> QED
  BY <1>1, <1>5

(* A variable that does not change is one that keeps its value at w.         *)
LEMMA Unmoved ==
  ASSUME NEW S, NEW w \in Workers, NEW f \in [Workers -> S]
  PROVE  f = [f EXCEPT ![w] = f[w]]
OBVIOUS

(* The steps of a worker that send a row: the row is one of the chain.       *)
LEMMA SendType ==
  ASSUME TypeInv, NEW w \in Workers,
         SendBlockRow(w) \/ SendTxRow(w) \/ SendLogRow(w)
  PROVE  TypeInv'
<1> DEFINE b == job[w]
<1> USE DEF processVars, workerVars, consumerVars, historyVars, queueVars
<1>1. /\ pc[w] = "send" /\ SendRow(w) /\ b \in Blocks
      /\ b \in Blocks \cup {None}
  BY DEF SendBlockRow, SendTxRow, SendLogRow, SendRow, CursorOK, Scanning, TypeInv
<1>2. Cursor(w) \in RowsOf(b) /\ Cursor(w) \in Rows
  BY <1>1, RowsOfRows DEF CursorOK, TypeInv
<1>3. tx[w] \in Nat /\ lg[w] \in Nat /\ Len(TxLogs[b]) \in Nat
  BY <1>1, IndexerAssumption DEF TypeOK, TypeInv
<1>4. \/ tx[w] = 0 /\ lg[w] = 0
      \/ tx[w] \in 1 .. Len(TxLogs[b]) /\ lg[w] \in 0 .. TxLogs[b][tx[w]]
  BY <1>1, <1>2, <1>3, RowsOfMembers DEF Cursor
<1>5. Receive(KindOf(Cursor(w)), Cursor(w)) /\ KindOf(Cursor(w)) \in Kinds
  BY <1>1 DEF SendRow, Cursor, KindOf, Kinds
<1>6. /\ buf' \in [Kinds -> Seq(Rows)]
      /\ saver' \in [Kinds -> {"run", "saving", "flushing", "exited", "none"}]
  BY <1>2, <1>5, ReceiveType DEF TypeInv
<1>7. /\ job' = [job EXCEPT ![w] = b]
      /\ tx' = [tx EXCEPT ![w] = tx[w]]
      /\ phase' = phase
  BY <1>1, Unmoved DEF SendRow, TypeInv, TypeOK
<1>8. lg = [lg EXCEPT ![w] = lg[w]] /\ pc = [pc EXCEPT ![w] = "send"]
  BY <1>1, Unmoved DEF TypeInv, TypeOK
<1> DEFINE MoveOK == /\ pc' \in [Workers -> Pcs]
                     /\ job' \in [Workers -> Blocks \cup {None}]
                     /\ tx' \in [Workers -> Nat]
                     /\ lg' \in [Workers -> Nat]
                     /\ CursorOK'
<1>9. MoveOK
  <2>1. CASE SendBlockRow(w)
    <3>1. pc' = [pc EXCEPT ![w] = "nextTx"] /\ lg' = [lg EXCEPT ![w] = lg[w]]
      BY <2>1, <1>8 DEF SendBlockRow, GoTo
    <3>2. tx[w] \in 0 .. Len(TxLogs[b])
      BY <2>1, <1>3 DEF SendBlockRow
    <3> QED
      BY <1>1, <1>3, <1>7, <3>1, <3>2, MoveType DEF Pcs
  <2>2. CASE SendTxRow(w)
    <3>1. pc' = [pc EXCEPT ![w] = "detail"] /\ lg' = [lg EXCEPT ![w] = lg[w]]
      BY <2>2, <1>8 DEF SendTxRow, GoTo
    <3>2. tx[w] \in 1 .. Len(TxLogs[b])
      BY <2>2, <1>3, <1>4 DEF SendTxRow
    <3> QED
      BY <1>1, <1>3, <1>7, <3>1, <3>2, MoveType DEF Pcs
  <2>3. CASE SendLogRow(w)
    <3>1. tx[w] \in 1 .. Len(TxLogs[b]) /\ lg[w] \in 0 .. TxLogs[b][tx[w]]
      BY <2>3, <1>3, <1>4 DEF SendLogRow
    <3>2. TxLogs[b][tx[w]] \in Nat
      <4>1. TxLogs[b] \in Seq(Nat)
        BY <1>1, IndexerAssumption
      <4> QED
        BY <3>1, <4>1
    <3>3. CASE lg[w] = TxLogs[b][tx[w]]
      <4>1. pc' = [pc EXCEPT ![w] = "nextTx"] /\ lg' = [lg EXCEPT ![w] = lg[w]]
        BY <2>3, <3>3, <1>8 DEF SendLogRow, GoTo
      <4>2. tx[w] \in 0 .. Len(TxLogs[b])
        BY <3>1, <1>3
      <4> QED
        BY <1>1, <1>3, <1>7, <4>1, <4>2, MoveType DEF Pcs
    <3>4. CASE lg[w] # TxLogs[b][tx[w]]
      <4>1. pc' = [pc EXCEPT ![w] = "send"] /\ lg' = [lg EXCEPT ![w] = lg[w] + 1]
        BY <2>3, <3>4, <1>8 DEF SendLogRow
      <4>2. lg[w] + 1 \in 0 .. TxLogs[b][tx[w]] /\ lg[w] + 1 \in Nat
        BY <3>1, <3>2, <3>4, <1>3
      <4>3. <<b, tx[w], lg[w] + 1>> \in RowsOf(b)
        BY <1>1, <1>3, <3>1, <4>2, RowsOfMembers
      <4> QED
        BY <1>1, <1>3, <1>7, <4>1, <4>2, <4>3, MoveType DEF Pcs
    <3> QED
      BY <3>3, <3>4
  <2> QED
    BY <2>1, <2>2, <2>3
<1> QED
  BY <1>1, <1>6, <1>9 DEF SendRow, TypeInv, TypeOK

(* The steps of a worker between two sends.                                  *)
LEMMA ScanType ==
  ASSUME TypeInv, NEW w \in Workers,
         \/ Setup(w) \/ RangeEnds(w) \/ (\E b \in Blocks : Deliver(w, b))
         \/ FetchBlock(w) \/ NextTx(w) \/ TxDetail(w) \/ GetLogs(w)
         \/ PublishDone(w) \/ AckDone(w)
  PROVE  TypeInv'
<1> USE DEF processVars, workerVars, consumerVars, historyVars, queueVars
<1>1. /\ tx[w] \in Nat /\ lg[w] \in Nat /\ job[w] \in Blocks \cup {None}
      /\ pc[w] \in Scanning => job[w] \in Blocks
      /\ job = [job EXCEPT ![w] = job[w]]
      /\ tx = [tx EXCEPT ![w] = tx[w]]
      /\ lg = [lg EXCEPT ![w] = lg[w]]
  BY Unmoved DEF TypeInv, TypeOK, CursorOK
<1>2. ASSUME NEW b \in Blocks, b = job[w]
      PROVE  /\ TxLogs[b] \in Seq(Nat) /\ Len(TxLogs[b]) \in Nat
             /\ \A i \in 1 .. Len(TxLogs[b]) : TxLogs[b][i] \in Nat
  BY IndexerAssumption
<1>3. ASSUME NEW label \in {"range", "exited"}, pc[w] \in {"setup", "range"},
             GoTo(w, label), phase' = phase,
             UNCHANGED <<job, tx, lg>>
      PROVE  /\ pc' \in [Workers -> Pcs] /\ CursorOK'
             /\ job' \in [Workers -> Blocks \cup {None}]
             /\ tx' \in [Workers -> Nat] /\ lg' \in [Workers -> Nat]
  <2>1. tx[w] = 0 /\ lg[w] = 0
    BY <1>3 DEF TypeInv, CursorOK
  <2>2. /\ job' = [job EXCEPT ![w] = job[w]] /\ tx' = [tx EXCEPT ![w] = 0]
        /\ lg' = [lg EXCEPT ![w] = 0] /\ pc' = [pc EXCEPT ![w] = label]
        /\ pc[w] # "none" /\ label \in Pcs \ {"none"} /\ label \notin Scanning
    BY <1>1, <1>3, <2>1 DEF GoTo, Pcs, Scanning
  <2>3. label # "send" /\ label # "nextTx" /\ label \notin {"detail", "logs"}
    OBVIOUS
  <2>4. 0 \in Nat /\ job[w] \in Blocks \cup {None} /\ phase' = phase
    BY <1>1, <1>3
  <2> QED
    BY <2>2, <2>3, <2>4, MoveType
<1>4. CASE Setup(w) \/ RangeEnds(w)
  BY <1>3, <1>4 DEF Setup, RangeEnds, TypeInv, TypeOK
<1>5. ASSUME NEW b \in Blocks, Deliver(w, b) PROVE TypeInv'
  <2>1. tx[w] = 0 /\ lg[w] = 0
    BY <1>5 DEF Deliver, TypeInv, CursorOK
  <2>2. /\ pc' \in [Workers -> Pcs] /\ CursorOK'
        /\ job' \in [Workers -> Blocks \cup {None}]
        /\ tx' \in [Workers -> Nat] /\ lg' \in [Workers -> Nat]
    <3>1. /\ job' = [job EXCEPT ![w] = b] /\ pc' = [pc EXCEPT ![w] = "fetch"]
          /\ tx' = tx /\ lg' = lg /\ phase' = phase /\ pc[w] = "range"
      BY <1>5 DEF Deliver, GoTo, processVars
    <3>2. tx' = [tx EXCEPT ![w] = 0] /\ lg' = [lg EXCEPT ![w] = 0]
      BY <1>1, <2>1, <3>1
    <3>3. "fetch" \in Pcs \ {"none"} /\ 0 \in Nat
      BY DEF Pcs, Scanning
    <3> QED
      BY <3>1, <3>2, <3>3, MoveType
  <2>3. ready' \in [Blocks -> Nat] /\ unacked' \in [Workers -> Blocks \cup {None}]
    BY <1>5 DEF Deliver, TypeInv, TypeOK
  <2> QED
    BY <1>5, <2>2, <2>3 DEF Deliver, TypeInv, TypeOK
<1>6. CASE pc[w] # "none" /\ FailScan(w)
  BY <1>6, FailScanType
<1>7. ASSUME NEW label \in {"send", "nextTx", "detail", "logs", "publish"},
             NEW i \in Nat, NEW j \in Nat, pc[w] \in Scanning, GoTo(w, label),
             label = "send" => <<job[w], i, j>> \in RowsOf(job[w]),
             label = "nextTx" => i \in 0 .. Len(TxLogs[job[w]]),
             label \in {"detail", "logs"} => i \in 1 .. Len(TxLogs[job[w]]),
             tx' = [tx EXCEPT ![w] = i], lg' = [lg EXCEPT ![w] = j],
             UNCHANGED <<queueVars, processVars, job, consumerVars, published>>,
             skipped' \subseteq Blocks \X Nat
      PROVE  TypeInv'
  <2>1. /\ pc' \in [Workers -> Pcs] /\ CursorOK'
        /\ job' \in [Workers -> Blocks \cup {None}]
        /\ tx' \in [Workers -> Nat] /\ lg' \in [Workers -> Nat]
    BY <1>1, <1>7, MoveType DEF GoTo, Scanning, Pcs
  <2> QED
    BY <1>7, <2>1 DEF TypeInv, TypeOK
<1>8. skipped \subseteq Blocks \X Nat
  BY DEF TypeInv, TypeOK
<1>9. CASE FetchBlock(w)
  <2>1. tx[w] = 0 /\ lg[w] = 0 /\ pc[w] \in Scanning /\ job[w] \in Blocks
    BY <1>1, <1>9 DEF FetchBlock, TypeInv, CursorOK, Scanning
  <2>2. <<job[w], tx[w], lg[w]>> \in RowsOf(job[w])
    BY <2>1, RowsOfMembers
  <2> QED
    BY <1>1, <1>6, <1>7, <1>8, <1>9, <2>1, <2>2 DEF FetchBlock
<1>10. CASE NextTx(w)
  <2>1. pc[w] \in Scanning /\ job[w] \in Blocks /\ tx[w] \in 0 .. Len(TxLogs[job[w]])
    BY <1>1, <1>10 DEF NextTx, TypeInv, CursorOK, Scanning
  <2>2. CASE tx[w] = Len(TxLogs[job[w]])
    BY <1>1, <1>7, <1>8, <1>10, <2>1, <2>2 DEF NextTx
  <2>3. CASE tx[w] # Len(TxLogs[job[w]])
    <3>1. tx[w] + 1 \in 1 .. Len(TxLogs[job[w]]) /\ tx[w] + 1 \in Nat
      BY <1>1, <1>2, <2>1, <2>3
    <3>2. <<job[w], tx[w] + 1, 0>> \in RowsOf(job[w])
      BY <1>2, <2>1, <3>1, RowsOfMembers
    <3>3. CASE FailScan(w)
      BY <1>6, <2>1, <3>3 DEF Scanning
    <3>4. CASE ~FailScan(w)
      <4>1. /\ GoTo(w, "send") /\ lg' = [lg EXCEPT ![w] = 0]
            /\ tx' = [tx EXCEPT ![w] = tx[w] + 1]
            /\ UNCHANGED <<queueVars, processVars, job, consumerVars, historyVars>>
        BY <1>10, <2>3, <3>4 DEF NextTx
      <4> QED
        BY <1>7, <1>8, <2>1, <3>1, <3>2, <4>1
    <3> QED
      BY <3>3, <3>4
  <2> QED
    BY <2>2, <2>3
<1>11. CASE TxDetail(w) \/ GetLogs(w)
  <2>1. pc[w] \in Scanning /\ job[w] \in Blocks /\ tx[w] \in 1 .. Len(TxLogs[job[w]])
    BY <1>1, <1>11 DEF TxDetail, GetLogs, TypeInv, CursorOK, Scanning
  <2>2. tx[w] \in 0 .. Len(TxLogs[job[w]]) /\ TxLogs[job[w]][tx[w]] \in Nat
    BY <1>1, <1>2, <2>1
  <2>3. skipped \cup {<<job[w], tx[w]>>} \subseteq Blocks \X Nat
    BY <1>1, <1>8, <2>1
  <2>4. CASE TxDetail(w)
    BY <1>1, <1>6, <1>7, <1>8, <2>1, <2>2, <2>3, <2>4 DEF TxDetail
  <2>5. CASE GetLogs(w)
    <3>1. CASE TxLogs[job[w]][tx[w]] = 0
      BY <1>1, <1>6, <1>7, <1>8, <2>1, <2>2, <2>5, <3>1 DEF GetLogs
    <3>2. CASE TxLogs[job[w]][tx[w]] # 0
      <4>1. <<job[w], tx[w], 1>> \in RowsOf(job[w])
        BY <1>1, <2>1, <2>2, <3>2, RowsOfMembers
      <4> QED
        BY <1>1, <1>6, <1>7, <1>8, <2>1, <2>2, <2>5, <3>2, <4>1 DEF GetLogs
    <3> QED
      BY <3>1, <3>2
  <2> QED
    BY <1>11, <2>4, <2>5
<1>12. CASE AckDone(w)
  <2>1. pc[w] # "none" /\ FailScan(w)
    BY <1>12 DEF AckDone, FailScan
  <2> QED
    BY <2>1, FailScanType
<1>13. CASE PublishDone(w)
  <2>1. pc[w] \in Scanning /\ job[w] \in Blocks /\ phase' = phase
    BY <1>1, <1>13 DEF PublishDone, Scanning
  <2> DEFINE MoveOK == /\ pc' \in [Workers -> Pcs] /\ CursorOK'
                       /\ job' \in [Workers -> Blocks \cup {None}]
                       /\ tx' \in [Workers -> Nat] /\ lg' \in [Workers -> Nat]
  <2>2. ASSUME conn, GoTo(w, "ack"), doneQ' = Append(doneQ, job[w]),
               published' = published \cup {job[w]},
               UNCHANGED <<job, tx, lg, skipped>>
        PROVE  TypeInv'
    <3>1. /\ job' = [job EXCEPT ![w] = job[w]] /\ tx' = [tx EXCEPT ![w] = tx[w]]
          /\ lg' = [lg EXCEPT ![w] = lg[w]] /\ pc' = [pc EXCEPT ![w] = "ack"]
          /\ pc[w] # "none" /\ "ack" \in Pcs \ {"none"}
      BY <1>1, <2>1, <2>2 DEF GoTo, Pcs, Scanning
    <3>2. MoveOK
      BY <1>1, <2>1, <3>1, MoveType
    <3>3. doneQ' \in Seq(Blocks) /\ published' \subseteq Blocks
      BY <2>1, <2>2 DEF TypeInv, TypeOK
    <3> QED
      BY <1>13, <2>2, <3>2, <3>3 DEF PublishDone, TypeInv, TypeOK
  <2>3. ASSUME GoTo(w, "range"), ClearJob(w), UNCHANGED <<doneQ, historyVars>>
        PROVE  TypeInv'
    <3>1. MoveOK
      BY <1>1, <2>1, <2>3, MoveType DEF GoTo, ClearJob, Scanning, Pcs
    <3> QED
      BY <1>13, <2>3, <3>1 DEF PublishDone, TypeInv, TypeOK
  <2> QED
    BY <1>13, <2>2, <2>3 DEF PublishDone
<1> QED
  BY <1>4, <1>5, <1>9, <1>10, <1>11, <1>12, <1>13

LEMMA NextType == TypeInv /\ [Next]_vars => TypeInv'
<1> SUFFICES ASSUME TypeInv, [Next]_vars PROVE TypeInv'
  OBVIOUS
<1>1. CASE Next
  <2>1. ASSUME NEW w \in Workers, Scan(w) PROVE TypeInv'
    <3>1. CASE SendPanics(w)
      BY <3>1, ExitType DEF SendPanics
    <3> QED
      BY <2>1, <3>1, SendType, ScanType DEF Scan, GetBlockInfo
  <2>2. ASSUME NEW w \in Workers, NEW b \in Blocks, Deliver(w, b) PROVE TypeInv'
    BY <2>2, ScanType
  <2>3. CASE BlockConsumerRun \/ TxConsumerRun \/ LogConsumerRun
    BY <2>3, ConsumerType DEF BlockConsumerRun, TxConsumerRun, LogConsumerRun, Kinds
  <2> QED
    BY <1>1, <2>1, <2>2, <2>3, EnvironmentType DEF Next
<1>2. CASE UNCHANGED vars
  BY <1>2 DEF vars, queueVars, processVars, workerVars, consumerVars, historyVars,
              TypeInv, TypeOK, CursorOK, Cursor
<1> QED
  BY <1>1, <1>2

(* Every variable of the indexer keeps its type, the buffers and MySQL hold  *)
(* only rows of the chain, and a worker's cursor stays inside its block.     *)
THEOREM TypeCorrect == Spec => [](TypeOK /\ CursorOK)
<1>1. Init => TypeInv
  BY InitType
<1>2. TypeInv /\ [Next]_vars => TypeInv'
  BY NextType
<1> QED
  BY <1>1, <1>2, PTL DEF Spec, TypeInv

-----------------------------------------------------------------------------
(* The hand-over.  A block is reported done only when a consumer has taken   *)
(* each of its rows, and rows reach the consumers in chain order.  Both rest *)
(* on Covered: what lies before the cursor of a worker has been handed over, *)
(* by it or by an earlier scan, or was skipped.                              *)

(* The rows nobody still has to send.                                        *)
Accounted == Handed \cup SkippedRows

(* What a worker at program point label, with its cursor at <<b, i, j>>,     *)
(* relies on: A is what is accounted for.                                    *)
Covered(label, b, i, j, A) ==
  /\ label = "send" => Before(b, i, j) \subseteq A
  /\ label = "nextTx" => Before(b, i + 1, 0) \subseteq A
  /\ label \in {"detail", "logs"} => Before(b, i, 1) \subseteq A
  /\ label \in {"publish", "ack"} => RowsOf(b) \subseteq A

CoveredOK ==
  \A w \in Workers : Covered(pc[w], job[w], tx[w], lg[w], Accounted)

HandOverInv ==
  /\ TypeInv
  /\ CoveredOK
  /\ DoneMeansHandedOver
  /\ HandOverOrder

-----------------------------------------------------------------------------
(* The order of the rows of a block.                                         *)

(* A row of b is a triple, and its indices are those of the chain.           *)
LEMMA RowShape ==
  ASSUME NEW b \in Blocks, NEW r \in RowsOf(b)
  PROVE  /\ r = <<b, r[2], r[3]>>
         /\ r[2] \in 0 .. Len(TxLogs[b]) /\ r[3] \in Nat
         /\ r[2] = 0 => r[3] = 0
         /\ r[2] # 0 => r[3] \in 0 .. TxLogs[b][r[2]]
<1>1. TxLogs[b] \in Seq(Nat)
  BY IndexerAssumption
<1>2. DOMAIN TxLogs[b] = 1 .. Len(TxLogs[b]) /\ Len(TxLogs[b]) \in Nat
      /\ \A i \in 1 .. Len(TxLogs[b]) : TxLogs[b][i] \in Nat
  BY <1>1
<1>3. CASE r = <<b, 0, 0>>
  BY <1>2, <1>3
<1>4. CASE r # <<b, 0, 0>>
  <2>1. PICK i \in 1 .. Len(TxLogs[b]) : \E j \in 0 .. TxLogs[b][i] : r = <<b, i, j>>
    BY <1>2, <1>4 DEF RowsOf
  <2>2. PICK j \in 0 .. TxLogs[b][i] : r = <<b, i, j>>
    BY <2>1
  <2>3. i \in Nat /\ i # 0 /\ TxLogs[b][i] \in Nat
    BY <1>2
  <2>4. r[2] = i /\ r[3] = j /\ j \in Nat
    BY <2>2, <2>3
  <2> QED
    BY <1>2, <2>2, <2>3, <2>4
<1> QED
  BY <1>3, <1>4

(* Nothing comes before the row of a block, and the first transaction comes  *)
(* after it only.                                                            *)
LEMMA BeforeFirst ==
  ASSUME NEW b \in Blocks
  PROVE  /\ Before(b, 0, 0) = {}
         /\ Before(b, 1, 0) \subseteq {<<b, 0, 0>>}
<1>1. ASSUME NEW r \in RowsOf(b) PROVE ~(r[2] < 0) /\ ~(r[3] < 0)
  BY RowShape
<1>2. ASSUME NEW r \in RowsOf(b), r[2] < 1 \/ (r[2] = 1 /\ r[3] < 0)
      PROVE  r = <<b, 0, 0>>
  <2>1. r[2] = 0 /\ r[3] = 0
    BY <1>1, <1>2, RowShape
  <2> QED
    BY <2>1, RowShape
<1> QED
  BY <1>1, <1>2 DEF Before

(* After the row of a transaction, or a log, comes its next log.             *)
LEMMA BeforeNextLog ==
  ASSUME NEW b \in Blocks, NEW i \in Nat, NEW j \in Nat
  PROVE  Before(b, i, j + 1) \subseteq Before(b, i, j) \cup {<<b, i, j>>}
<1> SUFFICES ASSUME NEW r \in RowsOf(b), r[2] < i \/ (r[2] = i /\ r[3] < j + 1)
             PROVE  (r[2] < i \/ (r[2] = i /\ r[3] < j)) \/ r = <<b, i, j>>
  BY DEF Before
<1>1. r = <<b, r[2], r[3]>> /\ r[2] \in Nat /\ r[3] \in Nat
  BY RowShape, IndexerAssumption
<1>2. CASE r[2] = i /\ r[3] = j
  BY <1>1, <1>2
<1> QED
  BY <1>1, <1>2

(* After the last log of a transaction comes the next transaction.           *)
LEMMA BeforeNextTx ==
  ASSUME NEW b \in Blocks, NEW i \in 1 .. Len(TxLogs[b])
  PROVE  /\ Before(b, i + 1, 0) \subseteq Before(b, i, TxLogs[b][i] + 1)
         /\ Before(b, i + 1, 0) \subseteq
              Before(b, i, 1) \cup {r \in RowsOf(b) : r[2] = i /\ r[3] > 0}
<1> SUFFICES ASSUME NEW r \in RowsOf(b), r[2] < i + 1 \/ (r[2] = i + 1 /\ r[3] < 0)
             PROVE  /\ r[2] < i \/ (r[2] = i /\ r[3] < TxLogs[b][i] + 1)
                    /\ \/ r[2] < i \/ (r[2] = i /\ r[3] < 1)
                       \/ r[2] = i /\ r[3] > 0
  BY DEF Before
<1>1. /\ r[2] \in Nat /\ r[3] \in Nat /\ i \in Nat /\ i # 0
      /\ r[2] # 0 => r[3] \in 0 .. TxLogs[b][r[2]]
  BY RowShape, IndexerAssumption
<1>2. TxLogs[b][i] \in Nat
  <2>1. TxLogs[b] \in Seq(Nat)
    BY IndexerAssumption
  <2> QED
    BY <2>1
<1>3. r[2] < i \/ r[2] = i
  BY <1>1
<1> QED
  BY <1>1, <1>2, <1>3

(* After the last transaction nothing is left.                               *)
LEMMA BeforeEnd ==
  ASSUME NEW b \in Blocks
  PROVE  RowsOf(b) \subseteq Before(b, Len(TxLogs[b]) + 1, 0)
<1> SUFFICES ASSUME NEW r \in RowsOf(b) PROVE r[2] < Len(TxLogs[b]) + 1
  BY DEF Before
<1>1. r[2] \in 0 .. Len(TxLogs[b]) /\ Len(TxLogs[b]) \in Nat
  BY RowShape, IndexerAssumption
<1> QED
  BY <1>1

-----------------------------------------------------------------------------
(* What a step does to the rows handed over.                                 *)

LEMMA AppendBuffered ==
  ASSUME TypeOK, NEW k \in Kinds, NEW r \in Rows, Receive(k, r)
  PROVE  Buffered' = Buffered \cup {r}
<1>1. /\ buf' = [buf EXCEPT ![k] = Append(buf[k], r)]
      /\ buf \in [Kinds -> Seq(Rows)]
  BY DEF Receive, TypeOK
<1>2. /\ Range(buf'[k]) = Range(buf[k]) \cup {r}
      /\ \A l \in Kinds \ {k} : Range(buf'[l]) = Range(buf[l])
  BY <1>1, RangeAppend
<1> QED
  BY <1>2 DEF Buffered

LEMMA EmptyRange == Range(<<>>) = {}
BY DEF Range

(* A consumer step moves rows around: from a buffer to MySQL, or into loss.  *)
LEMMA ConsumerKeeps ==
  ASSUME TypeOK, NEW k \in Kinds, ConsumerRun(k)
  PROVE  Handed' = Handed
<1>1. CASE Tick(k) \/ SeeClosed(k)
  BY <1>1 DEF Tick, SeeClosed, Handed, Buffered
<1>2. CASE Save(k)
  <2>1. /\ buf' = [buf EXCEPT ![k] = <<>>]
        /\ buf \in [Kinds -> Seq(Rows)]
        /\ store' \cup lost' = store \cup lost \cup Range(buf[k])
    BY <1>2 DEF Save, InsertIgnore, TypeOK
  <2>2. /\ Range(buf'[k]) = {}
        /\ \A l \in Kinds \ {k} : Range(buf'[l]) = Range(buf[l])
    BY <2>1, EmptyRange
  <2>3. Buffered' \cup Range(buf[k]) = Buffered
    BY <2>2 DEF Buffered
  <2> QED
    BY <2>1, <2>3 DEF Handed
<1> QED
  BY <1>1, <1>2 DEF ConsumerRun

(* An exit turns the buffered rows into lost ones.                           *)
LEMMA ExitKeeps ==
  ASSUME TypeOK, ExitProcess
  PROVE  Handed' = Handed
<1>1. \A k \in Kinds : buf'[k] = <<>>
  BY DEF ExitProcess
<1>2. Buffered' = {}
  BY <1>1, EmptyRange DEF Buffered
<1> QED
  BY <1>2 DEF ExitProcess, Handed

LEMMA UnchangedKeeps ==
  ASSUME UNCHANGED <<buf, store, lost>>
  PROVE  Handed' = Handed
BY DEF Handed, Buffered

(* More accounted for is never less covered.                                 *)
LEMMA CoveredGrows ==
  ASSUME NEW label, NEW b, NEW i, NEW j, NEW A, NEW B,
         A \subseteq B, Covered(label, b, i, j, A)
  PROVE  Covered(label, b, i, j, B)
BY DEF Covered

(* A step that only accounts for more rows, moves at most one worker, and    *)
(* leaves the published blocks alone keeps the invariant.                    *)
LEMMA WorkerCovered ==
  ASSUME CoveredOK, TypeOK, Accounted \subseteq Accounted', NEW w \in Workers,
         \A v \in Workers \ {w} : /\ pc'[v] = pc[v] /\ job'[v] = job[v]
                                  /\ tx'[v] = tx[v] /\ lg'[v] = lg[v],
         Covered(pc'[w], job'[w], tx'[w], lg'[w], Accounted')
  PROVE  CoveredOK'
<1> SUFFICES ASSUME NEW v \in Workers
             PROVE  Covered(pc'[v], job'[v], tx'[v], lg'[v], Accounted')
  BY DEF CoveredOK
<1>1. CASE v = w
  BY <1>1
<1>2. CASE v # w
  BY <1>2, CoveredGrows DEF CoveredOK
<1> QED
  BY <1>1, <1>2

LEMMA DoneKept ==
  ASSUME DoneMeansHandedOver, Accounted \subseteq Accounted',
         published' = published, Range(doneQ') \subseteq Range(doneQ)
  PROVE  DoneMeansHandedOver'
BY DEF DoneMeansHandedOver, Accounted

LEMMA OrderKept ==
  ASSUME HandOverOrder, Handed' = Handed, Accounted \subseteq Accounted'
  PROVE  HandOverOrder'
BY DEF HandOverOrder, Accounted

(* skipped only grows, so SkippedRows does.                                  *)
LEMMA SkippedGrows ==
  ASSUME skipped \subseteq skipped'
  PROVE  SkippedRows \subseteq SkippedRows'
BY DEF SkippedRows

(* The common case: no row changes hands, nothing is published, and the      *)
(* workers stay where they are or have nothing to cover.                     *)
LEMMA QuietStep ==
  ASSUME HandOverInv, TypeInv', Handed' = Handed,
         UNCHANGED <<skipped, published>>, Range(doneQ') \subseteq Range(doneQ),
         \A w \in Workers :
           \/ pc'[w] = pc[w] /\ job'[w] = job[w] /\ tx'[w] = tx[w] /\ lg'[w] = lg[w]
           \/ pc'[w] \in {"none", "setup", "range", "fetch", "exited"}
  PROVE  HandOverInv'
<1>1. Accounted \subseteq Accounted'
  BY SkippedGrows DEF Accounted
<1>2. CoveredOK'
  <2> SUFFICES ASSUME NEW w \in Workers
               PROVE  Covered(pc'[w], job'[w], tx'[w], lg'[w], Accounted')
    BY DEF CoveredOK
  <2>1. CASE pc'[w] \in {"none", "setup", "range", "fetch", "exited"}
    BY <2>1 DEF Covered
  <2>2. CASE pc'[w] = pc[w] /\ job'[w] = job[w] /\ tx'[w] = tx[w] /\ lg'[w] = lg[w]
    BY <1>1, <2>2, CoveredGrows DEF HandOverInv, CoveredOK
  <2> QED
    BY <2>1, <2>2
<1> QED
  BY <1>1, <1>2, DoneKept, OrderKept DEF HandOverInv

(* A worker goes on without sending.                                         *)
LEMMA MoveStep ==
  ASSUME HandOverInv, TypeInv', NEW w \in Workers,
         UNCHANGED <<buf, store, lost, doneQ, published>>, skipped \subseteq skipped',
         \A v \in Workers \ {w} : /\ pc'[v] = pc[v] /\ job'[v] = job[v]
                                  /\ tx'[v] = tx[v] /\ lg'[v] = lg[v],
         Covered(pc'[w], job'[w], tx'[w], lg'[w], Accounted')
  PROVE  HandOverInv'
<1>1. Handed' = Handed
  BY UnchangedKeeps
<1>2. Accounted \subseteq Accounted'
  BY <1>1, SkippedGrows DEF Accounted
<1>3. CoveredOK'
  BY <1>2, WorkerCovered DEF HandOverInv, TypeInv
<1> QED
  BY <1>1, <1>2, <1>3, DoneKept, OrderKept DEF HandOverInv

(* A worker sends a row and goes on: what came before the row was accounted  *)
(* for, and now the row is.                                                  *)
LEMMA SendStep ==
  ASSUME HandOverInv, TypeInv', NEW w \in Workers,
         SendBlockRow(w) \/ SendTxRow(w) \/ SendLogRow(w)
  PROVE  HandOverInv'
<1> DEFINE b == job[w]
           i == tx[w]
           j == lg[w]
           r == <<b, i, j>>
<1>1. /\ pc[w] = "send" /\ SendRow(w) /\ b \in Blocks
  BY DEF SendBlockRow, SendTxRow, SendLogRow, SendRow, CursorOK, Scanning,
         TypeInv, HandOverInv
<1>2. r \in RowsOf(b) /\ r \in Rows /\ i \in Nat /\ j \in Nat
  BY <1>1, RowsOfRows DEF CursorOK, TypeInv, HandOverInv, Cursor, TypeOK
<1>3. /\ Receive(KindOf(r), r) /\ KindOf(r) \in Kinds
      /\ UNCHANGED <<store, lost, job, tx, skipped, published, doneQ>>
  BY <1>1 DEF SendRow, KindOf, Kinds, historyVars, queueVars
<1>4. Handed' = Handed \cup {r}
  <2>1. Buffered' = Buffered \cup {r}
    BY <1>2, <1>3, AppendBuffered DEF HandOverInv, TypeInv
  <2> QED
    BY <1>3, <2>1 DEF Handed
<1>5. Accounted' = Accounted \cup {r}
  <2>1. SkippedRows' = SkippedRows
    BY <1>3 DEF SkippedRows
  <2> QED
    BY <1>4, <2>1 DEF Accounted
<1>6. Before(b, i, j) \subseteq Accounted
  BY <1>1 DEF HandOverInv, CoveredOK, Covered
<1>7. HandOverOrder'
  <2> SUFFICES ASSUME NEW q \in Handed'
               PROVE  Before(q[1], q[2], q[3]) \subseteq Accounted'
    BY DEF HandOverOrder, Accounted
  <2>1. CASE q \in Handed
    BY <1>5, <2>1 DEF HandOverInv, HandOverOrder, Accounted
  <2>2. CASE q = r
    BY <1>5, <1>6, <2>2
  <2> QED
    BY <1>4, <2>1, <2>2
<1>8. DoneMeansHandedOver'
  BY <1>3, <1>5, DoneKept DEF HandOverInv
<1>9. Covered(pc'[w], b, i, lg'[w], Accounted')
  <2>1. pc \in [Workers -> Pcs] /\ lg \in [Workers -> Nat]
    BY DEF HandOverInv, TypeInv, TypeOK
  <2>2. CASE SendBlockRow(w)
    <3>1. i = 0 /\ pc'[w] = "nextTx" /\ lg'[w] = j /\ j = 0
      <4>1. i = 0 /\ pc'[w] = "nextTx" /\ lg'[w] = j
        BY <2>1, <2>2 DEF SendBlockRow, GoTo
      <4> QED
        BY <1>1, <1>2, <4>1, RowsOfMembers
    <3>2. Before(b, 1, 0) \subseteq {r}
      BY <1>1, <3>1, BeforeFirst
    <3>3. Before(b, i + 1, 0) \subseteq Accounted'
      BY <1>5, <3>1, <3>2
    <3> QED
      BY <3>1, <3>3 DEF Covered
  <2>3. CASE SendTxRow(w)
    <3>1. pc'[w] = "detail" /\ j = 0
      BY <2>1, <2>3 DEF SendTxRow, GoTo
    <3>2. Before(b, i, j + 1) \subseteq Accounted'
      BY <1>1, <1>2, <1>5, <1>6, BeforeNextLog
    <3>3. Before(b, i, 1) \subseteq Accounted'
      BY <3>1, <3>2
    <3> QED
      BY <3>1, <3>3 DEF Covered
  <2>4. CASE SendLogRow(w)
    <3>1. Before(b, i, j + 1) \subseteq Accounted'
      BY <1>1, <1>2, <1>5, <1>6, BeforeNextLog
    <3>2. i \in 1 .. Len(TxLogs[b])
      BY <1>1, <1>2, <2>4, RowsOfMembers DEF SendLogRow
    <3>3. CASE j = TxLogs[b][i]
      <4>1. pc'[w] = "nextTx"
        BY <2>1, <2>4, <3>3 DEF SendLogRow, GoTo
      <4>2. Before(b, i + 1, 0) \subseteq Accounted'
        BY <1>1, <3>1, <3>2, <3>3, BeforeNextTx
      <4> QED
        BY <4>1, <4>2 DEF Covered
    <3>4. CASE j # TxLogs[b][i]
      <4>1. pc'[w] = "send" /\ lg'[w] = j + 1
        BY <1>1, <2>1, <2>4, <3>4 DEF SendLogRow
      <4> QED
        BY <3>1, <4>1 DEF Covered
    <3> QED
      BY <3>3, <3>4
  <2> QED
    BY <2>2, <2>3, <2>4
<1>10. ASSUME NEW v \in Workers, v # w
       PROVE  pc'[v] = pc[v] /\ job'[v] = job[v] /\ tx'[v] = tx[v] /\ lg'[v] = lg[v]
  <2>1. pc \in [Workers -> Pcs] /\ lg \in [Workers -> Nat]
    BY DEF HandOverInv, TypeInv, TypeOK
  <2> QED
    BY <1>3, <1>10, <2>1 DEF SendBlockRow, SendTxRow, SendLogRow, GoTo
<1>11. CoveredOK'
  <2>1. job'[w] = b /\ tx'[w] = i /\ Accounted \subseteq Accounted'
    BY <1>3, <1>5
  <2> QED
    BY <1>9, <1>10, <2>1, WorkerCovered DEF HandOverInv, TypeInv
<1> QED
  BY <1>7, <1>8, <1>11 DEF HandOverInv

LEMMA RangeTail ==
  ASSUME NEW S, NEW s \in Seq(S), s # <<>>
  PROVE  Range(Tail(s)) \subseteq Range(s)
<1>1. /\ Len(s) \in Nat \ {0} /\ Len(Tail(s)) = Len(s) - 1
      /\ \A i \in 1 .. Len(Tail(s)) : Tail(s)[i] = s[i + 1]
      /\ DOMAIN s = 1 .. Len(s) /\ DOMAIN Tail(s) = 1 .. Len(Tail(s))
  OBVIOUS
<1>2. \A i \in 1 .. Len(Tail(s)) : i + 1 \in 1 .. Len(s)
  BY <1>1
<1> QED
  BY <1>1, <1>2 DEF Range

(* The queues and the process: no row changes hands.                         *)
LEMMA EnvironmentHandOver ==
  ASSUME HandOverInv, TypeInv',
         \/ \E b \in Blocks : Push(b)
         \/ TakeDone \/ Start \/ Restart \/ Crash \/ ConnDrop \/ BrokerRestart
         \/ Signal \/ ShutdownStep
  PROVE  HandOverInv'
<1> USE DEF processVars, workerVars, consumerVars, historyVars, queueVars
<1>1. CASE ExitProcess
  <2>1. Handed' = Handed
    BY <1>1, ExitKeeps DEF HandOverInv, TypeInv
  <2>2. /\ UNCHANGED <<skipped, published>> /\ doneQ' = doneQ
        /\ \A w \in Workers : pc'[w] = "none"
    BY <1>1 DEF ExitProcess
  <2> QED
    BY <2>1, <2>2, QuietStep
<1>2. CASE ~ExitProcess
  <2>1. UNCHANGED <<buf, store, lost, skipped, published, job, tx, lg>>
    BY <1>2 DEF Push, TakeDone, Start, Restart, Crash, ConnDrop, BrokerRestart,
                Signal, ShutdownStep
  <2>2. \A w \in Workers : pc'[w] = pc[w] \/ pc'[w] = "setup"
    BY <1>2 DEF Push, TakeDone, Start, Restart, Crash, ConnDrop, BrokerRestart,
                Signal, ShutdownStep
  <2>3. Range(doneQ') \subseteq Range(doneQ)
    <3>1. CASE TakeDone
      BY <3>1, RangeTail DEF TakeDone, HandOverInv, TypeInv, TypeOK
    <3>2. CASE BrokerRestart
      BY <3>2, EmptyRange DEF BrokerRestart
    <3>3. CASE ~TakeDone /\ ~BrokerRestart
      <4>1. doneQ' = doneQ
        BY <1>2, <3>3 DEF Push, Start, Restart, Crash, ConnDrop, Signal, ShutdownStep
      <4> QED
        BY <4>1
    <3> QED
      BY <3>1, <3>2, <3>3
  <2>4. Handed' = Handed
    BY <2>1, UnchangedKeeps
  <2> QED
    BY <2>1, <2>2, <2>3, <2>4, QuietStep
<1> QED
  BY <1>1, <1>2

(* A worker becomes idle: a failed scan, or the end of one.                  *)
LEMMA IdleStep ==
  ASSUME HandOverInv, TypeInv', NEW w \in Workers,
         NEW label \in {"range", "fetch", "exited"}, GoTo(w, label),
         UNCHANGED <<buf, store, lost, doneQ, skipped, published>>,
         \A v \in Workers \ {w} : /\ job'[v] = job[v]
                                  /\ tx'[v] = tx[v] /\ lg'[v] = lg[v]
  PROVE  HandOverInv'
<1>1. pc'[w] = label /\ \A v \in Workers \ {w} : pc'[v] = pc[v]
  BY DEF GoTo, HandOverInv, TypeInv, TypeOK
<1>2. Covered(pc'[w], job'[w], tx'[w], lg'[w], Accounted')
  BY <1>1 DEF Covered
<1> QED
  BY <1>1, <1>2, MoveStep

(* The steps of a worker between two sends.                                  *)
LEMMA ScanHandOver ==
  ASSUME HandOverInv, TypeInv', NEW w \in Workers,
         \/ Setup(w) \/ RangeEnds(w) \/ (\E b \in Blocks : Deliver(w, b))
         \/ FetchBlock(w) \/ NextTx(w) \/ TxDetail(w) \/ GetLogs(w)
         \/ PublishDone(w) \/ AckDone(w)
  PROVE  HandOverInv'
<1> DEFINE b == job[w]
           i == tx[w]
<1> USE DEF processVars, workerVars, consumerVars, historyVars, queueVars
<1>0. /\ pc \in [Workers -> Pcs] /\ job \in [Workers -> Blocks \cup {None}]
      /\ tx \in [Workers -> Nat] /\ lg \in [Workers -> Nat]
      /\ pc[w] \in Scanning => b \in Blocks
      /\ Covered(pc[w], b, i, lg[w], Accounted)
      /\ doneQ \in Seq(Blocks)
  BY DEF HandOverInv, TypeInv, TypeOK, CursorOK, CoveredOK
<1>1. ASSUME ClearJob(w)
      PROVE  \A v \in Workers \ {w} : /\ job'[v] = job[v]
                                       /\ tx'[v] = tx[v] /\ lg'[v] = lg[v]
  BY <1>0, <1>1 DEF ClearJob
<1>2. CASE FailScan(w) \/ AckDone(w)
  BY <1>1, <1>2, IdleStep DEF FailScan, AckDone, AckMessage
<1>3. CASE Setup(w) \/ RangeEnds(w)
  BY <1>3, IdleStep DEF Setup, RangeEnds
<1>4. ASSUME NEW c \in Blocks, Deliver(w, c) PROVE HandOverInv'
  BY <1>0, <1>4, IdleStep DEF Deliver
<1>5. ASSUME NEW label, GoTo(w, label)
      PROVE  /\ label \in Pcs => pc'[w] = label
             /\ \A v \in Workers \ {w} : pc'[v] = pc[v]
  BY <1>0, <1>5 DEF GoTo
<1>6. CASE FetchBlock(w) /\ ~FailScan(w)
  <2>1. /\ pc'[w] = "send" /\ i = 0 /\ lg[w] = 0 /\ b \in Blocks
        /\ UNCHANGED <<job, tx, lg, buf, store, lost, doneQ, skipped, published>>
    BY <1>0, <1>5, <1>6
    DEF FetchBlock, HandOverInv, TypeInv, CursorOK, Scanning, Pcs
  <2>2. Covered(pc'[w], b, i, lg[w], Accounted')
    BY <2>1, BeforeFirst DEF Covered
  <2> QED
    BY <1>5, <1>6, <2>1, <2>2, MoveStep DEF FetchBlock
<1>7. CASE NextTx(w) /\ ~FailScan(w)
  <2>1. Before(b, i + 1, 0) \subseteq Accounted /\ b \in Blocks
    BY <1>0, <1>7 DEF NextTx, Covered, Scanning
  <2>2. /\ UNCHANGED <<job, buf, store, lost, doneQ, skipped, published>>
        /\ Handed' = Handed /\ Accounted' = Accounted
    BY <1>7, UnchangedKeeps DEF NextTx, Accounted, SkippedRows
  <2>3. CASE i = Len(TxLogs[b])
    <3>1. pc'[w] = "publish" /\ UNCHANGED <<tx, lg>>
      BY <1>5, <1>7, <2>3 DEF NextTx, Pcs
    <3>2. Covered(pc'[w], b, i, lg[w], Accounted')
      BY <2>1, <2>2, <2>3, <3>1, BeforeEnd DEF Covered
    <3> QED
      BY <1>5, <1>7, <2>2, <2>3, <3>1, <3>2, MoveStep DEF NextTx
  <2>4. CASE i # Len(TxLogs[b])
    <3>1. /\ GoTo(w, "send") /\ tx' = [tx EXCEPT ![w] = i + 1]
          /\ lg' = [lg EXCEPT ![w] = 0]
      BY <1>7, <2>4 DEF NextTx
    <3>2. /\ pc'[w] = "send" /\ tx'[w] = i + 1 /\ lg'[w] = 0
          /\ \A v \in Workers \ {w} : /\ pc'[v] = pc[v]
                                      /\ tx'[v] = tx[v] /\ lg'[v] = lg[v]
      BY <1>0, <1>5, <3>1 DEF Pcs
    <3>3. Covered(pc'[w], b, tx'[w], lg'[w], Accounted')
      BY <2>1, <2>2, <3>2 DEF Covered
    <3> QED
      BY <2>2, <3>2, <3>3, MoveStep
  <2> QED
    BY <2>3, <2>4
<1>8. ASSUME pc[w] \in {"detail", "logs"}
      PROVE  /\ Before(b, i, 1) \subseteq Accounted /\ b \in Blocks
             /\ i \in 1 .. Len(TxLogs[b])
  BY <1>0, <1>8 DEF Covered, Scanning, HandOverInv, TypeInv, CursorOK
<1>9. CASE TxDetail(w) /\ ~FailScan(w)
  <2>1. /\ Before(b, i, 1) \subseteq Accounted /\ b \in Blocks
        /\ i \in 1 .. Len(TxLogs[b])
    BY <1>8, <1>9 DEF TxDetail
  <2>2. /\ UNCHANGED <<job, tx, lg, buf, store, lost, doneQ, published>>
        /\ skipped \subseteq skipped' /\ Handed' = Handed
    BY <1>9, UnchangedKeeps DEF TxDetail
  <2>3. SkippedRows \subseteq SkippedRows' /\ Accounted \subseteq Accounted'
    BY <2>2, SkippedGrows DEF Accounted
  <2>4. \A v \in Workers \ {w} : pc'[v] = pc[v]
    BY <1>5, <1>9 DEF TxDetail
  <2>5. CASE GoTo(w, "logs")
    <3>1. pc'[w] = "logs"
      BY <1>5, <2>5 DEF Pcs
    <3>2. Covered(pc'[w], b, i, lg[w], Accounted')
      BY <2>1, <2>3, <3>1 DEF Covered
    <3> QED
      BY <2>2, <2>4, <3>2, MoveStep
  <2>6. CASE GoTo(w, "nextTx") /\ skipped' = skipped \cup {<<b, i>>}
    <3>1. pc'[w] = "nextTx"
      BY <1>5, <2>6 DEF Pcs
    <3>2. {r \in RowsOf(b) : r[2] = i /\ r[3] > 0} \subseteq SkippedRows'
      <4> SUFFICES ASSUME NEW r \in RowsOf(b), r[2] = i, r[3] > 0
                   PROVE  r \in Rows /\ <<r[1], r[2]>> \in skipped'
        BY DEF SkippedRows
      <4>1. r[1] = b
        BY <2>1, RowShape
      <4> QED
        BY <2>1, <2>6, <4>1, RowsOfRows
    <3>3. Before(b, i + 1, 0) \subseteq Accounted'
      BY <2>1, <2>3, <3>2, BeforeNextTx DEF Accounted
    <3>4. Covered(pc'[w], b, i, lg[w], Accounted')
      BY <3>1, <3>3 DEF Covered
    <3> QED
      BY <2>2, <2>4, <3>4, MoveStep
  <2> QED
    BY <1>9, <2>5, <2>6 DEF TxDetail
<1>10. CASE GetLogs(w) /\ ~FailScan(w)
  <2>1. /\ Before(b, i, 1) \subseteq Accounted /\ b \in Blocks
        /\ i \in 1 .. Len(TxLogs[b])
    BY <1>8, <1>10 DEF GetLogs
  <2>2. /\ UNCHANGED <<job, tx, buf, store, lost, doneQ, skipped, published>>
        /\ Accounted' = Accounted
        /\ \A v \in Workers \ {w} : lg'[v] = lg[v]
    BY <1>0, <1>10, UnchangedKeeps DEF GetLogs, Accounted, SkippedRows
  <2>3. \A v \in Workers \ {w} : pc'[v] = pc[v]
    BY <1>5, <1>10 DEF GetLogs
  <2>4. CASE TxLogs[b][i] = 0
    <3>1. pc'[w] = "nextTx"
      BY <1>5, <1>10, <2>4 DEF GetLogs, Pcs
    <3>2. Before(b, i + 1, 0) \subseteq Before(b, i, 0 + 1)
      BY <2>1, <2>4, BeforeNextTx
    <3>3. Covered(pc'[w], b, i, lg'[w], Accounted')
      BY <2>1, <2>2, <3>1, <3>2 DEF Covered
    <3> QED
      BY <2>2, <2>3, <3>3, MoveStep
  <2>5. CASE TxLogs[b][i] # 0
    <3>1. GoTo(w, "send") /\ lg' = [lg EXCEPT ![w] = 1]
      BY <1>10, <2>5 DEF GetLogs
    <3>2. pc'[w] = "send" /\ lg'[w] = 1
      BY <1>0, <1>5, <3>1 DEF Pcs
    <3>3. Covered(pc'[w], b, i, lg'[w], Accounted')
      BY <2>1, <2>2, <3>2 DEF Covered
    <3> QED
      BY <2>2, <2>3, <3>3, MoveStep
  <2> QED
    BY <2>4, <2>5
<1>11. CASE PublishDone(w)
  <2>1. UNCHANGED <<buf, store, lost>> /\ Handed' = Handed
    BY <1>11, UnchangedKeeps DEF PublishDone
  <2>2. ASSUME GoTo(w, "range"), ClearJob(w), UNCHANGED <<doneQ, historyVars>>
        PROVE  HandOverInv'
    BY <1>1, <2>1, <2>2, IdleStep
  <2>3. ASSUME GoTo(w, "ack"), doneQ' = Append(doneQ, b),
               published' = published \cup {b},
               UNCHANGED <<job, tx, lg, skipped>>
        PROVE  HandOverInv'
    <3>1. RowsOf(b) \subseteq Accounted /\ b \in Blocks
      BY <1>0, <1>11 DEF PublishDone, Covered, Scanning
    <3>2. Accounted' = Accounted
      BY <2>1, <2>3 DEF Accounted, SkippedRows
    <3>3. CoveredOK'
      <4>1. pc'[w] = "ack" /\ \A v \in Workers \ {w} : pc'[v] = pc[v]
        BY <1>5, <2>3 DEF Pcs
      <4>2. Covered(pc'[w], job'[w], tx'[w], lg'[w], Accounted')
        BY <2>3, <3>1, <3>2, <4>1 DEF Covered
      <4> QED
        BY <2>3, <3>2, <4>1, <4>2, WorkerCovered DEF HandOverInv, TypeInv
    <3>4. DoneMeansHandedOver'
      <4>1. Range(doneQ') = Range(doneQ) \cup {b}
        BY <1>0, <2>3, <3>1, RangeAppend
      <4> QED
        BY <2>3, <3>1, <3>2, <4>1 DEF HandOverInv, DoneMeansHandedOver, Accounted
    <3> QED
      BY <2>1, <3>2, <3>3, <3>4, OrderKept DEF HandOverInv
  <2> QED
    BY <1>11, <2>2, <2>3 DEF PublishDone
<1> QED
  BY <1>2, <1>3, <1>4, <1>6, <1>7, <1>9, <1>10, <1>11

LEMMA NextHandOver == HandOverInv /\ TypeInv' /\ [Next]_vars => HandOverInv'
<1> SUFFICES ASSUME HandOverInv, TypeInv', [Next]_vars PROVE HandOverInv'
  OBVIOUS
<1> USE DEF processVars, workerVars, consumerVars, historyVars, queueVars
<1>1. CASE Next
  <2>1. ASSUME NEW w \in Workers, Scan(w) PROVE HandOverInv'
    <3>1. CASE SendPanics(w)
      <4>1. /\ Handed' = Handed /\ UNCHANGED <<skipped, published, doneQ>>
            /\ \A v \in Workers : pc'[v] = "none"
        BY <3>1, ExitKeeps DEF SendPanics, ExitProcess, HandOverInv, TypeInv
      <4> QED
        BY <4>1, QuietStep
    <3> QED
      BY <2>1, <3>1, SendStep, ScanHandOver DEF Scan, GetBlockInfo
  <2>2. ASSUME NEW w \in Workers, NEW b \in Blocks, Deliver(w, b) PROVE HandOverInv'
    BY <2>2, ScanHandOver
  <2>3. CASE BlockConsumerRun \/ TxConsumerRun \/ LogConsumerRun
    <3>1. PICK k \in Kinds : ConsumerRun(k)
      BY <2>3 DEF BlockConsumerRun, TxConsumerRun, LogConsumerRun, Kinds
    <3>2. Handed' = Handed
      BY <3>1, ConsumerKeeps DEF HandOverInv, TypeInv
    <3>3. UNCHANGED <<queueVars, workerVars, historyVars>>
      BY <3>1 DEF ConsumerRun
    <3> QED
      BY <3>2, <3>3, QuietStep
  <2> QED
    BY <1>1, <2>1, <2>2, <2>3, EnvironmentHandOver DEF Next
<1>2. CASE UNCHANGED vars
  <2>1. Handed' = Handed
    BY <1>2, UnchangedKeeps DEF vars
  <2> QED
    BY <1>2, <2>1, QuietStep DEF vars
<1> QED
  BY <1>1, <1>2

LEMMA InitHandOver == Init => HandOverInv
<1> SUFFICES ASSUME Init PROVE HandOverInv
  OBVIOUS
<1>1. TypeInv
  BY InitType
<1>2. Handed = {}
  <2>1. \A k \in Kinds : Range(buf[k]) = {}
    BY EmptyRange DEF Init
  <2> QED
    BY <2>1 DEF Init, Handed, Buffered
<1>3. CoveredOK
  BY DEF Init, CoveredOK, Covered
<1> QED
  BY <1>1, <1>2, <1>3, EmptyRange DEF Init, HandOverInv, DoneMeansHandedOver, HandOverOrder

(* A done message is published only for a block whose rows have all been     *)
(* taken by the consumers, except for logs skipped as pending.               *)
THEOREM DoneAfterHandOver == Spec => []DoneMeansHandedOver
<1>1. TypeInv /\ [Next]_vars => TypeInv'
  BY NextType
<1> QED
  BY <1>1, InitHandOver, NextHandOver, PTL DEF Spec, HandOverInv

(* Rows reach the buffers of the consumers in chain order.                   *)
THEOREM InChainOrder == Spec => []HandOverOrder
<1>1. TypeInv /\ [Next]_vars => TypeInv'
  BY NextType
<1> QED
  BY <1>1, InitHandOver, NextHandOver, PTL DEF Spec, HandOverInv

-----------------------------------------------------------------------------
(* What a done message stands for, when nothing is dropped.                  *)

(* Without failed saves, crashes and signals the process lives on, and no    *)
(* consumer drops a row.                                                     *)
KeepsRows == lost = {} /\ phase \in {"starting", "up"}

LEMMA NextKeepsRows ==
  ASSUME Faults \cap {"save", "crash", "shutdown"} = {}
  PROVE  KeepsRows /\ [Next]_vars => KeepsRows'
<1> SUFFICES ASSUME KeepsRows, [Next]_vars PROVE KeepsRows'
  OBVIOUS
<1> USE DEF KeepsRows, processVars, workerVars, consumerVars, historyVars, queueVars
<1>1. ~Crash /\ ~Signal /\ ~ShutdownStep /\ ClosedChans = {}
  BY DEF Crash, Signal, ShutdownStep, Fault, ClosedChans
<1>2. CASE \/ \E b \in Blocks : Push(b)
           \/ TakeDone \/ Start \/ Restart \/ ConnDrop \/ BrokerRestart
           \/ UNCHANGED vars
  BY <1>2 DEF Push, TakeDone, Start, Restart, ConnDrop, BrokerRestart, vars
<1>3. CASE BlockConsumerRun \/ TxConsumerRun \/ LogConsumerRun
  BY <1>3 DEF BlockConsumerRun, TxConsumerRun, LogConsumerRun, ConsumerRun, Tick,
     SeeClosed, Save, Fault
<1>4. ASSUME NEW w \in Workers, Scan(w) \/ (\E c \in Blocks : Deliver(w, c))
      PROVE  UNCHANGED <<phase, lost>>
  <2>1. ~SendPanics(w)
    BY <1>1 DEF SendPanics
  <2> QED
    BY <1>4, <2>1 DEF Scan, GetBlockInfo, Setup, RangeEnds, FetchBlock, NextTx,
       TxDetail, GetLogs, SendBlockRow, SendTxRow, SendLogRow, SendRow, PublishDone,
       AckDone, FailScan, Deliver
<1> QED
  BY <1>1, <1>2, <1>3, <1>4 DEF Next

(* What is left of the promise of the readme: as long as no save fails and   *)
(* the process is not ended, a row of a done block is in MySQL or still in   *)
(* the buffer of a consumer, whatever the workers, RabbitMQ and the RPC      *)
(* endpoint do.                                                              *)
THEOREM DoneStoredOrBuffered ==
  ASSUME Faults \cap {"save", "crash", "shutdown"} = {}
  PROVE  Spec => [](\A b \in published : RowsOf(b) \subseteq store \cup Buffered \cup SkippedRows)
<1>1. Init => KeepsRows
  BY DEF Init, KeepsRows
<1>2. KeepsRows /\ DoneMeansHandedOver
        => \A b \in published : RowsOf(b) \subseteq store \cup Buffered \cup SkippedRows
  BY DEF KeepsRows, DoneMeansHandedOver, Handed
<1> QED
  BY <1>1, <1>2, NextKeepsRows, DoneAfterHandOver, PTL DEF Spec

=============================================================================
