---------------------------- MODULE PipelineProofs ----------------------------
(***************************************************************************)
(* Proofs about Pipeline, for every chain: the composition is a behaviour  *)
(* of the producer and of the contract of the indexer, no block below the  *)
(* watermark is missed silently, and the watermark is a complete block.    *)
(***************************************************************************)
EXTENDS Pipeline, ProducerProofs

(* A done message follows the whole block, and the numbers receiveACK        *)
(* handles and stores come from done messages.                               *)
ReportedOK ==
  /\ reported \subseteq Numbers
  /\ \A b \in reported : Complete(b)
  /\ Range(doneQ) \subseteq reported
  /\ num \in reported \cup {0}
  /\ dbRow \in reported \cup {0}

(* What became of a block number that was pushed.                            *)
PushedOK == \A b \in pushed : b \in reported \/ ready[b] > 0 \/ b \in abandoned

PipelineInv == ProducerInv /\ ReportedOK /\ PushedOK

-----------------------------------------------------------------------------
(* The composition adds no step to the producer.                             *)
LEMMA StepOfProducer == [PipelineNext]_pipelineVars => [Next]_vars
BY DEF PipelineNext, ProducerStep, QueuesLost, HandOver, Declare, Report, Retire, Next,
       pipelineVars

(* What is taken over or accounted for stays so.                             *)
LEMMA CompleteStable ==
  ASSUME handed \subseteq handed', skipped \subseteq skipped', NEW b, Complete(b)
  PROVE  Complete(b)'
BY DEF Complete, Contract!Accounted, Contract!Rows, Contract!RowsOf

LEMMA ReportedStable ==
  ASSUME ReportedOK, handed \subseteq handed', skipped \subseteq skipped',
         UNCHANGED reported,
         Range(doneQ') \subseteq Range(doneQ),
         num' \in {num, 0} \cup Range(doneQ),
         dbRow' \in {dbRow, num}
  PROVE  ReportedOK'
<1>1. \A b \in reported : Complete(b)'
  BY CompleteStable DEF ReportedOK
<1> QED
  BY <1>1 DEF ReportedOK

(* A step of the producer alone pushes one number, takes one done message,   *)
(* or leaves the queues alone.                                               *)
PushStep ==
  /\ index \in Numbers
  /\ ready' = [ready EXCEPT ![index] = @ + 1]
  /\ pushed' = pushed \cup {index}
  /\ UNCHANGED doneQ

TakeStep ==
  /\ doneQ # <<>>
  /\ doneQ' = Tail(doneQ)
  /\ UNCHANGED <<ready, pushed>>

Moves ==
  /\ num' \in {num, 0} \/ (doneQ # <<>> /\ num' = Head(doneQ))
  /\ dbRow' \in {dbRow, num}

LEMMA ProducerStepShape ==
  ASSUME ProducerInv, ProducerStep
  PROVE  /\ PushStep \/ TakeStep \/ UNCHANGED <<ready, doneQ, pushed>>
         /\ Moves
<1> USE DEF rowVars, queueVars, connVars, loopVars, ackVars, historyVars
<1>1. CASE Mine \/ (\E c \in open : ConnDrop(c)) \/ ContinueUpdateBlockNumber
  BY <1>1 DEF Mine, ConnDrop, ContinueUpdateBlockNumber, Moves
<1>2. CASE Crash \/ PanicNoHead
  BY <1>2 DEF Crash, PanicNoHead, ExitProcess, Moves
<1>3. CASE Dial \/ GetLatestBlockNumber \/ Load \/ AssignDbLatest \/ LoopEnds
  BY <1>3 DEF Dial, GetLatestBlockNumber, Load, AssignDbLatest, LoopEnds, Moves
<1>4. CASE PushNext
  <2>1. index \in Numbers
    BY <1>4, BlocksNat, ProducerAssumption DEF PushNext, ProducerInv, TypeOK, Numbers
  <2>2. PushStep \/ UNCHANGED <<ready, doneQ, pushed>>
    BY <1>4, <2>1 DEF PushNext, PushMsg, PushStep
  <2> QED
    BY <1>4, <2>2 DEF PushNext, Moves
<1>5. CASE Subscribe \/ SubscribeFatal \/ StoreDbLatest \/ ReceiverEnds \/ UpdateRow
  BY <1>5 DEF Subscribe, SubscribeFatal, ExitProcess, StoreDbLatest, ReceiverEnds,
              UpdateRow, Moves
<1>6. CASE ReceiveDone
  BY <1>6 DEF ReceiveDone, AckHead, TakeStep, Moves
<1>7. CASE AckDone
  BY <1>7 DEF AckDone, AckHead, ProducerInv, ConnOK, Handling, TakeStep, Moves
<1> QED
  BY <1>1, <1>2, <1>3, <1>4, <1>5, <1>6, <1>7
  DEF ProducerStep, StartLoop, ReceiveACK

-----------------------------------------------------------------------------
LEMMA PipelineInitInv == PipelineInit => PipelineInv
<1> SUFFICES ASSUME PipelineInit PROVE PipelineInv
  OBVIOUS
<1>1. Range(doneQ) = {}
  BY EmptyRange DEF PipelineInit, Init
<1>2. reported = {} /\ pushed = {} /\ num = 0 /\ dbRow = 0
  BY DEF PipelineInit, Init, Contract!Init
<1> QED
  BY <1>1, <1>2, InitInv DEF PipelineInit, PipelineInv, ReportedOK, PushedOK

LEMMA PipelineNextInv ==
  PipelineInv /\ [PipelineNext]_pipelineVars => PipelineInv'
<1> SUFFICES ASSUME PipelineInv, [PipelineNext]_pipelineVars PROVE PipelineInv'
  OBVIOUS
<1>1. ProducerInv'
  BY StepOfProducer, NextInv DEF PipelineInv
<1>2. doneQ \in Seq(Numbers) /\ ready \in [Numbers -> Nat] /\ pushed \subseteq Numbers
  BY DEF PipelineInv, ProducerInv, TypeOK
<1>3. CASE ProducerStep
  <2>1. UNCHANGED <<handed, skipped, reported, abandoned>>
    BY <1>3 DEF ProducerStep, scanVars
  <2>2. PushStep \/ TakeStep \/ UNCHANGED <<ready, doneQ, pushed>>
    BY <1>3, ProducerStepShape DEF PipelineInv
  <2>3. Moves
    BY <1>3, ProducerStepShape DEF PipelineInv
  <2>4. doneQ # <<>> => Head(doneQ) \in Range(doneQ) /\ Range(Tail(doneQ)) \subseteq Range(doneQ)
    BY <1>2, SeqRange
  <2>5. Range(doneQ') \subseteq Range(doneQ)
    BY <2>2, <2>4 DEF PushStep, TakeStep
  <2>6. num' \in {num, 0} \cup Range(doneQ) /\ dbRow' \in {dbRow, num}
    BY <2>3, <2>4 DEF Moves
  <2>7. ReportedOK'
    BY <2>1, <2>5, <2>6, ReportedStable DEF PipelineInv
  <2>8. PushedOK'
    <3>1. CASE PushStep
      <4>1. \A b \in Numbers : ready'[b] >= ready[b]
        BY <1>2, <3>1 DEF PushStep
      <4>2. ready'[index] > 0
        BY <1>2, <3>1 DEF PushStep
      <4>3. \A b \in pushed : ready[b] > 0 => ready'[b] > 0
        <5> TAKE b \in pushed
        <5>1. b \in Numbers /\ ready[b] \in Nat /\ ready'[b] \in Nat
          BY <1>2, <1>1 DEF ProducerInv, TypeOK
        <5> QED
          BY <4>1, <5>1
      <4> QED
        BY <2>1, <3>1, <4>2, <4>3 DEF PipelineInv, PushedOK, PushStep
    <3>2. CASE UNCHANGED <<ready, pushed>>
      BY <2>1, <3>2 DEF PipelineInv, PushedOK
    <3> QED
      BY <2>2, <3>1, <3>2 DEF TakeStep
  <2> QED
    BY <1>1, <2>7, <2>8 DEF PipelineInv
<1>4. CASE QueuesLost
  <2>1. /\ Range(doneQ') = {}
        /\ UNCHANGED <<handed, skipped, reported, num, dbRow, pushed>>
        /\ abandoned' = abandoned \cup {b \in Numbers \ reported : ready[b] > 0}
    BY <1>4, EmptyRange
    DEF QueuesLost, BrokerRestart, Contract!Forget, rowVars, ackVars, historyVars
  <2>2. ReportedOK'
    BY <2>1, ReportedStable DEF PipelineInv
  <2>3. PushedOK'
    BY <1>2, <2>1 DEF PipelineInv, PushedOK
  <2> QED
    BY <1>1, <2>2, <2>3 DEF PipelineInv
<1>5. CASE HandOver
  <2>1. /\ handed \subseteq handed' /\ skipped \subseteq skipped'
        /\ UNCHANGED <<reported, vars, abandoned>>
    BY <1>5 DEF HandOver, Contract!TakeOver, Contract!Skip
  <2>2. ReportedOK'
    BY <2>1, ReportedStable
    DEF PipelineInv, vars, rowVars, queueVars, ackVars
  <2>3. PushedOK'
    BY <2>1 DEF PipelineInv, PushedOK, vars, queueVars, historyVars
  <2> QED
    BY <1>1, <2>2, <2>3 DEF PipelineInv
<1>6. ASSUME NEW b \in Numbers, Report(b) PROVE PipelineInv'
  <2>1. /\ UNCHANGED <<handed, skipped, abandoned, num, dbRow, pushed>>
        /\ reported' = reported \cup {b}
        /\ doneQ' = Append(doneQ, b)
        /\ Complete(b)
        /\ ready' = ready
    BY <1>6
    DEF Report, IndexerDone, Contract!Report, Complete, rowVars, ackVars, historyVars
  <2>2. Range(doneQ') = Range(doneQ) \cup {b}
    BY <1>2, <2>1, SeqRange
  <2>3. \A a \in reported' : Complete(a)'
    BY <2>1, CompleteStable DEF PipelineInv, ReportedOK
  <2>4. ReportedOK'
    BY <2>1, <2>2, <2>3 DEF PipelineInv, ReportedOK
  <2>5. PushedOK'
    BY <2>1 DEF PipelineInv, PushedOK
  <2> QED
    BY <1>1, <2>4, <2>5 DEF PipelineInv
<1>7. ASSUME NEW b \in Numbers, Retire(b) PROVE PipelineInv'
  <2>1. /\ UNCHANGED <<handed, skipped, reported, doneQ, num, dbRow, pushed>>
        /\ abandoned' = abandoned \cup ({b} \ reported)
        /\ ready' = [ready EXCEPT ![b] = @ - 1]
    BY <1>7
    DEF Retire, IndexerGivesUp, Contract!Retire, rowVars, ackVars, historyVars
  <2>2. ReportedOK'
    BY <2>1, ReportedStable DEF PipelineInv
  <2>3. PushedOK'
    BY <1>2, <2>1 DEF PipelineInv, PushedOK
  <2> QED
    BY <1>1, <2>2, <2>3 DEF PipelineInv
<1>8. CASE UNCHANGED pipelineVars \/ Declare
  <2>1. UNCHANGED <<handed, skipped, reported, abandoned, ready, doneQ, num, dbRow, pushed>>
    BY <1>8
    DEF pipelineVars, Declare, IndexerDeclares, vars, scanVars, rowVars, queueVars, ackVars, historyVars
  <2>2. ReportedOK' /\ PushedOK'
    BY <2>1, ReportedStable DEF PipelineInv, PushedOK
  <2> QED
    BY <1>1, <2>2 DEF PipelineInv
<1> QED
  BY <1>3, <1>4, <1>5, <1>6, <1>7, <1>8 DEF PipelineNext

LEMMA PipelineInvariant == PipelineSpec => []PipelineInv
BY PipelineInitInv, PipelineNextInv, PTL DEF PipelineSpec

-----------------------------------------------------------------------------
(* What is proved of Producer holds in the composition.                      *)
THEOREM PipelineImplementsProducer == PipelineSpec => ImplementsProducer
<1>1. PipelineInit => Init
  BY DEF PipelineInit
<1> QED
  BY <1>1, StepOfProducer, PTL DEF PipelineSpec, ImplementsProducer, Spec

(* Every producer keeps to the contract of the two queues.                   *)
THEOREM PipelineImplementsContract == PipelineSpec => ImplementsContract
<1>1. PipelineInit => Contract!Init
  BY DEF PipelineInit
<1>2. PipelineInv /\ [PipelineNext]_pipelineVars
        => [Contract!Next]_(Contract!contractVars)
  <2> SUFFICES ASSUME PipelineInv, [PipelineNext]_pipelineVars
               PROVE  [Contract!Next]_(Contract!contractVars)
    OBVIOUS
  <2>1. CASE ProducerStep
    <3>1. UNCHANGED <<handed, skipped, reported>>
      BY <2>1 DEF ProducerStep, scanVars
    <3>2. PushStep \/ TakeStep \/ UNCHANGED <<ready, doneQ, pushed>>
      BY <2>1, ProducerStepShape DEF PipelineInv
    <3>3. CASE PushStep
      <4>1. index \in Numbers /\ Contract!Push(index)
        BY <3>1, <3>3 DEF PushStep, Contract!Push
      <4> QED
        BY <4>1 DEF Contract!Next
    <3>4. CASE TakeStep
      BY <3>1, <3>4 DEF TakeStep, Contract!TakeDone, Contract!Next
    <3> QED
      BY <3>1, <3>2, <3>3, <3>4 DEF Contract!contractVars
  <2>2. CASE QueuesLost
    BY <2>2 DEF QueuesLost, Contract!Next
  <2>3. CASE HandOver
    <3>1. pushed \subseteq Numbers
      BY DEF PipelineInv, ProducerInv, TypeOK
    <3>2. CASE \E r \in Contract!Rows : Contract!TakeOver(r)
      BY <3>2 DEF Contract!Next
    <3>3. CASE \E b \in Numbers : \E i \in DOMAIN TxLogs[b] : Contract!Skip(b, i)
      BY <3>3 DEF Contract!Next
    <3> QED
      BY <2>3, <3>1, <3>2, <3>3 DEF HandOver
  <2>4. ASSUME NEW b \in Numbers, Report(b) \/ Retire(b) PROVE Contract!Next
    BY <2>4 DEF Report, Retire, Contract!Next
  <2>5. CASE UNCHANGED pipelineVars \/ Declare
    BY <2>5 DEF pipelineVars, Declare, IndexerDeclares, vars, queueVars, scanVars, Contract!contractVars
  <2> QED
    BY <2>1, <2>2, <2>3, <2>4, <2>5 DEF PipelineNext
<1> QED
  BY <1>1, <1>2, PipelineInvariant, PTL
  DEF PipelineSpec, ImplementsContract, Contract!Spec

(* The end to end promise.                                                   *)
THEOREM NoSilentMiss == PipelineSpec => []NothingMissedSilently
<1>1. PipelineInv => NothingMissedSilently
  <2> SUFFICES ASSUME PipelineInv, NEW b \in Numbers, b < dbRow
               PROVE  Complete(b) \/ ready[b] > 0 \/ b \in dropped \cup abandoned
    BY DEF NothingMissedSilently
  <2>1. b \in pushed \cup dropped
    <3>1. GaplessOK /\ b \in Nat /\ dbRow # 0
      BY BlocksNat DEF PipelineInv, ProducerInv
    <3> QED
      BY <3>1 DEF GaplessOK, Reached
  <2> QED
    BY <2>1 DEF PipelineInv, ReportedOK, PushedOK
<1> QED
  BY <1>1, PipelineInvariant, PTL

(* The watermark is the number of a complete block.                          *)
THEOREM WatermarkIsComplete == PipelineSpec => []WatermarkComplete
<1>1. PipelineInv => WatermarkComplete
  BY DEF PipelineInv, ReportedOK, WatermarkComplete
<1> QED
  BY <1>1, PipelineInvariant, PTL

=============================================================================
