--------------------------- MODULE ProducerProofs ----------------------------
(***************************************************************************)
(* Proofs about Producer, for every chain length, retry limit and set of   *)
(* faults: no gap is left below the watermark, nothing is pushed before it *)
(* is mined, and the watermark does not fall once startLoop has synced it. *)
(***************************************************************************)
EXTENDS Producer, TLAPS

(* The block numbers startLoop has tried to push.                            *)
Reached == pushed \cup dropped

Handling == {"update", "store", "ack"}

(* The connections: a closed one never opens again, and while the one the    *)
(* receiver uses is open, the message it handles stays on the queue.         *)
ConnOK ==
  /\ open \subseteq 1 .. dials
  /\ ackConn <= dials
  /\ apc \in Handling /\ ackConn \in open => doneQ # <<>>

(* Nothing the producer relies on is ahead of the chain.                     *)
MinedOK ==
  /\ latest <= head
  /\ \A b \in Reached : b <= head
  /\ ppc = "assign" => index \in Numbers

(* The block numbers in circulation have been reached, and what was reached  *)
(* has no gap.                                                               *)
GaplessOK ==
  /\ \A b \in Reached, a \in Numbers : a < b => a \in Reached
  /\ \A b \in Numbers : ready[b] > 0 => b \in Reached
  /\ Range(doneQ) \subseteq Reached
  /\ num \in Reached \cup {0}
  /\ dbRow \in Reached \cup {0}
  /\ ppc \in {"assign", "loop"} => \A a \in Numbers : a < index => a \in Reached

(* Once synced, dbLatestBlockNumber is not below the row, and a number on    *)
(* its way into the row is not either.                                       *)
SyncOK ==
  synced =>
    /\ ppc \in {"loop", "ended"}
    /\ apc # "store" => dbRow <= dbLatest
    /\ apc \in {"update", "store"} => dbRow <= num

ProducerInv == TypeOK /\ ConnOK /\ MinedOK /\ GaplessOK /\ SyncOK

-----------------------------------------------------------------------------
LEMMA BlocksNat == Numbers \subseteq Nat /\ 0 \in Numbers
BY ProducerAssumption DEF Numbers

(* What Append, Head and Tail do to the elements of a sequence.              *)
LEMMA SeqRange ==
  ASSUME NEW S, NEW s \in Seq(S)
  PROVE  /\ \A e \in S : Append(s, e) \in Seq(S) /\ Append(s, e) # <<>>
                         /\ Range(Append(s, e)) = Range(s) \cup {e}
         /\ s # <<>> => /\ Head(s) \in S /\ Head(s) \in Range(s)
                        /\ Tail(s) \in Seq(S) /\ Range(Tail(s)) \subseteq Range(s)
<1>1. ASSUME NEW e \in S
      PROVE  Append(s, e) \in Seq(S) /\ Append(s, e) # <<>>
             /\ Range(Append(s, e)) = Range(s) \cup {e}
  <2>1. /\ Append(s, e) \in Seq(S) /\ Len(s) \in Nat
        /\ Len(Append(s, e)) = Len(s) + 1
        /\ \A i \in 1 .. Len(s) : Append(s, e)[i] = s[i]
        /\ Append(s, e)[Len(s) + 1] = e
    OBVIOUS
  <2>2. DOMAIN s = 1 .. Len(s) /\ DOMAIN Append(s, e) = 1 .. (Len(s) + 1)
    BY <2>1
  <2>3. 1 .. (Len(s) + 1) = (1 .. Len(s)) \cup {Len(s) + 1}
    BY <2>1
  <2>4. Range(Append(s, e)) = Range(s) \cup {e}
    BY <2>1, <2>2, <2>3 DEF Range
  <2>5. Append(s, e) # <<>>
    BY <2>1
  <2> QED
    BY <2>1, <2>4, <2>5
<1>2. ASSUME s # <<>>
      PROVE  /\ Head(s) \in S /\ Head(s) \in Range(s)
             /\ Tail(s) \in Seq(S) /\ Range(Tail(s)) \subseteq Range(s)
  <2>1. /\ Len(s) \in Nat \ {0} /\ Len(Tail(s)) = Len(s) - 1
        /\ Tail(s) \in Seq(S) /\ Head(s) = s[1]
        /\ \A i \in 1 .. Len(Tail(s)) : Tail(s)[i] = s[i + 1]
        /\ DOMAIN s = 1 .. Len(s) /\ DOMAIN Tail(s) = 1 .. Len(Tail(s))
    BY <1>2
  <2>2. /\ 1 \in 1 .. Len(s)
        /\ \A i \in 1 .. Len(Tail(s)) : i + 1 \in 1 .. Len(s)
    BY <2>1
  <2>3. Head(s) \in S
    BY <1>2
  <2> QED
    BY <2>1, <2>2, <2>3 DEF Range
<1> QED
  BY <1>1, <1>2

LEMMA EmptyRange ==
  ASSUME NEW S
  PROVE  Range(<<>>) = {} /\ <<>> \in Seq(S)
BY DEF Range

LEMMA InitInv == Init => ProducerInv
<1> SUFFICES ASSUME Init PROVE ProducerInv
  OBVIOUS
<1>1. TypeOK
  <2>1. doneQ \in Seq(Numbers)
    BY EmptyRange DEF Init
  <2>2. /\ dones \in 0 .. MaxDones /\ open \subseteq 1 .. MaxDials
        /\ dials \in 0 .. MaxDials /\ mqConn \in 0 .. MaxDials
        /\ ackConn \in 0 .. MaxDials /\ tries \in 0 .. MaxRetryTime
        /\ exits \in 0 .. MaxExits
    BY ProducerAssumption DEF Init
  <2> QED
    BY <2>1, <2>2, BlocksNat DEF Init, TypeOK
<1>2. Range(doneQ) = {}
  BY EmptyRange DEF Init
<1> QED
  BY <1>1, <1>2, BlocksNat
  DEF Init, ProducerInv, ConnOK, MinedOK, GaplessOK, SyncOK, Handling, Reached

LEMMA ExitInv ==
  ASSUME ProducerInv, ExitProcess
  PROVE  ProducerInv'
<1> USE DEF ProducerInv, rowVars, queueVars
<1>1. TypeOK'
  <2>1. /\ open' \subseteq 1 .. MaxDials /\ dials' \in 0 .. MaxDials
        /\ mqConn' \in 0 .. MaxDials /\ ackConn' \in 0 .. MaxDials
        /\ tries' \in 0 .. MaxRetryTime /\ exits' \in 0 .. MaxExits
    BY ProducerAssumption DEF ExitProcess, TypeOK
  <2> QED
    BY <2>1, BlocksNat DEF ExitProcess, TypeOK
<1>2. ConnOK' /\ SyncOK'
  BY DEF ExitProcess, ConnOK, SyncOK, Handling
<1>3. MinedOK' /\ GaplessOK'
  BY BlocksNat DEF ExitProcess, MinedOK, GaplessOK, Reached, TypeOK
<1> QED
  BY <1>1, <1>2, <1>3

(* A step that leaves the queues, the watermark, the numbers being handled   *)
(* and what was reached alone keeps the parts of the invariant about them.   *)
LEMMA QuietGapless ==
  ASSUME GaplessOK, UNCHANGED <<dbRow, ready, num, pushed, dropped>>,
         Range(doneQ') \subseteq Range(doneQ),
         ppc' \in {"assign", "loop"} => ppc \in {"assign", "loop"} /\ index' = index
  PROVE  GaplessOK'
BY DEF GaplessOK, Reached

(* The steps of what surrounds the producer.                                 *)
LEMMA EnvironmentInv ==
  ASSUME ProducerInv,
         \/ Mine \/ BrokerRestart \/ IndexerDeclares
         \/ \E b \in Numbers : IndexerDone(b) \/ IndexerGivesUp(b)
         \/ \E c \in open : ConnDrop(c)
  PROVE  ProducerInv'
<1> USE DEF ProducerInv, rowVars, queueVars, connVars, loopVars, ackVars, historyVars
<1>1. CASE Mine
  <2>1. head' = head + 1 /\ head' \in Numbers /\ head \in Nat
    BY <1>1, ProducerAssumption, BlocksNat DEF Mine, TypeOK, Numbers
  <2>2. TypeOK' /\ ConnOK' /\ SyncOK'
    BY <1>1, <2>1 DEF Mine, TypeOK, ConnOK, SyncOK
  <2>3. MinedOK'
    <3>1. /\ latest \in Nat /\ \A b \in Reached : b \in Nat
          /\ UNCHANGED <<latest, pushed, dropped, ppc, index>>
      BY <1>1, BlocksNat DEF Mine, Reached, TypeOK
    <3>2. \A n \in Nat : n <= head => n <= head'
      BY <2>1
    <3> QED
      BY <3>1, <3>2 DEF MinedOK, Reached
  <2>4. GaplessOK'
    BY <1>1, QuietGapless DEF Mine
  <2> QED
    BY <2>2, <2>3, <2>4
<1>2. CASE BrokerRestart
  <2>1. doneQ' \in Seq(Numbers) /\ Range(doneQ') = {}
    BY <1>2, EmptyRange DEF BrokerRestart
  <2>2. TypeOK'
    BY <1>2, <2>1 DEF BrokerRestart, TypeOK
  <2>3. ConnOK' /\ SyncOK' /\ MinedOK'
    BY <1>2 DEF BrokerRestart, ConnOK, SyncOK, MinedOK, Reached
  <2>4. GaplessOK'
    BY <1>2, <2>1 DEF BrokerRestart, GaplessOK, Reached
  <2> QED
    BY <2>2, <2>3, <2>4
<1>3. ASSUME NEW b \in Numbers, IndexerDone(b) PROVE ProducerInv'
  <2>1. /\ doneQ' \in Seq(Numbers) /\ doneQ' # <<>>
        /\ Range(doneQ') = Range(doneQ) \cup {b}
    BY <1>3, SeqRange DEF IndexerDone, TypeOK
  <2>2. /\ ready' \in [Numbers -> Nat]
        /\ \A a \in Numbers : ready'[a] <= ready[a]
    <3>1. ready \in [Numbers -> Nat] /\ ready[b] - 1 \in Nat
      <4>1. ready \in [Numbers -> Nat]
        BY DEF TypeOK
      <4>2. ready[b] > 0
        BY <1>3 DEF IndexerDone
      <4> QED
        BY <4>1, <4>2
    <3>2. CASE ready' = ready
      BY <3>1, <3>2
    <3>3. CASE ready' = [ready EXCEPT ![b] = ready[b] - 1]
      BY <3>1, <3>3
    <3> QED
      BY <1>3, <3>2, <3>3 DEF IndexerDone
  <2>3. dones' \in 0 .. MaxDones
    BY <1>3, ProducerAssumption DEF IndexerDone, TypeOK
  <2>4. TypeOK'
    BY <1>3, <2>1, <2>2, <2>3 DEF IndexerDone, TypeOK
  <2>5. ConnOK' /\ SyncOK' /\ MinedOK'
    BY <1>3, <2>1 DEF IndexerDone, ConnOK, SyncOK, MinedOK, Reached
  <2>6. b \in Reached
    BY <1>3 DEF IndexerDone, GaplessOK
  <2>7. ASSUME NEW a \in Numbers, ready'[a] > 0 PROVE ready[a] > 0
    <3>1. ready[a] \in Nat /\ ready'[a] \in Nat /\ ready'[a] <= ready[a]
      BY <2>2 DEF TypeOK
    <3> QED
      BY <2>7, <3>1
  <2>8. GaplessOK'
    BY <1>3, <2>1, <2>6, <2>7 DEF IndexerDone, GaplessOK, Reached
  <2> QED
    BY <2>4, <2>5, <2>8
<1>4. ASSUME NEW b \in Numbers, IndexerGivesUp(b) PROVE ProducerInv'
  <2>1. /\ ready' \in [Numbers -> Nat]
        /\ \A a \in Numbers : ready'[a] > 0 => ready[a] > 0
    BY <1>4 DEF IndexerGivesUp, TypeOK
  <2>2. TypeOK'
    BY <1>4, <2>1 DEF IndexerGivesUp, TypeOK
  <2>4. ConnOK' /\ SyncOK' /\ MinedOK'
    BY <1>4 DEF IndexerGivesUp, ConnOK, SyncOK, MinedOK, Reached
  <2>3. GaplessOK'
    BY <1>4, <2>1 DEF IndexerGivesUp, GaplessOK, Reached
  <2> QED
    BY <2>2, <2>3, <2>4
<1>5. ASSUME NEW c \in open, ConnDrop(c) PROVE ProducerInv'
  <2>1. TypeOK'
    BY <1>5 DEF ConnDrop, TypeOK
  <2>2. ConnOK'
    BY <1>5 DEF ConnDrop, ConnOK
  <2>3. SyncOK' /\ MinedOK'
    BY <1>5 DEF ConnDrop, SyncOK, MinedOK, Reached
  <2>4. GaplessOK'
    BY <1>5, QuietGapless DEF ConnDrop
  <2> QED
    BY <2>1, <2>2, <2>3, <2>4
<1>6. CASE IndexerDeclares
  <2>1. TypeOK' /\ ConnOK' /\ SyncOK' /\ MinedOK'
    BY <1>6 DEF IndexerDeclares, TypeOK, ConnOK, SyncOK, MinedOK, Reached
  <2>2. GaplessOK'
    BY <1>6, QuietGapless DEF IndexerDeclares
  <2> QED
    BY <2>1, <2>2
<1> QED
  BY <1>1, <1>2, <1>3, <1>4, <1>5, <1>6

(* Opening a connection, and an attempt at BlockNumber.                      *)
LEMMA HeadInv ==
  ASSUME ProducerInv, (CreateEthClient /\ UNCHANGED ackConn) \/ UNCHANGED connVars,
         UNCHANGED <<apc, doneQ>>
  PROVE  /\ ConnOK'
         /\ open' \subseteq 1 .. MaxDials /\ dials' \in 0 .. MaxDials
         /\ mqConn' \in 0 .. MaxDials /\ ackConn' \in 0 .. MaxDials
<1> USE DEF ProducerInv, TypeOK, ConnOK, connVars
<1>1. CASE CreateEthClient /\ UNCHANGED ackConn
  <2>1. /\ dials' = dials + 1 /\ open' = open \cup {dials + 1}
        /\ mqConn' = dials + 1 /\ ackConn' = ackConn
        /\ dials \in Nat /\ dials < MaxDials /\ MaxDials \in Nat
    BY <1>1, ProducerAssumption DEF CreateEthClient
  <2>2. /\ open' \subseteq 1 .. dials' /\ dials' \in 0 .. MaxDials
        /\ mqConn' \in 0 .. MaxDials /\ ackConn' <= dials'
    BY <2>1
  <2>3. ackConn \in open' => ackConn \in open
    BY <2>1
  <2>4. apc' \in Handling /\ ackConn' \in open' => doneQ' # <<>>
    BY <2>1, <2>3
  <2>5. open' \subseteq 1 .. MaxDials
    BY <2>1, <2>2
  <2> QED
    BY <2>1, <2>2, <2>4, <2>5
<1>2. CASE UNCHANGED connVars
  BY <1>2
<1> QED
  BY <1>1, <1>2

LEMMA AskInv ==
  ASSUME ProducerInv, AskHead \/ MissHead
  PROVE  /\ latest' \in Numbers /\ latest' <= head
         /\ tries' \in 0 .. MaxRetryTime
         /\ (CreateEthClient /\ UNCHANGED ackConn) \/ UNCHANGED connVars
<1>1. tries \in Nat /\ head \in Numbers /\ MaxRetryTime \in Nat \ {0} /\ 0 <= head
  BY ProducerAssumption, BlocksNat DEF ProducerInv, TypeOK
<1>2. latest' \in Numbers /\ latest' <= head /\ tries' \in 0 .. MaxRetryTime
  BY <1>1, BlocksNat DEF AskHead, MissHead
<1> QED
  BY <1>2 DEF AskHead, MissHead

(* The steps of Start and startLoop, and of the goroutine that asks for the  *)
(* head.                                                                     *)
LEMMA LoopInv ==
  ASSUME ProducerInv, StartLoop \/ ContinueUpdateBlockNumber
  PROVE  ProducerInv'
<1> USE DEF ProducerInv, rowVars, queueVars, loopVars, ackVars, historyVars
<1>1. CASE Dial
  <2>1. /\ ConnOK' /\ open' \subseteq 1 .. MaxDials /\ dials' \in 0 .. MaxDials
        /\ mqConn' \in 0 .. MaxDials /\ ackConn' \in 0 .. MaxDials
    BY <1>1, HeadInv DEF Dial
  <2>2. TypeOK'
    BY <1>1, <2>1 DEF Dial, TypeOK
  <2>3. MinedOK' /\ SyncOK'
    BY <1>1 DEF Dial, MinedOK, SyncOK, Reached
  <2>4. GaplessOK'
    BY <1>1, QuietGapless DEF Dial
  <2> QED
    BY <2>1, <2>2, <2>3, <2>4
<1>2. CASE GetLatestBlockNumber
  <2>1. AskHead \/ MissHead
    BY <1>2 DEF GetLatestBlockNumber
  <2>2. /\ latest' \in Numbers /\ latest' <= head /\ tries' \in 0 .. MaxRetryTime
        /\ (CreateEthClient /\ UNCHANGED ackConn) \/ UNCHANGED connVars
    BY <2>1, AskInv
  <2>3. /\ open' \subseteq 1 .. MaxDials /\ dials' \in 0 .. MaxDials
        /\ mqConn' \in 0 .. MaxDials /\ ackConn' \in 0 .. MaxDials
        /\ ConnOK'
    <3>1. CASE apc' = apc
      BY <1>2, <2>2, <3>1, HeadInv DEF GetLatestBlockNumber
    <3>2. CASE AskHead /\ apc' = "subscribe"
      BY <3>2 DEF AskHead, connVars, TypeOK, ConnOK, Handling
    <3> QED
      BY <1>2, <3>1, <3>2 DEF GetLatestBlockNumber
  <2>4. TypeOK'
    BY <1>2, <2>2, <2>3 DEF GetLatestBlockNumber, TypeOK
  <2>5. MinedOK' /\ SyncOK'
    BY <1>2, <2>2 DEF GetLatestBlockNumber, MinedOK, SyncOK, Reached
  <2>6. GaplessOK'
    BY <1>2, QuietGapless DEF GetLatestBlockNumber
  <2> QED
    BY <2>3, <2>4, <2>5, <2>6
<1>3. CASE ContinueUpdateBlockNumber
  <2>1. AskHead \/ MissHead
    BY <1>3 DEF ContinueUpdateBlockNumber
  <2>2. /\ latest' \in Numbers /\ latest' <= head /\ tries' \in 0 .. MaxRetryTime
        /\ (CreateEthClient /\ UNCHANGED ackConn) \/ UNCHANGED connVars
    BY <2>1, AskInv
  <2>3. /\ open' \subseteq 1 .. MaxDials /\ dials' \in 0 .. MaxDials
        /\ mqConn' \in 0 .. MaxDials /\ ackConn' \in 0 .. MaxDials
        /\ ConnOK'
    BY <1>3, <2>2, HeadInv DEF ContinueUpdateBlockNumber
  <2>4. TypeOK'
    BY <1>3, <2>2, <2>3 DEF ContinueUpdateBlockNumber, TypeOK
  <2>5. MinedOK' /\ SyncOK'
    BY <1>3, <2>2 DEF ContinueUpdateBlockNumber, MinedOK, SyncOK, Reached
  <2>6. GaplessOK'
    BY <1>3, QuietGapless DEF ContinueUpdateBlockNumber
  <2> QED
    BY <2>3, <2>4, <2>5, <2>6
<1> USE DEF connVars
<1>4. CASE Load
  <2>1. TypeOK'
    BY <1>4, BlocksNat DEF Load, TypeOK
  <2>2. ConnOK' /\ MinedOK' /\ SyncOK'
    BY <1>4, BlocksNat DEF Load, TypeOK, ConnOK, MinedOK, SyncOK, Reached
  <2>3. ASSUME NEW a \in Numbers, a < dbRow PROVE a \in Reached
    <3>1. a \in Nat /\ dbRow # 0
      BY <2>3, BlocksNat
    <3>2. dbRow \in Reached
      BY <3>1 DEF GaplessOK
    <3> QED
      BY <2>3, <3>2 DEF GaplessOK
  <2>4. GaplessOK'
    BY <1>4, <2>3 DEF Load, GaplessOK, Reached
  <2> QED
    BY <2>1, <2>2, <2>4
<1>5. CASE AssignDbLatest
  <2>1. TypeOK' /\ ConnOK' /\ MinedOK'
    BY <1>5 DEF AssignDbLatest, TypeOK, ConnOK, MinedOK, Reached
  <2>2. SyncOK'
    <3>1. dbRow \in Nat
      BY BlocksNat DEF TypeOK
    <3>2. ppc' = "loop" /\ apc' = apc /\ dbRow' = dbRow /\ dbLatest' = index
      BY <1>5 DEF AssignDbLatest
    <3>3. synced' => index = dbRow /\ apc \notin {"update", "store"}
      BY <1>5 DEF AssignDbLatest
    <3> QED
      BY <3>1, <3>2, <3>3 DEF SyncOK
  <2>3. GaplessOK'
    BY <1>5 DEF AssignDbLatest, GaplessOK, Reached
  <2> QED
    BY <2>1, <2>2, <2>3
<1>6. CASE PushNext
  <2>1. /\ index \in Numbers /\ index <= head /\ index' = index + 1
        /\ Reached' = Reached \cup {index} /\ index \in Nat
    BY <1>6, ProducerAssumption, BlocksNat
    DEF PushNext, PushMsg, Reached, MinedOK, TypeOK, Numbers
  <2>2. /\ ready' \in [Numbers -> Nat]
        /\ \A b \in Numbers : ready'[b] > 0 => ready[b] > 0 \/ b \in Reached'
    <3>1. ready \in [Numbers -> Nat] /\ index \in Reached'
      BY <2>1 DEF TypeOK
    <3>2. CASE ready' = ready
      BY <3>1, <3>2
    <3>3. CASE ready' = [ready EXCEPT ![index] = ready[index] + 1]
      BY <2>1, <3>1, <3>3
    <3> QED
      BY <1>6, <3>2, <3>3 DEF PushNext, PushMsg
  <2>3. pushed' \subseteq Numbers /\ dropped' \subseteq Numbers
    BY <1>6, <2>1 DEF PushNext, PushMsg, TypeOK
  <2>4. TypeOK'
    <3>1. index' \in Nat
      BY <2>1
    <3> QED
      BY <1>6, <2>2, <2>3, <3>1 DEF PushNext, TypeOK
  <2>5. ConnOK' /\ SyncOK'
    BY <1>6 DEF PushNext, ConnOK, SyncOK
  <2>6. MinedOK'
    BY <1>6, <2>1 DEF PushNext, MinedOK
  <2>7. \A a \in Numbers : a < index + 1 => a \in Reached'
    BY <1>6, <2>1, BlocksNat DEF PushNext, GaplessOK
  <2>8. GaplessOK'
    <3>1. \A b \in Reached', a \in Numbers : a < b => a \in Reached'
      BY <2>1, <2>7, BlocksNat DEF GaplessOK
    <3> QED
      BY <1>6, <2>1, <2>2, <2>7, <3>1 DEF PushNext, GaplessOK
  <2> QED
    BY <2>4, <2>5, <2>6, <2>8
<1>7. CASE LoopEnds
  <2>1. TypeOK' /\ ConnOK' /\ MinedOK' /\ SyncOK'
    BY <1>7 DEF LoopEnds, TypeOK, ConnOK, MinedOK, SyncOK, Reached
  <2>2. GaplessOK'
    BY <1>7, QuietGapless DEF LoopEnds
  <2> QED
    BY <2>1, <2>2
<1> QED
  BY <1>1, <1>2, <1>3, <1>4, <1>5, <1>6, <1>7 DEF StartLoop

(* The steps of receiveACK.                                                  *)
LEMMA ReceiveInv ==
  ASSUME ProducerInv, ReceiveACK
  PROVE  ProducerInv'
<1> USE DEF ProducerInv, rowVars, queueVars, connVars, loopVars, ackVars, historyVars
<1>1. CASE Subscribe
  <2>1. TypeOK' /\ MinedOK' /\ SyncOK'
    BY <1>1 DEF Subscribe, TypeOK, MinedOK, SyncOK, Reached
  <2>2. ConnOK'
    BY <1>1 DEF Subscribe, TypeOK, ConnOK, Handling
  <2>3. GaplessOK'
    BY <1>1, QuietGapless DEF Subscribe
  <2> QED
    BY <2>1, <2>2, <2>3
<1>2. CASE SubscribeFatal
  BY <1>2, ExitInv DEF SubscribeFatal
<1>3. ASSUME doneQ # <<>>
      PROVE  /\ Head(doneQ) \in Numbers /\ Head(doneQ) \in Range(doneQ)
             /\ Tail(doneQ) \in Seq(Numbers) /\ Range(Tail(doneQ)) \subseteq Range(doneQ)
  BY <1>3, SeqRange DEF TypeOK
<1>4. CASE ReceiveDone
  <2>1. /\ num' = Head(doneQ) /\ num' \in Numbers /\ num' \in Range(doneQ)
        /\ doneQ' \in Seq(Numbers) /\ Range(doneQ') \subseteq Range(doneQ)
    BY <1>3, <1>4 DEF ReceiveDone, AckHead, TypeOK
  <2>2. apc' = apc \/ (apc' = "update" /\ doneQ' = doneQ /\ ~(num' < dbLatest))
    BY <1>4, <2>1 DEF ReceiveDone
  <2>3. TypeOK' /\ MinedOK'
    BY <1>4, <2>1, <2>2 DEF ReceiveDone, TypeOK, MinedOK, Reached
  <2>4. ConnOK'
    BY <1>4, <2>2 DEF ReceiveDone, ConnOK, Handling
  <2>5. SyncOK'
    <3>1. num' \in Nat /\ dbLatest \in Nat /\ dbRow \in Nat
      BY <2>1, BlocksNat DEF TypeOK
    <3>2. apc = "range" /\ UNCHANGED <<synced, ppc, dbRow, dbLatest>>
      BY <1>4 DEF ReceiveDone
    <3>3. apc' = "range" \/ (apc' = "update" /\ ~(num' < dbLatest))
      BY <2>2, <3>2
    <3> QED
      BY <3>1, <3>2, <3>3 DEF SyncOK
  <2>6. GaplessOK'
    BY <1>4, <2>1 DEF ReceiveDone, GaplessOK, Reached
  <2> QED
    BY <2>3, <2>4, <2>5, <2>6
<1>5. CASE UpdateRow
  <2>1. TypeOK' /\ ConnOK' /\ MinedOK'
    BY <1>5 DEF UpdateRow, TypeOK, ConnOK, MinedOK, Reached, Handling
  <2>2. SyncOK'
    <3>1. num \in Nat
      BY BlocksNat DEF TypeOK
    <3>2. /\ dbRow' = num \/ dbRow' = dbRow
          /\ apc = "update" /\ apc' = "store" /\ UNCHANGED <<num, synced, ppc>>
      BY <1>5 DEF UpdateRow
    <3> QED
      BY <3>1, <3>2 DEF SyncOK
  <2>3. GaplessOK'
    BY <1>5 DEF UpdateRow, GaplessOK, Reached
  <2> QED
    BY <2>1, <2>2, <2>3
<1>6. CASE StoreDbLatest
  <2>1. TypeOK' /\ ConnOK' /\ MinedOK' /\ SyncOK'
    BY <1>6 DEF StoreDbLatest, TypeOK, ConnOK, MinedOK, SyncOK, Reached, Handling
  <2>2. GaplessOK'
    BY <1>6, QuietGapless DEF StoreDbLatest
  <2> QED
    BY <2>1, <2>2
<1>7. CASE AckDone
  <2>1. doneQ' \in Seq(Numbers) /\ Range(doneQ') \subseteq Range(doneQ)
    BY <1>3, <1>7 DEF AckDone, AckHead, TypeOK, ConnOK, Handling
  <2>2. TypeOK' /\ ConnOK' /\ MinedOK' /\ SyncOK'
    BY <1>7, <2>1 DEF AckDone, TypeOK, ConnOK, MinedOK, SyncOK, Reached, Handling
  <2>3. GaplessOK'
    BY <1>7, <2>1, QuietGapless DEF AckDone
  <2> QED
    BY <2>2, <2>3
<1>8. CASE ReceiverEnds
  <2>1. TypeOK' /\ ConnOK' /\ MinedOK' /\ SyncOK'
    BY <1>8 DEF ReceiverEnds, TypeOK, ConnOK, MinedOK, SyncOK, Reached, Handling
  <2>2. GaplessOK'
    BY <1>8, QuietGapless DEF ReceiverEnds
  <2> QED
    BY <2>1, <2>2
<1> QED
  BY <1>1, <1>2, <1>4, <1>5, <1>6, <1>7, <1>8 DEF ReceiveACK

LEMMA NextInv == ProducerInv /\ [Next]_vars => ProducerInv'
<1> SUFFICES ASSUME ProducerInv, [Next]_vars PROVE ProducerInv'
  OBVIOUS
<1>1. CASE Crash \/ PanicNoHead
  BY <1>1, ExitInv DEF Crash, PanicNoHead
<1>2. CASE UNCHANGED vars
  BY <1>2 DEF vars, rowVars, queueVars, connVars, loopVars, ackVars, historyVars,
              ProducerInv, TypeOK, ConnOK, MinedOK, GaplessOK, SyncOK, Reached
<1> QED
  BY <1>1, <1>2, EnvironmentInv, LoopInv, ReceiveInv DEF Next

(* Every variable of the producer keeps its type.                            *)
THEOREM ProducerTypeCorrect == Spec => []TypeOK
BY InitInv, NextInv, PTL DEF Spec, ProducerInv

(* No block below the watermark was passed over, other than by a failed push.*)
THEOREM NoGapBelowWatermark == Spec => []WatermarkCovered
<1>1. ProducerInv => WatermarkCovered
  <2> SUFFICES ASSUME GaplessOK, NEW b \in Numbers, b < dbRow PROVE b \in Reached
    BY DEF ProducerInv, WatermarkCovered, Reached
  <2>1. dbRow # 0
    BY BlocksNat
  <2> QED
    BY <2>1 DEF GaplessOK
<1> QED
  BY <1>1, InitInv, NextInv, PTL DEF Spec

(* No block number is pushed before the block is mined.                      *)
THEOREM NothingPushedAhead == Spec => []OnlyMinedPushed
<1>1. ProducerInv => OnlyMinedPushed
  BY DEF ProducerInv, MinedOK, OnlyMinedPushed, Reached
<1> QED
  BY <1>1, InitInv, NextInv, PTL DEF Spec

(* Once synced, receiveACK moves the watermark up only.                      *)
THEOREM WatermarkRises == Spec => WatermarkMonotone
<1>1. ProducerInv /\ [Next]_vars => [dbRow' < dbRow => ~synced]_vars
  <2> SUFFICES ASSUME ProducerInv, Next, dbRow' < dbRow, synced PROVE FALSE
    BY DEF vars
  <2>1. UpdateRow \/ dbRow' = dbRow
    BY DEF Next, Mine, BrokerRestart, Crash, IndexerDone, IndexerDeclares,
           IndexerGivesUp, ConnDrop,
           ContinueUpdateBlockNumber, PanicNoHead, ExitProcess,
           StartLoop, Dial, GetLatestBlockNumber, Load, AssignDbLatest, PushNext,
           LoopEnds, ReceiveACK, Subscribe, SubscribeFatal, ReceiveDone,
           StoreDbLatest, AckDone, ReceiverEnds, rowVars
  <2>2. dbRow \in Nat /\ num \in Nat
    BY BlocksNat DEF ProducerInv, TypeOK
  <2> QED
    BY <2>1, <2>2 DEF UpdateRow, ProducerInv, SyncOK
<1> QED
  BY <1>1, InitInv, NextInv, PTL DEF Spec, WatermarkMonotone

-----------------------------------------------------------------------------
(* A process that has dialled has its connection, as long as RabbitMQ and    *)
(* the network keep it.                                                      *)
Connected == (ppc # "dial" => mqConn \in open) /\ dropped = {}

LEMMA NextConnected ==
  ASSUME Faults \cap {"publish", "drop", "broker"} = {}
  PROVE  Connected /\ [Next]_vars => Connected'
<1> SUFFICES ASSUME Connected, [Next]_vars PROVE Connected'
  OBVIOUS
<1> USE DEF Connected, rowVars, queueVars, connVars, loopVars, ackVars, historyVars
<1>1. CASE ExitProcess
  BY <1>1 DEF ExitProcess
<1>2. CASE BrokerRestart \/ \E c \in open : ConnDrop(c)
  BY <1>2 DEF BrokerRestart, ConnDrop, Fault
<1>3. CASE \/ Mine \/ Crash \/ IndexerDeclares \/ PanicNoHead
           \/ \E b \in Numbers : IndexerDone(b) \/ IndexerGivesUp(b)
           \/ UNCHANGED vars
  BY <1>1, <1>3 DEF Mine, Crash, IndexerDeclares, PanicNoHead, IndexerDone,
     IndexerGivesUp, vars
<1>4. CASE ContinueUpdateBlockNumber \/ GetLatestBlockNumber
  <2>1. mqConn' \in open' \/ UNCHANGED <<open, mqConn>>
    BY <1>4 DEF ContinueUpdateBlockNumber, GetLatestBlockNumber, AskHead, MissHead,
       CreateEthClient
  <2>2. dropped' = dropped /\ ppc # "dial"
    BY <1>4 DEF ContinueUpdateBlockNumber, GetLatestBlockNumber, Started
  <2> QED
    BY <2>1, <2>2
<1>5. CASE Dial \/ Load \/ AssignDbLatest \/ LoopEnds
  BY <1>5 DEF Dial, CreateEthClient, Load, AssignDbLatest, LoopEnds
<1>6. CASE PushNext
  BY <1>6 DEF PushNext, PushMsg, Fault
<1>7. CASE ReceiveACK
  BY <1>1, <1>7 DEF ReceiveACK, Subscribe, SubscribeFatal, ReceiveDone, AckHead,
     UpdateRow, StoreDbLatest, AckDone, ReceiverEnds
<1> QED
  BY <1>2, <1>3, <1>4, <1>5, <1>6, <1>7 DEF Next, StartLoop

(* While connections and RabbitMQ stay up, no push is dropped, although a    *)
(* failed push is only logged: whatever the RPC endpoint, MySQL and the      *)
(* restarts of the process do, pushMsg has an open connection to push on.    *)
THEOREM NothingDropped ==
  ASSUME Faults \cap {"publish", "drop", "broker"} = {}
  PROVE  Spec => [](dropped = {})
<1>1. Init => Connected
  BY DEF Init, Connected
<1>2. Connected => dropped = {}
  BY DEF Connected
<1> QED
  BY <1>1, <1>2, NextConnected, PTL DEF Spec

=============================================================================
