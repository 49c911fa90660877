----------------------------- MODULE TxApiProofs -----------------------------
(***************************************************************************)
(* Proofs about TxApi, for every set of transactions, requests and faults: *)
(* only mined transactions are saved, and without restarts of Redis the    *)
(* logs a client was sent stay in the answers to later requests that spell *)
(* the hash as it is saved.                                                *)
(***************************************************************************)
EXTENDS TxApi, TLAPS

(* A request that has begun asks for a transaction; only one that is done    *)
(* has a status; the goroutines that save logs start with the first.         *)
RequestOK ==
  /\ \A r \in Requests : pc[r] # "new" => hash[r] \in TxHashes
  /\ \A r \in Requests : status[r] # 0 => pc[r] = "done"
  /\ \A s \in saves : s.next # 0

(* What is saved, and what a goroutine is about to save, is mined.           *)
MinedOK ==
  /\ \A t \in txRows : chain[t] = "mined"
  /\ \A k \in redisTx : chain[k[2]] = "mined"
  /\ \A s \in saves : s.to \in {"mysqlTx", "redisTx"} => chain[s.tx] = "mined"

TxInv == TypeOK /\ RequestOK /\ MinedOK

(* What was read is in Redis; so is what was sent before, and the SCAN of a  *)
(* later request has found it.                                               *)
LogsOK ==
  \A r \in Requests :
    /\ pc[r] = "new" => got[r] = {} /\ scan[r] = {}
    /\ got[r] \subseteq redisLogs \cap LogsOf(hash[r])
    /\ earlier[r] \subseteq redisLogs \cap LogsOf(hash[r])
    /\ scan[r] \subseteq redisLogs
    /\ pc[r] = "read" /\ canonical[r] => earlier[r] \subseteq scan[r]
    /\ status[r] = 200 /\ canonical[r] => earlier[r] \subseteq scan[r]

-----------------------------------------------------------------------------
LEMMA LogKeysOf ==
  ASSUME NEW t \in TxHashes
  PROVE  /\ LogsOf(t) \subseteq LogKeys
         /\ \A j \in Nat \ {0} : j <= Logs[t] => <<t, j>> \in LogsOf(t)
BY TxApiAssumption DEF LogKeys, LogsOf

LEMMA InitTx == Init => TxInv /\ LogsOK
BY TxApiAssumption DEF Init, TxInv, TypeOK, RequestOK, MinedOK, LogsOK, Pcs

LEMMA MineTx ==
  ASSUME TxInv, NEW t \in TxHashes, Mine(t)
  PROVE  TxInv'
BY DEF Mine, TxInv, TypeOK, RequestOK, MinedOK, storeVars, paramVars, localVars

LEMMA EnvironmentTx ==
  ASSUME TxInv, RedisRestart \/ Exit \/ \E t \in TxHashes : IndexerStores(t)
  PROVE  TxInv'
<1>1. CASE RedisRestart
  BY <1>1 DEF RedisRestart, TxInv, TypeOK, RequestOK, MinedOK, paramVars, localVars
<1>2. CASE Exit
  BY <1>2 DEF Exit, TxInv, TypeOK, RequestOK, MinedOK, storeVars, paramVars, localVars, Pcs
<1>3. ASSUME NEW t \in TxHashes, IndexerStores(t) PROVE TxInv'
  BY <1>3 DEF IndexerStores, TxInv, TypeOK, RequestOK, MinedOK, paramVars, localVars
<1> QED
  BY <1>1, <1>2, <1>3

(* The goroutines that save.                                                 *)
LEMMA SaveTx ==
  ASSUME TxInv, Save
  PROVE  TxInv'
<1> PICK s \in saves : SaveRows(s) \/ SaveLogRow(s) \/ SaveFails(s)
  BY DEF Save
<1> USE DEF Save, TxInv, TypeOK, RequestOK, MinedOK, paramVars, localVars
<1>1. s.tx \in TxHashes /\ s.next \in Nat \ {0} /\ LogsOf(s.tx) \subseteq LogKeys
  BY LogKeysOf
<1>2. CASE SaveRows(s)
  <2>1. <<BlockOf[s.tx], s.tx>> \in Nat \X TxHashes
    BY <1>1, TxApiAssumption
  <2>2. MinedOK'
    BY <1>1, <1>2 DEF SaveRows
  <2> QED
    BY <1>1, <1>2, <2>1, <2>2 DEF SaveRows
<1>3. CASE SaveLogRow(s)
  <2>1. CASE s.next > Logs[s.tx]
    BY <1>3, <2>1 DEF SaveLogRow
  <2>2. CASE ~(s.next > Logs[s.tx])
    <3>1. Logs[s.tx] \in Nat
      BY <1>1, TxApiAssumption
    <3>2. <<s.tx, s.next>> \in LogKeys
      BY <1>1, <2>2, <3>1, LogKeysOf
    <3> DEFINE n == [s EXCEPT !.next = @ + 1]
    <3>3. /\ n \in [to : {"mysqlTx", "redisTx", "mysqlLogs", "redisLogs"},
                    tx : TxHashes, next : Nat]
          /\ n.next # 0 /\ n.to = "redisLogs"
      BY <1>1, <1>3 DEF SaveLogRow
    <3>4. saves' = (saves \ {s}) \cup {n} /\ redisLogs' = redisLogs \cup {<<s.tx, s.next>>}
      BY <1>3, <2>2 DEF SaveLogRow
    <3> HIDE DEF n
    <3> QED
      BY <1>3, <3>2, <3>3, <3>4 DEF SaveLogRow
  <2> QED
    BY <2>1, <2>2
<1>4. CASE SaveFails(s)
  BY <1>4 DEF SaveFails, storeVars
<1> QED
  BY <1>2, <1>3, <1>4

LEMMA RequestTx ==
  ASSUME TxInv, NEW r \in Requests, Request(r)
  PROVE  TxInv'
<1> USE DEF TxInv, TypeOK, RequestOK, MinedOK, Request, GoTo, storeVars, paramVars, localVars
<1> PICK t \in TxHashes : /\ hash' = [hash EXCEPT ![r] = t]
                          /\ earlier' = [earlier EXCEPT ![r] = Sent(t)]
  OBVIOUS
<1>1. Sent(t) \in SUBSET LogKeys
  BY DEF Sent
<1> QED
  BY <1>1 DEF Pcs

(* A failed attempt of a scanner, or an answer.                              *)
LEMMA FailTx ==
  ASSUME TxInv, NEW r \in Requests, Fail(r), pc[r] # "new"
  PROVE  /\ tries' \in [Requests -> 0 .. MaxRetryTime - 1]
         /\ status' \in [Requests -> {0, 200, 404, 500}]
         /\ pc' \in [Requests -> Pcs]
         /\ \A q \in Requests : pc'[q] # "new" => pc[q] # "new"
         /\ \A q \in Requests : status'[q] # 0 => pc'[q] = "done"
         /\ \A q \in Requests : status'[q] = 200 => status[q] = 200
<1> USE DEF TxInv, TypeOK, RequestOK
<1>1. CASE /\ tries[r] + 1 < MaxRetryTime
           /\ tries' = [tries EXCEPT ![r] = @ + 1] /\ UNCHANGED <<pc, status>>
  BY <1>1, TxApiAssumption
<1>2. CASE (Answer(r, 404) \/ Answer(r, 500)) /\ UNCHANGED tries
  BY <1>2 DEF Answer, GoTo, Pcs
<1> QED
  BY <1>1, <1>2 DEF Fail

LEMMA GoSaveTx ==
  ASSUME TxInv, NEW t \in TxHashes,
         NEW kinds \in SUBSET {"mysqlTx", "redisTx", "mysqlLogs", "redisLogs"}, GoSave(kinds, t),
         kinds \cap {"mysqlTx", "redisTx"} # {} => chain[t] = "mined"
  PROVE  /\ saves' \subseteq [to : {"mysqlTx", "redisTx", "mysqlLogs", "redisLogs"},
                              tx : TxHashes, next : Nat]
         /\ \A s \in saves' : s.next # 0
         /\ \A s \in saves' : s.to \in {"mysqlTx", "redisTx"} => chain[s.tx] = "mined"
<1> DEFINE new == [to : kinds, tx : {t}, next : {1}]
<1>1. ASSUME NEW s \in new
      PROVE  /\ s \in [to : {"mysqlTx", "redisTx", "mysqlLogs", "redisLogs"},
                       tx : TxHashes, next : Nat]
             /\ s.next # 0 /\ s.tx = t /\ s.to \in kinds
  <2>1. s.to \in kinds /\ s.tx = t /\ s.next = 1
    OBVIOUS
  <2>2. s = [to |-> s.to, tx |-> s.tx, next |-> s.next]
    OBVIOUS
  <2>3. s.to \in {"mysqlTx", "redisTx", "mysqlLogs", "redisLogs"}
    BY <2>1
  <2> HIDE DEF new
  <2> QED
    BY <2>1, <2>2, <2>3
<1>2. saves' = saves \cup new
  BY DEF GoSave
<1> HIDE DEF new
<1> QED
  BY <1>1, <1>2 DEF TxInv, TypeOK, RequestOK, MinedOK

LEMMA HandlerTx ==
  ASSUME TxInv, NEW r \in Requests, GetTransaction(r)
  PROVE  TxInv'
<1> USE DEF TxInv, TypeOK, RequestOK, MinedOK, storeVars, paramVars, localVars
<1>1. pc[r] # "new" /\ hash[r] \in TxHashes
  BY DEF GetTransaction, TxFromRedis, TxDetail, Receipt, LogsFromRPC, ScanLogs, ReadLog
<1>2. CASE TxFromRedis(r)
  BY <1>2 DEF TxFromRedis, GoTo, Pcs
<1>3. CASE TxDetail(r)
  <2>1. CASE pending' = [pending EXCEPT ![r] = chain[hash[r]] = "pending"]
             /\ tries' = [tries EXCEPT ![r] = 0]
             /\ ((\E c \in {404, 500} : Answer(r, c)) \/ (GoTo(r, "receipt") /\ UNCHANGED status))
    BY <1>1, <1>3, <2>1, TxApiAssumption DEF TxDetail, Answer, GoTo, Pcs
  <2>2. CASE Fail(r) /\ UNCHANGED pending
    BY <1>1, <1>3, <2>2, FailTx DEF TxDetail
  <2> QED
    BY <1>3, <2>1, <2>2 DEF TxDetail
<1>4. CASE Receipt(r)
  <2>1. CASE GoSave({"mysqlTx", "redisTx"}, hash[r]) /\ chain[hash[r]] = "mined"
             /\ GoTo(r, IF pending[r] THEN "scan" ELSE "logs") /\ UNCHANGED status
    BY <1>1, <1>4, <2>1, GoSaveTx DEF Receipt, GoTo, Pcs
  <2>2. CASE Answer(r, 404) /\ UNCHANGED saves
    BY <1>1, <1>4, <2>2 DEF Receipt, Answer, GoTo, Pcs
  <2> QED
    BY <1>4, <2>1, <2>2 DEF Receipt
<1>5. CASE LogsFromRPC(r)
  <2>1. CASE GoSave({"mysqlLogs", "redisLogs"}, hash[r]) /\ GoTo(r, "scan")
             /\ tries' = [tries EXCEPT ![r] = 0] /\ UNCHANGED status
    BY <1>1, <1>5, <2>1, GoSaveTx, TxApiAssumption DEF LogsFromRPC, GoTo, Pcs
  <2>2. CASE Fail(r) /\ UNCHANGED saves
    BY <1>1, <1>5, <2>2, FailTx DEF LogsFromRPC
  <2> QED
    BY <1>5, <2>1, <2>2 DEF LogsFromRPC
<1>6. CASE ScanLogs(r)
  BY <1>1, <1>6, LogKeysOf DEF ScanLogs, Matching, GoTo, Pcs
<1>7. CASE ReadLog(r)
  BY <1>1, <1>7, LogKeysOf DEF ReadLog, Matching, Answer, GoTo, Pcs
<1> QED
  BY <1>2, <1>3, <1>4, <1>5, <1>6, <1>7 DEF GetTransaction

LEMMA StepTx == TxInv /\ [Next]_vars => TxInv'
<1> SUFFICES ASSUME TxInv, [Next]_vars PROVE TxInv'
  OBVIOUS
<1>1. CASE UNCHANGED vars
  BY <1>1 DEF vars, storeVars, paramVars, localVars, TxInv, TypeOK, RequestOK, MinedOK
<1>2. CASE Next
  BY <1>2, MineTx, EnvironmentTx, SaveTx, RequestTx, HandlerTx DEF Next
<1> QED
  BY <1>1, <1>2

(* Types, for every chain, whatever fails.                                   *)
THEOREM TxTypeCorrect == Spec => []TypeOK
<1>1. Init => TxInv
  BY InitTx
<1>2. TxInv => TypeOK
  BY DEF TxInv
<1> QED
  BY <1>1, <1>2, StepTx, PTL DEF Spec

(* No store holds the row of a transaction that is not mined, whatever fails *)
(* and whenever the transaction is mined between the calls of a request.     *)
THEOREM SavedIsMined == Spec => []OnlyMinedSaved
<1>1. Init => TxInv
  BY InitTx
<1>2. TxInv => OnlyMinedSaved
  <2> SUFFICES ASSUME TxInv, NEW t \in TxHashes,
                      t \in txRows \/ <<BlockOf[t], t>> \in redisTx
               PROVE  chain[t] = "mined"
    BY DEF OnlyMinedSaved
  <2>1. <<BlockOf[t], t>>[2] = t
    OBVIOUS
  <2> QED
    BY <2>1 DEF TxInv, MinedOK
<1> QED
  BY <1>1, <1>2, StepTx, PTL DEF Spec

-----------------------------------------------------------------------------
(* Redis only gains logs: what its faults would take away stays.             *)
LEMMA LogsKept ==
  ASSUME TxInv, [Next]_vars, ~Fault("wipe")
  PROVE  redisLogs \subseteq redisLogs'
<1> USE DEF storeVars, paramVars, localVars
<1>1. CASE UNCHANGED vars
  BY <1>1 DEF vars
<1>2. CASE Save
  BY <1>2 DEF Save, SaveRows, SaveLogRow, SaveFails
<1>3. CASE RedisRestart \/ Exit \/ \E t \in TxHashes : Mine(t) \/ IndexerStores(t)
  BY <1>3 DEF Mine, IndexerStores, RedisRestart, Exit
<1>4. CASE \E r \in Requests : Request(r) \/ GetTransaction(r)
  BY <1>4 DEF Request, GetTransaction, TxFromRedis, TxDetail, Receipt,
              LogsFromRPC, ScanLogs, ReadLog
<1> QED
  BY <1>1, <1>2, <1>3, <1>4 DEF Next

(* A step that is not one of a request about logs.                           *)
LEMMA OtherLogs ==
  ASSUME TxInv, LogsOK, [Next]_vars, ~Fault("wipe"),
         UNCHANGED <<hash, canonical, scan, got, earlier>>,
         \A q \in Requests : pc'[q] \in {"new", "read"} => pc[q] = pc'[q],
         \A q \in Requests : status'[q] = 200 => status[q] = 200
  PROVE  LogsOK'
BY LogsKept DEF LogsOK

LEMMA RequestLogs ==
  ASSUME TxInv, LogsOK, NEW r \in Requests, Request(r)
  PROVE  LogsOK'
<1> USE DEF TxInv, TypeOK, RequestOK, LogsOK, Request, GoTo, storeVars, paramVars, localVars
<1> PICK t \in TxHashes : /\ hash' = [hash EXCEPT ![r] = t]
                          /\ earlier' = [earlier EXCEPT ![r] = Sent(t)]
  OBVIOUS
<1>1. ASSUME NEW k \in Sent(t) PROVE k \in redisLogs \cap LogsOf(t)
  <2> PICK q \in Requests : hash[q] = t /\ status[q] = 200 /\ k \in got[q]
    BY DEF Sent
  <2> QED
    OBVIOUS
<1>2. status[r] = 0 /\ got[r] = {} /\ scan[r] = {}
  OBVIOUS
<1> QED
  BY <1>1, <1>2

(* SCAN finds what was sent before; a key that is found is not gone later.   *)
LEMMA ReadLogs ==
  ASSUME TxInv, LogsOK, NEW r \in Requests, ScanLogs(r) \/ ReadLog(r)
  PROVE  LogsOK'
<1> USE DEF TxInv, TypeOK, RequestOK, LogsOK, GoTo, storeVars, paramVars, localVars
<1>1. CASE ScanLogs(r)
  BY <1>1 DEF ScanLogs, Matching
<1>2. CASE ReadLog(r)
  <2>1. scan[r] \subseteq redisLogs
    OBVIOUS
  <2>2. CASE /\ \E k \in redisLogs \cap LogsOf(hash[r]) : got' = [got EXCEPT ![r] = @ \cup {k}]
             /\ UNCHANGED <<pc, scan, status>>
    BY <1>2, <2>2 DEF ReadLog
  <2>3. CASE \E code \in {200, 404} : Answer(r, code) /\ UNCHANGED <<scan, got>>
    BY <1>2, <2>3 DEF ReadLog, Answer
  <2> QED
    BY <1>2, <2>1, <2>2, <2>3 DEF ReadLog, Matching
<1> QED
  BY <1>1, <1>2

LEMMA HandlerLogs ==
  ASSUME TxInv, LogsOK, NEW r \in Requests, ~Fault("wipe"),
         TxFromRedis(r) \/ TxDetail(r) \/ Receipt(r) \/ LogsFromRPC(r)
  PROVE  LogsOK'
<1> USE DEF storeVars, paramVars, localVars
<1>1. [Next]_vars
  BY DEF Next, GetTransaction
<1>2. /\ UNCHANGED <<hash, canonical, scan, got, earlier>>
      /\ pc[r] \notin {"new", "read"}
  BY DEF TxFromRedis, TxDetail, Receipt, LogsFromRPC
<1>3. /\ \A q \in Requests : pc'[q] \in {"new", "read"} => pc[q] = pc'[q]
      /\ \A q \in Requests : status'[q] = 200 => status[q] = 200
  <2> USE DEF TxInv, TypeOK, GoTo, Answer
  <2>1. CASE TxFromRedis(r)
    BY <2>1 DEF TxFromRedis
  <2>2. CASE TxDetail(r)
    BY <2>2 DEF TxDetail, Fail
  <2>3. CASE Receipt(r)
    BY <2>3 DEF Receipt
  <2>4. CASE LogsFromRPC(r)
    BY <2>4 DEF LogsFromRPC, Fail
  <2> QED
    BY <2>1, <2>2, <2>3, <2>4
<1> QED
  BY <1>1, <1>2, <1>3, OtherLogs

LEMMA StepLogs ==
  ASSUME ~Fault("wipe")
  PROVE  TxInv /\ LogsOK /\ [Next]_vars => LogsOK'
<1> SUFFICES ASSUME TxInv, LogsOK, [Next]_vars PROVE LogsOK'
  OBVIOUS
<1> USE DEF storeVars, paramVars, localVars
<1>1. CASE UNCHANGED vars
  BY <1>1, OtherLogs DEF vars
<1>2. CASE Save
  BY <1>2, OtherLogs DEF Save
<1>3. CASE \E t \in TxHashes : Mine(t) \/ IndexerStores(t)
  BY <1>3, OtherLogs DEF Mine, IndexerStores
<1>4. CASE Exit
  <2>1. \A q \in Requests : pc'[q] \in {"new", "read"} => pc[q] = pc'[q]
    BY <1>4 DEF Exit, TxInv, TypeOK
  <2> QED
    BY <1>4, <2>1, OtherLogs DEF Exit
<1>5. ~RedisRestart
  BY DEF RedisRestart
<1>6. CASE \E r \in Requests : Request(r) \/ GetTransaction(r)
  BY <1>6, RequestLogs, ReadLogs, HandlerLogs DEF GetTransaction
<1> QED
  BY <1>1, <1>2, <1>3, <1>4, <1>5, <1>6 DEF Next

(* As long as Redis does not restart, logs a client was sent are in every    *)
(* later answer to a request that spells the hash as it is saved and that no *)
(* error of SCAN cut short, whatever requests, in whatever spelling, and     *)
(* saves come in between, and whatever fails.                                *)
THEOREM SentLogsStay ==
  ASSUME ~Fault("wipe")
  PROVE  Spec => []NeverFewerLogs
<1>1. Init => TxInv /\ LogsOK
  BY InitTx
<1>2. TxInv /\ LogsOK /\ [Next]_vars => TxInv' /\ LogsOK'
  BY StepTx, StepLogs
<1>3. LogsOK => NeverFewerLogs
  BY DEF LogsOK, NeverFewerLogs, CutShort
<1> QED
  BY <1>1, <1>2, <1>3, PTL DEF Spec

-----------------------------------------------------------------------------
(* Why every request is answered.                                            *)

Place == [new |-> 0, redisTx |-> 1, detail |-> 2, receipt |-> 3, logs |-> 4,
          scan |-> 5, read |-> 6, done |-> 7, cut |-> 7]

(* The request is further on than before, or has one attempt less, one key   *)
(* less to read, or one log more: there are MaxRetryTime attempts at a place *)
(* (TypeOK), and a SCAN returns a finite list of keys.                       *)
Closer(r) ==
  \/ Place[pc[r]] < Place[pc'[r]]
  \/ /\ pc'[r] = pc[r] /\ hash'[r] = hash[r]
     /\ \/ tries'[r] = tries[r] + 1 /\ scan'[r] = scan[r] /\ got'[r] = got[r]
        \/ /\ pc[r] = "read" /\ tries'[r] = tries[r] /\ scan'[r] = scan[r]
           /\ \E k \in LogsOf(hash[r]) \ got[r] : got'[r] = got[r] \cup {k}
        \/ /\ pc[r] = "read" /\ tries'[r] = tries[r] /\ got'[r] = got[r]
           /\ \E k \in scan[r] : scan'[r] = scan[r] \ {k}

Untouched(r) ==
  /\ pc'[r] = pc[r] /\ hash'[r] = hash[r] /\ tries'[r] = tries[r]
  /\ scan'[r] = scan[r] /\ got'[r] = got[r]

(* Whatever a step of the handler meets, it brings the request closer.       *)
LEMMA HandlerCloser ==
  ASSUME TxInv, NEW r \in Requests, GetTransaction(r)
  PROVE  Closer(r)
<1> USE DEF TxInv, TypeOK, GoTo, Answer, Closer, Place, paramVars, localVars
<1>1. CASE TxFromRedis(r)
  BY <1>1 DEF TxFromRedis
<1>2. CASE TxDetail(r)
  <2>1. CASE Fail(r)
    BY <1>2, <2>1 DEF TxDetail, Fail
  <2>2. CASE pc'[r] \in {"done", "receipt"}
    BY <1>2, <2>2 DEF TxDetail
  <2> QED
    BY <1>2, <2>1, <2>2 DEF TxDetail
<1>3. CASE Receipt(r)
  BY <1>3 DEF Receipt
<1>4. CASE LogsFromRPC(r)
  BY <1>4 DEF LogsFromRPC, Fail
<1>5. CASE ScanLogs(r)
  BY <1>5 DEF ScanLogs
<1>6. CASE ReadLog(r)
  BY <1>6 DEF ReadLog, Matching
<1> QED
  BY <1>1, <1>2, <1>3, <1>4, <1>5, <1>6 DEF GetTransaction

(* Nobody else sets a request back.                                          *)
LEMMA OthersLeave ==
  ASSUME TxInv, [Next]_vars, NEW r \in Requests, ~GetTransaction(r)
  PROVE  Closer(r) \/ Untouched(r)
<1> USE DEF Untouched, paramVars, localVars
<1>1. CASE Save \/ RedisRestart \/ (\E t \in TxHashes : Mine(t) \/ IndexerStores(t))
           \/ UNCHANGED vars
  BY <1>1 DEF Save, RedisRestart, Mine, IndexerStores, vars
<1>2. CASE Exit
  BY <1>2 DEF Exit, TxInv, TypeOK, Pcs, Closer, Place
<1>3. ASSUME NEW q \in Requests, Request(q) PROVE Closer(r) \/ Untouched(r)
  BY <1>3 DEF Request, GoTo, TxInv, TypeOK, Closer, Place
<1>4. ASSUME NEW q \in Requests, GetTransaction(q) PROVE Untouched(r)
  <2>1. q # r
    BY <1>4
  <2> USE DEF TxInv, TypeOK, GoTo, Answer
  <2>2. CASE TxFromRedis(q) \/ Receipt(q) \/ ScanLogs(q) \/ ReadLog(q)
    BY <2>1, <2>2 DEF TxFromRedis, Receipt, ScanLogs, ReadLog
  <2>3. CASE TxDetail(q) \/ LogsFromRPC(q)
    BY <2>1, <2>3 DEF TxDetail, LogsFromRPC, Fail
  <2> QED
    BY <1>4, <2>2, <2>3 DEF GetTransaction
<1> QED
  BY <1>1, <1>2, <1>3, <1>4 DEF Next

(* A request is answered after a bounded number of steps of its handler, for *)
(* every MAX_RETRY_TIME and whatever fails: each step brings it closer to    *)
(* its answer, and no other request, save, failure or restart sets it back.  *)
THEOREM AnswerGetsCloser ==
  Spec => [][\A r \in Requests : Closer(r) \/ (Untouched(r) /\ ~GetTransaction(r))]_vars
<1>1. Init => TxInv
  BY InitTx
<1>2. TxInv /\ [Next]_vars
        => [\A r \in Requests : Closer(r) \/ (Untouched(r) /\ ~GetTransaction(r))]_vars
  BY HandlerCloser, OthersLeave
<1> QED
  BY <1>1, <1>2, StepTx, PTL DEF Spec

=============================================================================
