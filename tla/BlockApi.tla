------------------------------ MODULE BlockApi -------------------------------
(***************************************************************************)
(* The handlers ListBlocks and GetBlock of api_service over Redis, MySQL   *)
(* and the RPC endpoint.  A handler asks one after the other and keeps the *)
(* first answer it takes for complete; what the RPC endpoint said is saved *)
(* to both stores by goroutines that outlive the request.                  *)
(*                                                                         *)
(* A block stands for its row (number, hash, parent, time), and <<b, i>>   *)
(* for the row of its i-th transaction.                                    *)
(***************************************************************************)
EXTENDS Integers, Sequences, FiniteSets, Functions

CONSTANTS
  Lists,          (* the requests for ListBlocks, each handled once          *)
  Gets,           (* the requests for GetBlock                               *)
  MaxHead,        (* bound: the highest block mined                          *)
  Txs,            (* Txs[b]: number of transactions of block b               *)
  HashRank,       (* HashRank[b]: place of b's hash in the order of hashes   *)
  Limits,         (* the limits clients ask ListBlocks for, small enough for *)
                  (* make to allocate                                        *)
  UintSize,       (* 2^64: what a Go uint64 wraps at                         *)
  MaxRetryTime,   (* MAX_RETRY_TIME of the configuration                     *)
  Faults,         (* the kinds of failure the environment may cause          *)
  None

Blocks == 0 .. MaxHead
Requests == Lists \cup Gets

FaultKinds == {"rpc", "redis", "mysql", "save", "wipe", "exit"}

ASSUME BlockApiAssumption ==
  /\ MaxHead \in Nat
  /\ Txs \in [Blocks -> Nat]
  /\ HashRank \in [Blocks -> Nat] /\ IsInjective(HashRank)
  /\ UintSize \in Nat /\ MaxHead < UintSize
  /\ Limits \subseteq 0 .. UintSize - 1
  /\ MaxRetryTime \in Nat \ {0}
  /\ Faults \subseteq FaultKinds
  /\ None \notin Blocks

VARIABLES
  head,     (* the last block mined                                          *)
  redis,    (* the numbers n with a key BlockRow:n in Redis                  *)
  rows,     (* the table block in MySQL                                      *)
  txRows,   (* the table tx in MySQL                                         *)
  unsaved,  (* history: blocks of which a save to MySQL failed or was cut    *)
  saves,    (* the goroutines saving block rows: [to, left]                  *)
  pc,       (* where each request is                                         *)
  arg,      (* the limit or the block number it asks for                     *)
  latest,   (* latestBlockNumber of ListBlocks                               *)
  done,     (* how many numbers the loop over the store or RPC has done      *)
  tries,    (* failed attempts of BlockByNumber in a row                     *)
  detail,   (* the block whose row getBlockDetail found                      *)
  answer    (* what was sent: [status, blocks, txs]                          *)

storeVars == <<redis, rows, txRows, unsaved>>
localVars == <<arg, latest, done, tries, detail>>
vars == <<head, storeVars, saves, pc, localVars, answer>>

ListPcs == {"head", "listRedis", "listMysql", "listRpc"}
BlockPcs == {"rowRedis", "rowMysql", "rowRpc", "txMysql", "txRpc"}
Pcs == {"new", "done", "cut"} \cup ListPcs \cup BlockPcs

Fault(f) == f \in Faults

Init ==
  /\ head = 0
  /\ redis = {} /\ rows = {} /\ txRows = {} /\ saves = {} /\ unsaved = {}
  /\ pc = [r \in Requests |-> "new"]
  /\ arg = [r \in Requests |-> 0]
  /\ latest = [r \in Requests |-> 0]
  /\ done = [r \in Requests |-> 0]
  /\ tries = [r \in Requests |-> 0]
  /\ detail = [r \in Requests |-> None]
  /\ answer = [r \in Requests |-> None]

-----------------------------------------------------------------------------
(* Everything around the handlers.                                           *)

Mine ==
  /\ head < MaxHead
  /\ head' = head + 1
  /\ UNCHANGED <<storeVars, saves, pc, localVars, answer>>

(* The indexer, or a handler of transactions, inserts rows of mined blocks:  *)
(* the two tables are written by different goroutines, in any order.         *)
IndexerStores ==
  /\ \E b \in 0 .. head :
       \/ rows' = rows \cup {b} /\ UNCHANGED txRows
       \/ \E i \in 1 .. Txs[b] : txRows' = txRows \cup {<<b, i>>} /\ UNCHANGED rows
  /\ UNCHANGED <<head, redis, unsaved, saves, pc, localVars, answer>>

(* Redis keeps nothing across a restart.                                     *)
RedisRestart ==
  /\ Fault("wipe")
  /\ redis' = {}
  /\ UNCHANGED <<head, rows, txRows, unsaved, saves, pc, localVars, answer>>

ToMysql == {s \in saves : s.to = "mysql"}

(* The process ends: open requests get no answer, saves are not finished.    *)
Exit ==
  /\ Fault("exit")
  /\ saves' = {}
  /\ unsaved' = unsaved \cup UNION {Range(s.left) : s \in ToMysql}
  /\ pc' = [r \in Requests |-> IF pc[r] \in {"new", "done"} THEN pc[r] ELSE "cut"]
  /\ UNCHANGED <<head, redis, rows, txRows, localVars, answer>>

-----------------------------------------------------------------------------
(* Saving block rows.  MySQL takes them in one INSERT IGNORE, Redis key by   *)
(* key until one fails; nobody hears of an error.  Two goroutines saving the *)
(* same rows are one: the second changes nothing.                            *)

(* Mutant: MySQL is left to the indexer.                                     *)
GoSaveToRedisOnly(blocks) ==
  saves' = saves \cup [to : {"redis"}, left : {blocks}]

GoSaveBlockRows(blocks) ==
  saves' = saves \cup [to : {"mysql", "redis"}, left : {blocks}]

SaveMysql(s) ==
  /\ s.to = "mysql"
  /\ \/ rows' = rows \cup Range(s.left) /\ UNCHANGED unsaved
     \/ /\ Fault("save")
        /\ unsaved' = unsaved \cup Range(s.left)
        /\ UNCHANGED rows
  /\ saves' = saves \ {s}
  /\ UNCHANGED redis

SaveRedis(s) ==
  /\ s.to = "redis"
  /\ \/ /\ s.left # <<>>
        /\ redis' = redis \cup {Head(s.left)}
        /\ saves' = (saves \ {s}) \cup {[s EXCEPT !.left = Tail(@)]}
     \/ /\ s.left = <<>> \/ Fault("save")
        /\ saves' = saves \ {s}
        /\ UNCHANGED redis
  /\ UNCHANGED <<rows, unsaved>>

SaveBlockRows ==
  /\ \E s \in saves : SaveMysql(s) \/ SaveRedis(s)
  /\ UNCHANGED <<head, txRows, pc, localVars, answer>>

-----------------------------------------------------------------------------
GoTo(r, label) == pc' = [pc EXCEPT ![r] = label]

Answer(r, status, blocks, txs) ==
  /\ GoTo(r, "done")
  /\ answer' = [answer EXCEPT ![r] = [status |-> status, blocks |-> blocks, txs |-> txs]]

(* BlockByNumber fails: the endpoint does, or the block is not there yet.    *)
RpcFails(b) == Fault("rpc") \/ b > head

(* Mutant: the count of attempts starts over: the loop has no end.           *)
RetryForever(r) ==
  /\ tries' = [tries EXCEPT ![r] = (@ + 1) % MaxRetryTime]
  /\ UNCHANGED <<done, pc, answer>>

(* Mutant: one attempt too many.                                             *)
RetryOnceMore(r) ==
  /\ tries[r] < MaxRetryTime
  /\ tries' = [tries EXCEPT ![r] = @ + 1]
  /\ UNCHANGED <<done, pc, answer>>

(* A failed attempt that is not the last: wait and try again.                *)
Retry(r) ==
  /\ tries[r] + 1 < MaxRetryTime
  /\ tries' = [tries EXCEPT ![r] = @ + 1]
  /\ UNCHANGED <<done, pc, answer>>

LastTry(r) == tries[r] + 1 = MaxRetryTime

(* createClient cannot dial, or could not for an earlier call and left no    *)
(* client: the scanner panics, and gin answers with 500.                     *)
Panic(r) == Fault("rpc") /\ Answer(r, 500, {}, {}) /\ UNCHANGED <<done, tries>>

-----------------------------------------------------------------------------
(* ListBlocks.                                                               *)

RequestList(r) ==
  /\ pc[r] = "new"
  /\ \E limit \in Limits : arg' = [arg EXCEPT ![r] = limit]
  /\ GoTo(r, "head")
  /\ UNCHANGED <<head, storeVars, saves, latest, done, tries, detail, answer>>

(* The loop "for i := latest; i > latest-limit; i--" in uint64: none when    *)
(* the difference wraps.                                                     *)
Window(r) ==
  {i \in 0 .. latest[r] : i > (latest[r] + UintSize - arg[r]) % UintSize}

(* ethClient.BlockNumber, asked once.                                        *)
AskHead(r) ==
  /\ pc[r] = "head"
  /\ \/ /\ latest' = [latest EXCEPT ![r] = head]
        /\ GoTo(r, "listRedis")
        /\ UNCHANGED answer
     \/ Fault("rpc") /\ Answer(r, 404, {}, {}) /\ UNCHANGED latest
  /\ UNCHANGED <<head, storeVars, saves, arg, done, tries, detail>>

NextNumber(r) == latest[r] - done[r]

(* Redis is asked for one key after the other; the first that is missing     *)
(* sends the whole list to MySQL, and so does a list that is not the limit.  *)
ListFromRedis(r) ==
  /\ pc[r] = "listRedis"
  /\ \/ /\ done[r] < Cardinality(Window(r))
        /\ NextNumber(r) \in redis
        /\ done' = [done EXCEPT ![r] = @ + 1]
        /\ UNCHANGED <<pc, answer>>
     \/ /\ done[r] < Cardinality(Window(r))
        /\ NextNumber(r) \notin redis \/ Fault("redis")
        /\ GoTo(r, "listMysql")
        /\ UNCHANGED <<done, answer>>
     \/ /\ done[r] = Cardinality(Window(r))
        /\ IF done[r] = arg[r]
           THEN Answer(r, 200, Window(r), {})
           ELSE GoTo(r, "listMysql") /\ UNCHANGED answer
        /\ UNCHANGED done
  /\ UNCHANGED <<head, storeVars, saves, arg, latest, tries, detail>>

(* Mutant: whatever MySQL has is good enough.                                *)
ListFromMysqlAny(r) ==
  LET found == Window(r) \cap rows IN
  /\ pc[r] = "listMysql"
  /\ \/ found # {} /\ Answer(r, 200, found, {}) /\ UNCHANGED done
     \/ /\ found = {} \/ Fault("mysql")
        /\ GoTo(r, "listRpc")
        /\ done' = [done EXCEPT ![r] = 0]
        /\ UNCHANGED answer
  /\ UNCHANGED <<head, storeVars, saves, arg, latest, tries, detail>>

ListFromMysql(r) ==
  LET found == Window(r) \cap rows IN
  /\ pc[r] = "listMysql"
  /\ \/ /\ Cardinality(found) = arg[r]
        /\ Answer(r, 200, found, {})
        /\ UNCHANGED done
     \/ /\ Cardinality(found) # arg[r] \/ Fault("mysql")
        /\ GoTo(r, "listRpc")
        /\ done' = [done EXCEPT ![r] = 0]
        /\ UNCHANGED answer
  /\ UNCHANGED <<head, storeVars, saves, arg, latest, tries, detail>>

WindowDown(r) == [k \in 1 .. Cardinality(Window(r)) |-> latest[r] - k + 1]

(* One attempt at BlockByNumber for the next number; when a number fails for *)
(* good, listBlocks drops the error and the client gets 200 and no blocks.   *)
ListFromRPC(r) ==
  /\ pc[r] = "listRpc"
  /\ \/ /\ done[r] < Cardinality(Window(r))
        /\ done' = [done EXCEPT ![r] = @ + 1]
        /\ tries' = [tries EXCEPT ![r] = 0]
        /\ UNCHANGED <<pc, saves, answer>>
     \/ /\ done[r] < Cardinality(Window(r))
        /\ RpcFails(NextNumber(r))
        /\ \/ Retry(r) \/ Panic(r)
           \/ LastTry(r) /\ Answer(r, 200, {}, {}) /\ UNCHANGED <<done, tries>>
        /\ UNCHANGED saves
     \/ /\ done[r] = Cardinality(Window(r))
        /\ GoSaveBlockRows(WindowDown(r))
        /\ Answer(r, 200, Window(r), {})
        /\ UNCHANGED <<done, tries>>
  /\ UNCHANGED <<head, storeVars, arg, latest, detail>>

ListBlocks(r) == AskHead(r) \/ ListFromRedis(r) \/ ListFromMysql(r) \/ ListFromRPC(r)

-----------------------------------------------------------------------------
(* GetBlock: first the row, then the transactions.                           *)

(* A client may ask for a block that is not mined.                           *)
RequestBlock(r) ==
  /\ pc[r] = "new"
  /\ \E b \in Blocks : arg' = [arg EXCEPT ![r] = b]
  /\ GoTo(r, "rowRedis")
  /\ UNCHANGED <<head, storeVars, saves, latest, done, tries, detail, answer>>

FoundRow(r, b) ==
  /\ detail' = [detail EXCEPT ![r] = b]
  /\ GoTo(r, "txMysql")

RowFromRedis(r) ==
  /\ pc[r] = "rowRedis"
  /\ \/ arg[r] \in redis /\ FoundRow(r, arg[r])
     \/ /\ arg[r] \notin redis \/ Fault("redis")
        /\ GoTo(r, "rowMysql")
        /\ UNCHANGED detail
  /\ UNCHANGED <<head, storeVars, saves, arg, latest, done, tries, answer>>

(* Mutant: the condition is lost for every number.                           *)
SelectedAny(n) == rows

(* gorm's Where with a struct leaves out zero fields, so number 0 selects    *)
(* every row; First takes the one with the first hash.                       *)
Selected(n) == IF n = 0 THEN rows ELSE rows \cap {n}

RowFromMysql(r) ==
  /\ pc[r] = "rowMysql"
  /\ \/ \E b \in Selected(arg[r]) :
          /\ \A c \in Selected(arg[r]) : HashRank[b] <= HashRank[c]
          /\ FoundRow(r, b)
     \/ /\ Selected(arg[r]) = {} \/ Fault("mysql")
        /\ GoTo(r, "rowRpc")
        /\ UNCHANGED detail
  /\ UNCHANGED <<head, storeVars, saves, arg, latest, done, tries, answer>>

RowFromRPC(r) ==
  /\ pc[r] = "rowRpc"
  /\ \/ /\ arg[r] <= head
        /\ FoundRow(r, arg[r])
        /\ GoSaveBlockRows(<<arg[r]>>)
        /\ tries' = [tries EXCEPT ![r] = 0]
        /\ UNCHANGED <<done, answer>>
     \/ /\ RpcFails(arg[r])
        /\ \/ Retry(r) \/ Panic(r)
           \/ LastTry(r) /\ Answer(r, 404, {}, {}) /\ UNCHANGED <<done, tries>>
        /\ UNCHANGED <<saves, detail>>
  /\ UNCHANGED <<head, storeVars, arg, latest>>

StoredTxs(b) == {i \in 1 .. Txs[b] : <<b, i>> \in txRows}

(* Mutant: an answer of MySQL is final, the empty one too.                   *)
TxsFromMysqlFinal(r) ==
  /\ pc[r] = "txMysql"
  /\ Answer(r, 200, {detail[r]}, StoredTxs(arg[r]))
  /\ UNCHANGED <<head, storeVars, saves, localVars>>

(* Redis has no list of transactions; MySQL's is taken when it is not empty. *)
TxsFromMysql(r) ==
  /\ pc[r] = "txMysql"
  /\ \/ StoredTxs(arg[r]) # {} /\ Answer(r, 200, {detail[r]}, StoredTxs(arg[r]))
     \/ /\ StoredTxs(arg[r]) = {} \/ Fault("mysql")
        /\ GoTo(r, "txRpc")
        /\ UNCHANGED answer
  /\ UNCHANGED <<head, storeVars, saves, localVars>>

TxsFromRPC(r) ==
  /\ pc[r] = "txRpc"
  /\ \/ /\ arg[r] <= head
        /\ Answer(r, 200, {detail[r]}, 1 .. Txs[arg[r]])
        /\ UNCHANGED <<done, tries>>
     \/ /\ RpcFails(arg[r])
        /\ \/ Retry(r) \/ Panic(r)
           \/ LastTry(r) /\ Answer(r, 500, {}, {}) /\ UNCHANGED <<done, tries>>
  /\ UNCHANGED <<head, storeVars, saves, arg, latest, detail>>

GetBlock(r) ==
  \/ RowFromRedis(r) \/ RowFromMysql(r) \/ RowFromRPC(r)
  \/ TxsFromMysql(r) \/ TxsFromRPC(r)

-----------------------------------------------------------------------------
Next ==
  \/ Mine \/ IndexerStores \/ RedisRestart \/ Exit
  \/ SaveBlockRows
  \/ \E r \in Lists : RequestList(r)
  \/ \E r \in Gets : RequestBlock(r)
  \/ \E r \in Requests : ListBlocks(r) \/ GetBlock(r)

Spec == Init /\ [][Next]_vars

(* The goroutines of the requests and of the saves run whenever they can.    *)
Fairness ==
  /\ WF_vars(SaveBlockRows)
  /\ \A r \in Requests : WF_vars(ListBlocks(r) \/ GetBlock(r))

FairSpec == Spec /\ Fairness

-----------------------------------------------------------------------------
(* Properties.                                                               *)

TypeOK ==
  /\ head \in Blocks
  /\ redis \subseteq Blocks /\ rows \subseteq Blocks
  /\ txRows \subseteq Blocks \X Nat
  /\ unsaved \subseteq Blocks
  /\ saves \subseteq [to : {"mysql", "redis"}, left : Seq(Blocks)]
  /\ pc \in [Requests -> Pcs]
  /\ arg \in [Requests -> Limits \cup Blocks]
  /\ latest \in [Requests -> Blocks]
  /\ done \in [Requests -> 0 .. MaxHead]
  /\ tries \in [Requests -> 0 .. MaxRetryTime - 1]
  /\ detail \in [Requests -> Blocks \cup {None}]
  /\ answer \in [Requests -> [status : {200, 404, 500}, blocks : SUBSET Blocks,
                              txs : SUBSET Nat] \cup {None}]

Answered(r) == answer[r] # None /\ answer[r].status = 200

(* The answer of ListBlocks is all the blocks asked for, or none: never the  *)
(* part of them a store happened to hold.  None is answered when the limit   *)
(* is more than the head (the subtraction wraps) or the RPC endpoint failed. *)
(* (The comparison of len(resp) and limit in listBlocks.)                    *)
ListAllOrNone ==
  \A r \in Requests :
    Answered(r) /\ detail[r] = None =>
      answer[r].blocks \in {latest[r] + 1 - arg[r] .. latest[r], {}}

(* Asked for any block but the first, GetBlock answers with the row of that  *)
(* block, from whatever store.  (getBlockDetail, GetBlockRow.)               *)
RightBlock ==
  \A r \in Requests :
    Answered(r) /\ detail[r] # None /\ arg[r] # 0 => answer[r].blocks = {arg[r]}

(* A block is answered without transactions only if it has none: an indexer  *)
(* that has stored the row and not yet the transactions is not taken for a   *)
(* block without any.  (The test of len(txHashs) in getBlockTx.)             *)
NoTxsMeansNone ==
  \A r \in Requests :
    Answered(r) /\ detail[r] # None /\ answer[r].txs = {} => Txs[arg[r]] = 0

(* What the readme says: the data asked for come from Redis or the database, *)
(* and when these do not have them, from the RPC endpoint.                   *)
RightBlockAlways ==
  \A r \in Requests :
    Answered(r) /\ detail[r] # None => answer[r].blocks = {arg[r]}

(* Every request is answered, unless the process ends under it: the retries  *)
(* end, whatever fails.                                                      *)
EveryRequestAnswered == \A r \in Requests : pc[r] # "new" ~> pc[r] \in {"done", "cut"}

Told == UNION {answer[r].blocks : r \in {q \in Requests : answer[q] # None}}

(* Every block a client was told of is in MySQL in the end, whichever store  *)
(* answered, unless a save of it to MySQL failed or was cut: Redis does not  *)
(* know for good what MySQL was never told.  (The saves that outlive a       *)
(* request.)                                                                 *)
EventuallyStored == []<>(Told \subseteq rows \cup unsaved)

=============================================================================
