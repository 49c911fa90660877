-------------------------------- MODULE TxApi --------------------------------
(***************************************************************************)
(* The handler GetTransaction of api_service.  getTransaction looks for    *)
(* the transaction in Redis and then asks the RPC endpoint, which leaves   *)
(* goroutines saving the row and the logs to both stores; GetTransaction   *)
(* then replaces the logs by those Redis has at that moment.               *)
(*                                                                         *)
(* <<t, j>> is the j-th log of transaction t.  The key of a transaction in *)
(* Redis holds its block number, so Redis is a set of <<block, t>>.        *)
(* A hash can be spelt in more ways than one (upper case, without 0x):     *)
(* the endpoint is asked for what HexToHash makes of it and rows are saved *)
(* under its Hex(), but Redis is searched for the hash as the client spelt *)
(* it.                                                                     *)
(***************************************************************************)
EXTENDS Naturals, Sequences, FiniteSets, Functions

CONSTANTS
  Requests,       (* the requests clients send, each handled once            *)
  TxHashes,       (* transactions                                            *)
  BlockOf,        (* BlockOf[t]: number of the block that mines t            *)
  Logs,           (* Logs[t]: number of logs of t                            *)
  BadSender,      (* transactions whose sender the signer cannot recover     *)
  Creations,      (* transactions that create a contract: To() is nil        *)
  MaxRetryTime,   (* MAX_RETRY_TIME of the configuration                     *)
  Faults,         (* the kinds of failure the environment may cause          *)
  None

FaultKinds == {"rpc", "redis", "save", "wipe", "exit"}

(* No transaction is in the first block of a chain.                          *)
ASSUME TxApiAssumption ==
  /\ BlockOf \in [TxHashes -> Nat \ {0}]
  /\ Logs \in [TxHashes -> Nat]
  /\ BadSender \subseteq TxHashes /\ Creations \subseteq TxHashes
  /\ MaxRetryTime \in Nat \ {0}
  /\ Faults \subseteq FaultKinds
  /\ None \notin TxHashes

VARIABLES
  chain,      (* what the endpoint knows: "unknown", "pending" or "mined"    *)
  redisTx,    (* keys <<block, t>> of transactions in Redis                  *)
  redisLogs,  (* keys <<t, j>> of logs in Redis                              *)
  txRows,     (* the table tx in MySQL                                       *)
  logRows,    (* the rows these saves put into the table log in MySQL        *)
  saves,      (* the goroutines saving rows: [to, tx, next]                  *)
  pc,         (* where each request is                                       *)
  hash,       (* the transaction it asks for                                 *)
  canonical,  (* TRUE when the client spells its hash as Hex() does          *)
  pending,    (* isPending, as TxDetailByHash returned it                    *)
  tries,      (* failed attempts in a row                                    *)
  scan,       (* the log keys its SCAN has still to read                     *)
  got,        (* the logs read                                               *)
  status,     (* the status sent                                             *)
  earlier     (* history: logs of its transaction that a client had been     *)
              (* sent when the request came                                  *)

storeVars == <<redisTx, redisLogs, txRows, logRows>>
paramVars == <<hash, canonical>>
localVars == <<pending, tries, scan, got>>
vars == <<chain, storeVars, saves, pc, paramVars, localVars, status, earlier>>

Pcs == {"new", "redisTx", "detail", "receipt", "logs", "scan",
        "read", "done", "cut"}

LogKeys == UNION {{<<t, j>> : j \in 1 .. Logs[t]} : t \in TxHashes}

LogsOf(t) == {<<t, j>> : j \in 1 .. Logs[t]}

Fault(f) == f \in Faults

Init ==
  /\ chain = [t \in TxHashes |-> "unknown"]
  /\ redisTx = {} /\ redisLogs = {} /\ txRows = {} /\ logRows = {}
  /\ saves = {}
  /\ pc = [r \in Requests |-> "new"]
  /\ hash = [r \in Requests |-> None]
  /\ canonical = [r \in Requests |-> FALSE]
  /\ pending = [r \in Requests |-> FALSE]
  /\ tries = [r \in Requests |-> 0]
  /\ scan = [r \in Requests |-> {}]
  /\ got = [r \in Requests |-> {}]
  /\ status = [r \in Requests |-> 0]
  /\ earlier = [r \in Requests |-> {}]

-----------------------------------------------------------------------------
(* Everything around the handler.                                            *)

(* A transaction is sent to the network, and mined.                          *)
Mine(t) ==
  /\ \/ chain[t] = "unknown" /\ chain' = [chain EXCEPT ![t] = "pending"]
     \/ chain[t] = "pending" /\ chain' = [chain EXCEPT ![t] = "mined"]
  /\ UNCHANGED <<storeVars, saves, pc, paramVars, localVars, status, earlier>>

(* The indexer inserts the row of a mined transaction.  (Its log rows are    *)
(* left out: the handler does not read that table.)                          *)
IndexerStores(t) ==
  /\ chain[t] = "mined"
  /\ txRows' = txRows \cup {t}
  /\ UNCHANGED <<chain, redisTx, redisLogs, logRows, saves, pc, paramVars, localVars,
                 status, earlier>>

(* Redis keeps nothing across a restart.                                     *)
RedisRestart ==
  /\ Fault("wipe")
  /\ redisTx' = {} /\ redisLogs' = {}
  /\ UNCHANGED <<chain, txRows, logRows, saves, pc, paramVars, localVars, status, earlier>>

(* The process ends: open requests get no answer, saves are not finished.    *)
Exit ==
  /\ Fault("exit")
  /\ saves' = {}
  /\ pc' = [r \in Requests |-> IF pc[r] \in {"new", "done"} THEN pc[r] ELSE "cut"]
  /\ UNCHANGED <<chain, storeVars, paramVars, localVars, status, earlier>>

-----------------------------------------------------------------------------
(* The saves.  Two goroutines that save the same from the same place on are  *)
(* one.                                                                      *)

GoSave(kinds, t) == saves' = saves \cup [to : kinds, tx : {t}, next : {1}]

SaveRows(s) ==
  /\ \/ s.to = "mysqlTx" /\ txRows' = txRows \cup {s.tx} /\ UNCHANGED <<redisTx, logRows>>
     \/ /\ s.to = "redisTx"
        /\ redisTx' = redisTx \cup {<<BlockOf[s.tx], s.tx>>}
        /\ UNCHANGED <<txRows, logRows>>
     \/ s.to = "mysqlLogs" /\ logRows' = logRows \cup LogsOf(s.tx) /\ UNCHANGED <<redisTx, txRows>>
  /\ saves' = saves \ {s}
  /\ UNCHANGED redisLogs

(* Mutant: the old logs of the transaction are deleted first.                *)
SaveLogsAfresh(s) ==
  /\ s.to = "redisLogs"
  /\ IF s.next > Logs[s.tx]
     THEN saves' = saves \ {s} /\ UNCHANGED redisLogs
     ELSE /\ redisLogs' = (IF s.next = 1 THEN redisLogs \ LogsOf(s.tx) ELSE redisLogs)
                            \cup {<<s.tx, s.next>>}
          /\ saves' = (saves \ {s}) \cup {[s EXCEPT !.next = @ + 1]}
  /\ UNCHANGED <<redisTx, txRows, logRows>>

(* Redis takes the logs key by key.                                          *)
SaveLogRow(s) ==
  /\ s.to = "redisLogs"
  /\ IF s.next > Logs[s.tx]
     THEN saves' = saves \ {s} /\ UNCHANGED redisLogs
     ELSE /\ redisLogs' = redisLogs \cup {<<s.tx, s.next>>}
          /\ saves' = (saves \ {s}) \cup {[s EXCEPT !.next = @ + 1]}
  /\ UNCHANGED <<redisTx, txRows, logRows>>

(* A save that fails stops where it is; nobody hears of it.                  *)
SaveFails(s) ==
  /\ Fault("save")
  /\ saves' = saves \ {s}
  /\ UNCHANGED storeVars

Save ==
  /\ \E s \in saves : SaveRows(s) \/ SaveLogRow(s) \/ SaveFails(s)
  /\ UNCHANGED <<chain, pc, paramVars, localVars, status, earlier>>

-----------------------------------------------------------------------------
GoTo(r, label) == pc' = [pc EXCEPT ![r] = label]

Answer(r, code) ==
  /\ GoTo(r, "done")
  /\ status' = [status EXCEPT ![r] = code]

Sent(t) == UNION {got[r] : r \in {q \in Requests : hash[q] = t /\ status[q] = 200}}

Request(r) ==
  /\ pc[r] = "new"
  /\ \E t \in TxHashes :
       /\ hash' = [hash EXCEPT ![r] = t]
       /\ \E hex \in BOOLEAN : canonical' = [canonical EXCEPT ![r] = hex]
       /\ earlier' = [earlier EXCEPT ![r] = Sent(t)]
  /\ GoTo(r, "redisTx")
  /\ UNCHANGED <<chain, storeVars, saves, localVars, status>>

(* Mutant: the key is the one the saves use, so that Redis can answer.       *)
RedisKeyOfBlock(t) == <<BlockOf[t], t>>

(* The key Redis is asked for: the row to fill has only its hash set, and so *)
(* block number 0.                                                           *)
RedisKey(t) == <<0, t>>

(* getTxFromStore, with Redis.  It reads the logs too, but only an error of  *)
(* that matters: they are read once more for the answer.                     *)
TxFromRedis(r) ==
  /\ pc[r] = "redisTx"
  /\ \/ GoTo(r, IF canonical[r] /\ RedisKey(hash[r]) \in redisTx THEN "scan" ELSE "detail")
     \/ Fault("redis") /\ GoTo(r, "detail")
  /\ UNCHANGED <<chain, storeVars, saves, paramVars, localVars, status, earlier>>

(* Mutant: the retry loop has no end.                                        *)
FailForever(r) == UNCHANGED <<pc, status, tries>>

(* Mutant: one attempt too many.                                             *)
FailOnceMore(r) ==
  \/ /\ tries[r] < MaxRetryTime
     /\ tries' = [tries EXCEPT ![r] = @ + 1]
     /\ UNCHANGED <<pc, status>>
  \/ /\ tries[r] = MaxRetryTime
     /\ Answer(r, 404)
     /\ UNCHANGED tries

(* A retry of a scanner: not the last attempt, or 404.  When createClient    *)
(* cannot dial, or could not earlier and left no client, the scanner panics, *)
(* which gin answers with 500.                                               *)
Fail(r) ==
  \/ /\ tries[r] + 1 < MaxRetryTime
     /\ tries' = [tries EXCEPT ![r] = @ + 1]
     /\ UNCHANGED <<pc, status>>
  \/ /\ tries[r] + 1 = MaxRetryTime
     /\ Answer(r, 404)
     /\ UNCHANGED tries
  \/ /\ Fault("rpc")
     /\ Answer(r, 500)
     /\ UNCHANGED tries

(* getTxFromRPC: the transaction; then its sender, where the EIP-155 signer   *)
(* fails on the types it does not know, and its receiver, where a contract    *)
(* creation makes the handler panic and gin answer 500.                       *)
TxDetail(r) ==
  /\ pc[r] = "detail"
  /\ \/ /\ chain[hash[r]] # "unknown"
        /\ pending' = [pending EXCEPT ![r] = chain[hash[r]] = "pending"]
        /\ tries' = [tries EXCEPT ![r] = 0]
        /\ CASE hash[r] \in BadSender -> Answer(r, 404)
             [] hash[r] \in Creations \ BadSender -> Answer(r, 500)
             [] OTHER -> GoTo(r, "receipt") /\ UNCHANGED status
     \/ /\ chain[hash[r]] = "unknown" \/ Fault("rpc")
        /\ Fail(r)
        /\ UNCHANGED pending
  /\ UNCHANGED <<chain, storeVars, saves, paramVars, scan, got, earlier>>

(* Mutant: the row is saved without the receipt's block number.              *)
ReceiptAfterSave(r) ==
  /\ pc[r] = "receipt"
  /\ GoSave({"mysqlTx", "redisTx"}, hash[r])
  /\ \/ /\ chain[hash[r]] = "mined"
        /\ GoTo(r, IF pending[r] THEN "scan" ELSE "logs")
        /\ UNCHANGED status
     \/ /\ chain[hash[r]] # "mined" \/ Fault("rpc")
        /\ Answer(r, 404)
  /\ UNCHANGED <<chain, storeVars, paramVars, localVars, earlier>>

(* TransactionReceipt, asked once: it exists when the transaction is mined,  *)
(* which one that was pending may be by now; its logs are left out then.     *)
Receipt(r) ==
  /\ pc[r] = "receipt"
  /\ \/ /\ chain[hash[r]] = "mined"
        /\ GoSave({"mysqlTx", "redisTx"}, hash[r])
        /\ GoTo(r, IF pending[r] THEN "scan" ELSE "logs")
        /\ UNCHANGED status
     \/ /\ chain[hash[r]] # "mined" \/ Fault("rpc")
        /\ Answer(r, 404)
        /\ UNCHANGED saves
  /\ UNCHANGED <<chain, storeVars, paramVars, localVars, earlier>>

LogsFromRPC(r) ==
  /\ pc[r] = "logs"
  /\ \/ /\ GoSave({"mysqlLogs", "redisLogs"}, hash[r])
        /\ GoTo(r, "scan")
        /\ tries' = [tries EXCEPT ![r] = 0]
        /\ UNCHANGED status
     \/ /\ Fault("rpc")
        /\ Fail(r)
        /\ UNCHANGED saves
  /\ UNCHANGED <<chain, storeVars, paramVars, pending, scan, got, earlier>>

(* The log keys that match the pattern: it has the hash as the client spells *)
(* it, the keys have its Hex().                                              *)
Matching(r) == IF canonical[r] THEN LogsOf(hash[r]) ELSE {}

(* getTxLogs, with Redis: SCAN returns at least the keys that are there from *)
(* its first call to its last.                                               *)
ScanLogs(r) ==
  /\ pc[r] = "scan"
  /\ scan' = [scan EXCEPT ![r] = redisLogs \cap Matching(r)]
  /\ GoTo(r, "read")
  /\ UNCHANGED <<chain, storeVars, saves, paramVars, pending, tries, got, status, earlier>>

(* A key is read; an error of GET, that the key is gone being one, is 404,   *)
(* an error of SCAN ends the list as if it were complete.                    *)
ReadLog(r) ==
  /\ pc[r] = "read"
  /\ \/ /\ \E k \in (redisLogs \cap Matching(r)) \ got[r] : got' = [got EXCEPT ![r] = @ \cup {k}]
        /\ UNCHANGED <<pc, scan, status>>
     \/ /\ \E k \in scan[r] \ redisLogs : scan' = [scan EXCEPT ![r] = @ \ {k}]
        /\ UNCHANGED <<pc, got, status>>
     \/ /\ ~(scan[r] \subseteq redisLogs) \/ Fault("redis")
        /\ Answer(r, 404)
        /\ UNCHANGED <<scan, got>>
     \/ /\ scan[r] \subseteq got[r] \/ Fault("redis")
        /\ Answer(r, 200)
        /\ UNCHANGED <<scan, got>>
  /\ UNCHANGED <<chain, storeVars, saves, paramVars, pending, tries, earlier>>

GetTransaction(r) ==
  \/ TxFromRedis(r) \/ TxDetail(r) \/ Receipt(r) \/ LogsFromRPC(r)
  \/ ScanLogs(r) \/ ReadLog(r)

Next ==
  \/ \E t \in TxHashes : Mine(t) \/ IndexerStores(t)
  \/ RedisRestart \/ Exit
  \/ Save
  \/ \E r \in Requests : Request(r) \/ GetTransaction(r)

Spec == Init /\ [][Next]_vars

(* The goroutines of the requests and of the saves run whenever they can.    *)
Fairness ==
  /\ WF_vars(Save)
  /\ \A r \in Requests : WF_vars(GetTransaction(r))

FairSpec == Spec /\ Fairness

-----------------------------------------------------------------------------
(* Properties.                                                               *)

TypeOK ==
  /\ chain \in [TxHashes -> {"unknown", "pending", "mined"}]
  /\ redisTx \subseteq Nat \X TxHashes /\ txRows \subseteq TxHashes
  /\ redisLogs \subseteq LogKeys /\ logRows \subseteq LogKeys
  /\ saves \subseteq [to : {"mysqlTx", "redisTx", "mysqlLogs", "redisLogs"},
                      tx : TxHashes, next : Nat]
  /\ pc \in [Requests -> Pcs]
  /\ hash \in [Requests -> TxHashes \cup {None}]
  /\ canonical \in [Requests -> BOOLEAN]
  /\ pending \in [Requests -> BOOLEAN]
  /\ tries \in [Requests -> 0 .. MaxRetryTime - 1]
  /\ scan \in [Requests -> SUBSET LogKeys] /\ got \in [Requests -> SUBSET LogKeys]
  /\ status \in [Requests -> {0, 200, 404, 500}]
  /\ earlier \in [Requests -> SUBSET LogKeys]

(* No store holds the row of a transaction that is not mined, whatever       *)
(* TxDetailByHash said of it: its block number would be wrong for good.  (In *)
(* getTxFromRPC the receipt is asked for before the saves are started.)      *)
OnlyMinedSaved ==
  \A t \in TxHashes :
    t \in txRows \/ <<BlockOf[t], t>> \in redisTx => chain[t] = "mined"

(* The answer lacks logs its SCAN was to return: an error ended the list.    *)
CutShort(r) == ~(scan[r] \subseteq got[r])

(* Logs a client was sent do not disappear from the answers to later         *)
(* requests that spell the hash as it is saved, although each answer takes   *)
(* them from what Redis holds at the moment, between the saves of other      *)
(* requests: only an error of SCAN, which GetLogRowByTxHash takes for the    *)
(* end of the list, makes such an answer shorter.  A request that spells the *)
(* hash otherwise is answered without logs, whatever was sent before.        *)
(* (Without restarts of Redis.)                                              *)
NeverFewerLogs ==
  \A r \in Requests :
    status[r] = 200 =>
      \/ earlier[r] \subseteq got[r]
      \/ CutShort(r)
      \/ ~canonical[r]

(* Every request is answered: the retries end, whatever fails.               *)
EveryRequestAnswered == \A r \in Requests : pc[r] # "new" ~> pc[r] = "done"

(* After an answer about a mined transaction, both stores have all of its    *)
(* logs in the end, though it was first saved as a pending one without logs, *)
(* and however the client spelt its hash: the later answers to those who     *)
(* spell it as Hex() does are complete.  (Without failed saves and exits.)   *)
EventuallyLogged ==
  \A r \in Requests, t \in TxHashes :
    hash[r] = t /\ status[r] = 200 /\ ~pending[r] ~> LogsOf(t) \subseteq redisLogs \cap logRows

=============================================================================
