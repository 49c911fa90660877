----------------------------- MODULE ScanContract ----------------------------
(***************************************************************************)
(* What the indexer promises to those who see only its two queues and the  *)
(* rows it takes over: the producer, and whoever reads MySQL.  No workers, *)
(* buffers, connections or restarts: a block number is on the queue until  *)
(* it is retired once, rows are taken over in chain order, and a block is  *)
(* reported only while its number is on the queue and after all its rows.  *)
(* Indexer implements it, see Contract there.                              *)
(***************************************************************************)
EXTENDS Chain

VARIABLES
  queued,     (* copies of each block number RabbitMQ answers for            *)
  doneQ,      (* blockNumber_done_queue                                      *)
  handed,     (* rows taken over                                             *)
  skipped,    (* <<b, i>>: transactions whose logs may be missing            *)
  reported    (* blocks a done message was published for                     *)

contractVars == <<queued, doneQ, handed, skipped, reported>>

Accounted == handed \cup {r \in Rows : r[3] > 0 /\ <<r[1], r[2]>> \in skipped}

Init ==
  /\ queued = [b \in Blocks |-> 0]
  /\ doneQ = <<>>
  /\ handed = {} /\ skipped = {} /\ reported = {}

Push(b) ==
  /\ queued' = [queued EXCEPT ![b] = @ + 1]
  /\ UNCHANGED <<doneQ, handed, skipped, reported>>

TakeOver(r) ==
  /\ Before(r[1], r[2], r[3]) \subseteq Accounted
  /\ handed' = handed \cup {r}
  /\ UNCHANGED <<queued, doneQ, skipped, reported>>

(* The logs of a transaction are only left out after its row.                *)
Skip(b, i) ==
  /\ <<b, i, 0>> \in handed
  /\ skipped' = skipped \cup {<<b, i>>}
  /\ UNCHANGED <<queued, doneQ, handed, reported>>

Report(b) ==
  /\ queued[b] > 0
  /\ RowsOf(b) \subseteq Accounted
  /\ doneQ' = Append(doneQ, b)
  /\ reported' = reported \cup {b}
  /\ UNCHANGED <<queued, handed, skipped>>

(* One copy is acked: reported, or given up.                                 *)
Retire(b) ==
  /\ queued[b] > 0
  /\ queued' = [queued EXCEPT ![b] = @ - 1]
  /\ UNCHANGED <<doneQ, handed, skipped, reported>>

TakeDone ==
  /\ doneQ # <<>>
  /\ doneQ' = Tail(doneQ)
  /\ UNCHANGED <<queued, handed, skipped, reported>>

(* RabbitMQ restarts without its messages.                                   *)
Forget ==
  /\ queued' = [b \in Blocks |-> 0]
  /\ doneQ' = <<>>
  /\ UNCHANGED <<handed, skipped, reported>>

Next ==
  \/ \E b \in Blocks : Push(b) \/ Report(b) \/ Retire(b)
  \/ \E r \in Rows : TakeOver(r)
  \/ \E b \in Blocks : \E i \in DOMAIN TxLogs[b] : Skip(b, i)
  \/ TakeDone \/ Forget

Spec == Init /\ [][Next]_contractVars
=============================================================================
