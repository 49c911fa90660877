-------------------------------- MODULE Chain --------------------------------
(***************************************************************************)
(* The part of the chain the indexer copies, as rows of the three tables.  *)
(* A row is <<b, i, j>>: <<b, 0, 0>> is the row of block b, <<b, i, 0>>    *)
(* the row of its i-th transaction, <<b, i, j>> that of the j-th log of    *)
(* that transaction; the three tables are the three kinds of triple, and   *)
(* the triple is the primary key.                                          *)
(***************************************************************************)
EXTENDS Naturals, Sequences

CONSTANTS
  Blocks,   (* block numbers                                                 *)
  TxLogs    (* TxLogs[b][i]: number of logs of the i-th transaction of b     *)

RowsOf(b) ==
  {<<b, 0, 0>>} \cup
  UNION {{<<b, i, j>> : j \in 0 .. TxLogs[b][i]} : i \in DOMAIN TxLogs[b]}

Rows == UNION {RowsOf(b) : b \in Blocks}

(* The rows of b that come before <<b, i, j>> in the order they are sent.    *)
Before(b, i, j) == {r \in RowsOf(b) : r[2] < i \/ (r[2] = i /\ r[3] < j)}
=============================================================================
