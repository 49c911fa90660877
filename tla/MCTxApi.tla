------------------------------- MODULE MCTxApi -------------------------------
(* Small instances of TxApi for TLC.                                         *)
EXTENDS TxApi, TLC

CONSTANTS r1, r2, t1, t2, t3

MCSymmetry == Permutations({r1, r2})

MCBlockOf == [t \in TxHashes |-> 1]

(* t1 has one log, the others none.                                         *)
MCOneLog == [t \in TxHashes |-> IF t = t1 THEN 1 ELSE 0]

(* t1 has two logs, which can be half saved.                                *)
MCLogs == [t \in TxHashes |-> IF t = t1 THEN 2 ELSE 0]
=============================================================================
