------------------------------ MODULE MCIndexer ------------------------------
(* Small instances of Indexer for TLC.                                       *)
EXTENDS Indexer, TLC

CONSTANTS w1, w2

(* Block 0 has one transaction with one log, block 1 is empty.               *)
MCTxLogs == [b \in Blocks |-> IF b = 0 THEN <<1>> ELSE <<>>]

(* Block 0 has a transaction without logs and one with two, block 1 one      *)
(* without.                                                                  *)
MCTxLogsLong == [b \in Blocks |-> IF b = 0 THEN <<0, 2>> ELSE <<0>>]

(* One transaction without logs in each block.                               *)
MCTxLogsShort == [b \in Blocks |-> <<0>>]

MCNoBadTxs == {}
MCBadTxs == {<<0, 2>>}

MCWorkers == {w1, w2}
MCSymmetry == Permutations(MCWorkers)
=============================================================================
