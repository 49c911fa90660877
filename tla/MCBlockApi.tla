----------------------------- MODULE MCBlockApi ------------------------------
(* Small instances of BlockApi for TLC.                                      *)
EXTENDS BlockApi

CONSTANTS r1, r2

(* Block 0 is empty, block 1 has a transaction.                              *)
MCTxs == [b \in Blocks |-> IF b = 1 THEN 1 ELSE 0]

(* The order of the hashes is that of the blocks, or the opposite.           *)
MCHashRank == [b \in Blocks |-> b]
MCHashRankDown == [b \in Blocks |-> MaxHead - b]
=============================================================================
