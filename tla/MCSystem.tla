------------------------------- MODULE MCSystem ------------------------------
(* A small instance of System for TLC.                                       *)
EXTENDS System

CONSTANT w1

(* Block 1 has a transaction without logs, the others are empty.             *)
MCTxLogs == [b \in Blocks |-> IF b = 1 THEN <<0>> ELSE <<>>]

MCNoBadTxs == {}
=============================================================================
