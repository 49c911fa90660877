---------------------------- MODULE MCApiService -----------------------------
(* Small instances of ApiService for TLC.                                    *)
EXTENDS ApiService

CONSTANTS api, producer, c1, c2

(* api_service opens MySQL twice, the producer once.                         *)
MCHandlers == [p \in Services |-> IF p = Api THEN 2 ELSE 1]
=============================================================================
