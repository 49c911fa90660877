------------------------------- MODULE Scanner -------------------------------
(***************************************************************************)
(* A scanner: BlockByNumber, TxDetailByHash or GetLogs, called by many     *)
(* goroutines at a time.  A call retries up to MAX_RETRY_TIME times; after *)
(* "connection reset by peer" it replaces the client all calls share,      *)
(* without a lock.                                                         *)
(***************************************************************************)
EXTENDS Naturals

CONSTANTS
  Calls,          (* the calls, one for each goroutine                       *)
  RetryLimits,    (* what MAX_RETRY_TIME may be configured to                *)
  RpcFaults       (* the failures: "rpc", "reset", "dial"                    *)

ASSUME ScannerAssumption ==
  /\ RetryLimits \subseteq Nat
  /\ RpcFaults \subseteq {"rpc", "reset", "dial"}

VARIABLES
  maxRetryTime,   (* MAX_RETRY_TIME                                          *)
  client,         (* ethClient: "open", or "nil" after a failed createClient *)
  call,           (* where each call is, or how it ended                     *)
  tries,          (* failed attempts of each call                            *)
  badDial         (* history: createClient has failed                        *)

clientVars == <<client, badDial>>
callVars == <<call, tries>>
scannerVars == <<maxRetryTime, clientVars, callVars>>

(* NewDefaultBlockScanner and its like panic when they cannot dial, so that  *)
(* a scanner starts with a client.                                           *)
ScannerInit ==
  /\ maxRetryTime \in RetryLimits
  /\ client = "open" /\ badDial = FALSE
  /\ call = [c \in Calls |-> "none"]
  /\ tries = [c \in Calls |-> 0]

At(c, label) == call' = [call EXCEPT ![c] = label]
Failed(c) == tries' = [tries EXCEPT ![c] = @ + 1]

Begin(c) ==
  /\ At(c, "try")
  /\ tries' = [tries EXCEPT ![c] = 0]
  /\ UNCHANGED <<maxRetryTime, clientVars>>

(* Mutant: MAX_RETRY_TIME counts the retries that follow the first attempt.  *)
AttemptOnceMore(c) ==
  /\ call[c] = "try"
  /\ tries[c] <= maxRetryTime /\ client = "open"
  /\ \/ At(c, "value") /\ UNCHANGED tries
     \/ "rpc" \in RpcFaults /\ Failed(c) /\ UNCHANGED call
     \/ "reset" \in RpcFaults /\ At(c, "dial") /\ UNCHANGED tries
  /\ UNCHANGED <<maxRetryTime, clientVars>>

(* Mutant: the old client is given up before the new one is there.           *)
AttemptDropsClient(c) ==
  /\ call[c] = "try"
  /\ tries[c] < maxRetryTime /\ client = "open"
  /\ \/ At(c, "value") /\ UNCHANGED <<tries, client>>
     \/ "rpc" \in RpcFaults /\ Failed(c) /\ UNCHANGED <<call, client>>
     \/ "reset" \in RpcFaults /\ At(c, "dial") /\ client' = "nil" /\ UNCHANGED tries
  /\ UNCHANGED <<maxRetryTime, badDial>>

(* One attempt: an answer, an error to wait for and try again, or the reset. *)
Attempt(c) ==
  /\ call[c] = "try"
  /\ tries[c] < maxRetryTime /\ client = "open"
  /\ \/ At(c, "value") /\ UNCHANGED tries
     \/ "rpc" \in RpcFaults /\ Failed(c) /\ UNCHANGED call
     \/ "reset" \in RpcFaults /\ At(c, "dial") /\ UNCHANGED tries
  /\ UNCHANGED <<maxRetryTime, clientVars>>

(* createClient assigns what Dial returns, a nil client with its error, and  *)
(* then panics.                                                              *)
CreateClient(c) ==
  /\ call[c] = "dial"
  /\ \/ client' = "open" /\ At(c, "try") /\ Failed(c) /\ UNCHANGED badDial
     \/ /\ "dial" \in RpcFaults
        /\ client' = "nil" /\ At(c, "panic") /\ badDial' = TRUE
        /\ UNCHANGED tries
  /\ UNCHANGED maxRetryTime

(* A nil client is dereferenced; and when no attempt is allowed, the nil     *)
(* result that comes with a nil error is.                                    *)
Dereference(c) ==
  /\ call[c] = "try"
  /\ maxRetryTime = 0 \/ (tries[c] < maxRetryTime /\ client = "nil")
  /\ At(c, "panic")
  /\ UNCHANGED <<maxRetryTime, clientVars, tries>>

GiveUp(c) ==
  /\ call[c] = "try"
  /\ maxRetryTime # 0 /\ tries[c] = maxRetryTime
  /\ At(c, "error")
  /\ UNCHANGED <<maxRetryTime, clientVars, tries>>

Scan(c) == Attempt(c) \/ CreateClient(c) \/ Dereference(c) \/ GiveUp(c)

Ended == {"value", "error", "panic"}

=============================================================================
