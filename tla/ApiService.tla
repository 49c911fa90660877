----------------------------- MODULE ApiService ------------------------------
(***************************************************************************)
(* The life of the process api_service: Application from main to the end   *)
(* of Run, with the goroutine that waits for a signal and the handlers of  *)
(* requests that call a scanner.  It starts next to the other services,    *)
(* which run the same migrations, and docker-compose starts all of them    *)
(* again whenever they end (restart: always).                              *)
(***************************************************************************)
EXTENDS Migration, Scanner

CONSTANTS
  Api,          (* the service that is api_service                           *)
  Handlers,     (* Handlers[p]: MySQL connections p opens as it starts       *)
  MaxSignals    (* bound: signals sent to api_service                        *)

ASSUME ApiServiceAssumption ==
  /\ Api \in Services
  /\ Handlers \in [Services -> Nat \ {0}]
  /\ MaxSignals \in Nat

VARIABLES
  stage,        (* where the main goroutine of each service is               *)
  opened,       (* MySQL connections it has opened                           *)
  spc,          (* where handleSignals is                                    *)
  sigs,         (* TRUE when the channel sigs, of capacity 1, has a signal   *)
  inShutdown,   (* srv.Shutdown was called                                   *)
  signalled,    (* history: this process was sent a signal it did not die of *)
  signals,      (* how many signals were sent                                *)
  request       (* the request whose handler makes each call                 *)

startVars == <<stage, opened>>
signalVars == <<spc, sigs, inShutdown, signalled, signals>>
vars == <<migrationVars, scannerVars, startVars, signalVars, request>>

Init ==
  /\ MigrationInit
  /\ ScannerInit
  /\ stage = [p \in Services |-> "start"]
  /\ opened = [p \in Services |-> 0]
  /\ spc = "init" /\ sigs = FALSE /\ inShutdown = FALSE
  /\ signalled = FALSE /\ signals = 0
  /\ request = [c \in Calls |-> "none"]

SetStage(p, label) == stage' = [stage EXCEPT ![p] = label]

-----------------------------------------------------------------------------
(* The end of a process: open requests are cut, and another process starts.  *)

EndOfApi ==
  /\ client' = "open" /\ badDial' = FALSE
  /\ call' = [c \in Calls |-> "none"]
  /\ tries' = [c \in Calls |-> 0]
  /\ spc' = "init" /\ sigs' = FALSE /\ inShutdown' = FALSE /\ signalled' = FALSE
  /\ request' = [c \in Calls |-> IF request[c] = "open" THEN "cut" ELSE request[c]]
  /\ UNCHANGED maxRetryTime

End(p) ==
  /\ BreakOff(p, "idle")
  /\ SetStage(p, "start")
  /\ opened' = [opened EXCEPT ![p] = 0]
  /\ IF p = Api THEN EndOfApi
     ELSE UNCHANGED <<scannerVars, spc, sigs, inShutdown, signalled, request>>

(* A kill, another panic as the process starts (MySQL or RPC not there), or  *)
(* an error of ListenAndServe that is not that of a Shutdown, which ends Run.*)
Crash(p) ==
  /\ fails < MaxFails
  /\ fails' = fails + 1
  /\ End(p)
  /\ UNCHANGED signals

-----------------------------------------------------------------------------
(* Start: InitDatabaseHook and NewController open MySQL one after the other, *)
(* as NewProducer and the three consumers of the indexer do.                 *)

OpenMysqlDatabase(p) ==
  /\ stage[p] = "start"
  /\ SetStage(p, "migrate")
  /\ BeginMigration(p)
  /\ UNCHANGED <<opened, scannerVars, signalVars, request>>

MigrateStep(p) ==
  /\ Migrate(p)
  /\ UNCHANGED <<startVars, scannerVars, signalVars, request>>

MigrationBreaks(p) ==
  /\ MysqlFails(p)
  /\ UNCHANGED <<startVars, scannerVars, signalVars, request>>

NewMysqlHandler(p) ==
  /\ step[p] = "ok"
  /\ GoOn(p, "idle")
  /\ opened' = [opened EXCEPT ![p] = @ + 1]
  /\ SetStage(p, IF opened[p] + 1 < Handlers[p] THEN "start" ELSE "ready")
  /\ UNCHANGED <<schemaVars, lock, fails, scannerVars, signalVars, request>>

(* callInitHooks, main of the other services: the error is a panic.          *)
HookFails(p) ==
  /\ step[p] = "failed"
  /\ End(p)
  /\ UNCHANGED <<fails, signals>>

(* The goroutine of Run: ListenAndServe returns at once after a Shutdown.    *)
ListenAndServe ==
  /\ stage[Api] = "ready"
  /\ SetStage(Api, IF inShutdown THEN "closed" ELSE "serving")
  /\ UNCHANGED <<migrationVars, opened, scannerVars, signalVars, request>>

ServerClosed ==
  /\ stage[Api] = "serving"
  /\ inShutdown
  /\ SetStage(Api, "closed")
  /\ UNCHANGED <<migrationVars, opened, scannerVars, signalVars, request>>

(* Mutant: Run does not wait for the error of ListenAndServe.                *)
RunReturnsEarly ==
  /\ stage[Api] \in {"serving", "closed"}
  /\ End(Api)
  /\ UNCHANGED <<fails, signals>>

(* Run returns, and main with it: whatever Shutdown still waits for is cut.  *)
RunReturns ==
  /\ stage[Api] = "closed"
  /\ End(Api)
  /\ UNCHANGED <<fails, signals>>

Start(p) ==
  OpenMysqlDatabase(p) \/ MigrateStep(p) \/ NewMysqlHandler(p) \/ HookFails(p)

Run == ListenAndServe \/ ServerClosed \/ RunReturns

-----------------------------------------------------------------------------
(* handleSignals and Shutdown.                                               *)

SignalStep(from, to) ==
  /\ spc = from
  /\ spc' = to
  /\ UNCHANGED <<migrationVars, scannerVars, startVars, signalled, signals, request>>

(* signal.Notify; then the goroutine waits at the channel.                   *)
Notify == SignalStep("init", "notified") /\ UNCHANGED <<sigs, inShutdown>>
Wait   == SignalStep("notified", "wait") /\ UNCHANGED <<sigs, inShutdown>>

Signalled ==
  /\ signalled' = TRUE
  /\ UNCHANGED <<migrationVars, scannerVars, startVars, spc, inShutdown, request>>

(* Mutant: a channel without a buffer.                                       *)
SignalUnbuffered ==
  /\ signals < MaxSignals
  /\ signals' = signals + 1
  /\ IF spc = "init" THEN End(Api) /\ UNCHANGED fails
     ELSE sigs' = (spc = "wait") /\ Signalled

(* SIGINT or SIGTERM.  Before Notify it ends the process; when the channel   *)
(* is full it is dropped, and a second one is never received.                *)
Signal ==
  /\ signals < MaxSignals
  /\ signals' = signals + 1
  /\ IF spc = "init" THEN End(Api) /\ UNCHANGED fails
     ELSE sigs' = TRUE /\ Signalled

Receive == sigs /\ sigs' = FALSE /\ SignalStep("wait", "shutdown") /\ UNCHANGED inShutdown

(* srv.Shutdown closes the listener first.                                   *)
CloseListener ==
  SignalStep("shutdown", "drain") /\ inShutdown' = TRUE /\ UNCHANGED sigs

(* It waits for the requests, but not longer than its context, whose end     *)
(* Shutdown awaits in any case.                                              *)
ContextDone == SignalStep("drain", "hooks") /\ UNCHANGED <<sigs, inShutdown>>

(* No destroy hook is registered: done, or the timer, ends the wait.         *)
CallDestroyHooks == SignalStep("hooks", "over") /\ UNCHANGED <<sigs, inShutdown>>

HandleSignals ==
  Notify \/ Wait \/ Receive \/ CloseListener \/ ContextDone \/ CallDestroyHooks

-----------------------------------------------------------------------------
(* Requests.                                                                 *)

Accept(c) ==
  /\ stage[Api] = "serving" /\ ~inShutdown
  /\ request[c] = "none"
  /\ request' = [request EXCEPT ![c] = "open"]
  /\ Begin(c)
  /\ UNCHANGED <<migrationVars, startVars, signalVars>>

CallScanner(c) ==
  /\ request[c] = "open"
  /\ Scan(c)
  /\ UNCHANGED <<migrationVars, startVars, signalVars, request>>

(* gin.Recovery makes a panic of the handler a 500.                          *)
Respond(c) ==
  /\ request[c] = "open" /\ call[c] \in Ended
  /\ request' = [request EXCEPT ![c] = "answered"]
  /\ UNCHANGED <<migrationVars, scannerVars, startVars, signalVars>>

-----------------------------------------------------------------------------
Next ==
  \/ \E p \in Services : Start(p) \/ MigrationBreaks(p) \/ Crash(p)
  \/ Run \/ HandleSignals \/ Signal
  \/ \E c \in Calls : Accept(c) \/ CallScanner(c) \/ Respond(c)

Spec == Init /\ [][Next]_vars

(* The goroutines run whenever they can, and docker-compose restarts what    *)
(* ends.                                                                     *)
Fairness ==
  /\ \A p \in Services : WF_vars(Start(p))
  /\ WF_vars(Run)
  /\ WF_vars(HandleSignals)

FairSpec == Spec /\ Fairness

-----------------------------------------------------------------------------
(* Properties.                                                               *)

TypeOK ==
  /\ version \in {0, 1} /\ dirty \in BOOLEAN /\ executed \in 0 .. Statements
  /\ lock \in Services \cup {NoOne}
  /\ step \in [Services -> {"idle", "lock", "check", "run", "ok", "failed"}]
  /\ fails \in 0 .. MaxFails
  /\ maxRetryTime \in RetryLimits
  /\ client \in {"open", "nil"} /\ badDial \in BOOLEAN
  /\ call \in [Calls -> {"none", "try", "dial"} \cup Ended]
  /\ tries \in [Calls -> Nat]
  /\ \A c \in Calls : tries[c] <= maxRetryTime
  /\ stage \in [Services -> {"start", "migrate", "ready", "serving", "closed"}]
  /\ opened \in [Services -> Nat]
  /\ spc \in {"init", "notified", "wait", "shutdown", "drain", "hooks", "over"}
  /\ sigs \in BOOLEAN /\ inShutdown \in BOOLEAN /\ signalled \in BOOLEAN
  /\ signals \in 0 .. MaxSignals
  /\ request \in [Calls -> {"none", "open", "answered", "cut"}]

(* No service uses MySQL before every table and the watermark row are there: *)
(* not while another one migrates, and not after a migration that broke off, *)
(* here or in another service, at whatever statement.  (What Migration takes *)
(* for an error.)                                                            *)
SchemaComplete == \A p \in Services : opened[p] > 0 => executed = Statements

(* A call of a scanner only panics when createClient has failed in this      *)
(* process, or no attempt is allowed: replacing the client under the other   *)
(* calls does them no harm.                                                  *)
PanicNeedsFailedDial ==
  \A c \in Calls : call[c] = "panic" => badDial \/ maxRetryTime = 0

(* An open request is only cut by a signal or a crash: neither a panic of a  *)
(* handler nor a failing endpoint ends the process under the others.  (Run   *)
(* waits for ListenAndServe; gin.Recovery.)                                  *)
CutOnlyFromOutside ==
  [][\A c \in Calls : request[c] = "open" /\ request'[c] = "cut" =>
       signalled \/ signals' # signals \/ fails' # fails]_vars

(* A signal this process lived through is not lost on the way: it waits in   *)
(* the channel for a goroutine that has not received yet, or Shutdown is     *)
(* about to close the listener, or has, which no later step takes back.      *)
(* (The order of Notify and the receive; srv.Shutdown before ListenAndServe.)*)
SignalKept ==
  signalled => \/ sigs /\ spc \in {"notified", "wait"}
               \/ spc = "shutdown"
               \/ inShutdown

(* A process that is sent a signal ends, wherever in its start it is: the    *)
(* channel keeps it for handleSignals, and a Shutdown before ListenAndServe  *)
(* is not forgotten.                                                         *)
SignalEnds == signalled ~> ~signalled

Started(p) == stage[p] \in {"ready", "serving", "closed"}

BrokenOff == dirty /\ \A p \in Services : step[p] # "run"


=============================================================================
