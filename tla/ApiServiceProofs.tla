-------------------------- MODULE ApiServiceProofs ---------------------------
(***************************************************************************)
(* Proofs about ApiService: types, that no service works on an incomplete  *)
(* schema, and that a scanner only panics after a failed dial, for any     *)
(* number of services, statements, calls and failures.                     *)
(***************************************************************************)
EXTENDS ApiService, TLAPS

Steps == {"idle", "lock", "check", "run", "ok", "failed"}

MigrationType ==
  /\ version \in {0, 1} /\ dirty \in BOOLEAN /\ executed \in 0 .. Statements
  /\ lock \in Services \cup {NoOne}
  /\ step \in [Services -> Steps]
  /\ fails \in 0 .. MaxFails

ScannerType ==
  /\ maxRetryTime \in RetryLimits
  /\ client \in {"open", "nil"} /\ badDial \in BOOLEAN
  /\ call \in [Calls -> {"none", "try", "dial"} \cup Ended]
  /\ tries \in [Calls -> Nat]
  /\ \A c \in Calls : tries[c] <= maxRetryTime
  /\ \A c \in Calls : call[c] = "dial" => tries[c] < maxRetryTime

StartType ==
  /\ stage \in [Services -> {"start", "migrate", "ready", "serving", "closed"}]
  /\ opened \in [Services -> Nat]

SignalType ==
  /\ spc \in {"init", "notified", "wait", "shutdown", "drain", "hooks", "over"}
  /\ sigs \in BOOLEAN /\ inShutdown \in BOOLEAN /\ signalled \in BOOLEAN
  /\ signals \in 0 .. MaxSignals

RequestType == request \in [Calls -> {"none", "open", "answered", "cut"}]

(* The lock is held exactly while Up reads the version and runs the batch.   *)
LockHeld == \A p \in Services : lock = p <=> step[p] \in {"check", "run"}

(* The mark stands from before the first statement until after the last one. *)
MarkTells ==
  /\ version = 0 => executed = 0 /\ ~dirty
  /\ version = 1 /\ ~dirty => executed = Statements
  /\ \A p \in Services : step[p] = "run" => dirty

(* Whoever was let past the migrations found the mark gone.                  *)
Passed ==
  \A p \in Services : step[p] = "ok" \/ opened[p] > 0 => version = 1 /\ ~dirty

(* A service migrates between OpenMysqlDatabase and NewMysqlHandler.         *)
Migrating == \A p \in Services : step[p] # "idle" <=> stage[p] = "migrate"

SchemaInv ==
  MigrationType /\ StartType /\ LockHeld /\ MarkTells /\ Passed /\ Migrating

NilNeedsFailedDial ==
  /\ client = "nil" => badDial
  /\ PanicNeedsFailedDial

ClientInv == ScannerType /\ RequestType /\ NilNeedsFailedDial

-----------------------------------------------------------------------------
(* The schema.                                                               *)

LEMMA SchemaInit == Init => SchemaInv
<1> SUFFICES ASSUME Init PROVE SchemaInv
  OBVIOUS
<1> USE MigrationAssumption DEF Init, MigrationInit
<1>1. MigrationType
  <2>1. 0 \in 0 .. Statements /\ 0 \in 0 .. MaxFails
    OBVIOUS
  <2>2. step \in [Services -> Steps]
    BY DEF Steps
  <2>3. QED
    BY <2>1, <2>2, Zenon DEF MigrationType
<1>2. StartType
  BY DEF StartType
<1>3. LockHeld /\ MarkTells /\ Passed /\ Migrating
  BY DEF LockHeld, MarkTells, Passed, Migrating
<1>4. QED
  BY <1>1, <1>2, <1>3 DEF SchemaInv

(* A migration that breaks off gives up its lock and leaves the mark.        *)
LEMMA BreakOffKeeps ==
  ASSUME SchemaInv, NEW p \in Services, NEW label \in {"idle", "failed"},
         BreakOff(p, label), fails' \in 0 .. MaxFails, StartType', Migrating',
         \A q \in Services : opened'[q] > 0 => opened[q] > 0
  PROVE  SchemaInv'
<1> USE MigrationAssumption
    DEF SchemaInv, MigrationType, StartType, LockHeld, MarkTells, Passed, Migrating, Steps,
        BreakOff, GoOn, schemaVars, Mark
<1>1. MigrationType'
  <2>1. step' \in [Services -> Steps] /\ lock' \in Services \cup {NoOne}
    OBVIOUS
  <2>2. version' \in {0, 1} /\ dirty' \in BOOLEAN
    OBVIOUS
  <2>3. executed' \in 0 .. Statements
    <3>1. executed' = executed \/ executed' \in executed .. Statements
      OBVIOUS
    <3>2. executed \in 0 .. Statements
      OBVIOUS
    <3>3. QED
      BY <3>1, <3>2
  <2>4. QED
    BY <2>1, <2>2, <2>3
<1>2. LockHeld'
  OBVIOUS
<1>3. MarkTells'
  <2>1. CASE UNCHANGED schemaVars
    BY <2>1
  <2>2. CASE step[p] = "run" /\ executed' \in executed .. Statements /\ UNCHANGED <<version, dirty>>
    BY <2>2
  <2>3. CASE step[p] = "check" /\ Mark /\ UNCHANGED executed
    BY <2>3
  <2>4. QED
    BY <2>1, <2>2, <2>3
<1>4. Passed'
  <2>1. CASE step[p] = "check" /\ Mark /\ UNCHANGED executed
    BY <2>1
  <2>2. CASE UNCHANGED <<version, dirty>>
    BY <2>2
  <2>3. QED
    BY <2>1, <2>2
<1>5. QED
  BY <1>1, <1>2, <1>3, <1>4

LEMMA MigrateKeeps ==
  ASSUME SchemaInv, NEW p \in Services, Migrate(p), UNCHANGED startVars
  PROVE  SchemaInv'
<1> USE MigrationAssumption
    DEF SchemaInv, MigrationType, StartType, LockHeld, MarkTells, Passed, Migrating, Steps,
        GoOn, Finish, schemaVars, startVars
<1>1. CASE GetLock(p)
  BY <1>1 DEF GetLock
<1>2. CASE Dirty(p)
  BY <1>2 DEF Dirty
<1>3. CASE NoChange(p)
  BY <1>3 DEF NoChange
<1>4. CASE MarkDirty(p)
  BY <1>4 DEF MarkDirty, Mark
<1>5. CASE RunStatement(p)
  BY <1>5 DEF RunStatement
<1>6. CASE MarkClean(p)
  BY <1>6 DEF MarkClean
<1>7. QED
  BY <1>1, <1>2, <1>3, <1>4, <1>5, <1>6 DEF Migrate

(* The end of a process leaves no connection of it open.                     *)
LEMMA EndKeeps ==
  ASSUME SchemaInv, NEW p \in Services, End(p), fails' \in 0 .. MaxFails
  PROVE  SchemaInv'
<1>1. StartType' /\ \A q \in Services : opened'[q] > 0 => opened[q] > 0
  BY DEF End, SetStage, SchemaInv, StartType
<1>2. Migrating'
  BY DEF End, SetStage, BreakOff, GoOn, SchemaInv, StartType, MigrationType, Steps, Migrating
<1>3. BreakOff(p, "idle")
  BY DEF End
<1>4. QED
  BY <1>1, <1>2, <1>3, BreakOffKeeps

LEMMA StartKeeps ==
  ASSUME SchemaInv, NEW p \in Services, Start(p)
  PROVE  SchemaInv'
<1> USE MigrationAssumption
<1>1. CASE OpenMysqlDatabase(p)
  <2>1. step[p] = "idle"
    BY <1>1 DEF OpenMysqlDatabase, SchemaInv, Migrating
  <2>2. QED
    BY <1>1, <2>1 DEF OpenMysqlDatabase, BeginMigration, GoOn, SetStage, SchemaInv, MigrationType,
                StartType, LockHeld, MarkTells, Passed, Migrating, Steps, schemaVars
<1>2. CASE MigrateStep(p)
  BY <1>2, MigrateKeeps DEF MigrateStep
<1>3. CASE NewMysqlHandler(p)
  BY <1>3 DEF NewMysqlHandler, GoOn, SetStage, SchemaInv, MigrationType,
              StartType, LockHeld, MarkTells, Passed, Migrating, Steps, schemaVars
<1>4. CASE HookFails(p)
  <2>1. fails' \in 0 .. MaxFails
    BY <1>4 DEF HookFails, SchemaInv, MigrationType
  <2>2. QED
    BY <1>4, <2>1, EndKeeps DEF HookFails
<1>5. QED
  BY <1>1, <1>2, <1>3, <1>4 DEF Start

LEMMA SchemaStep == SchemaInv /\ [Next]_vars => SchemaInv'
<1> SUFFICES ASSUME SchemaInv, [Next]_vars PROVE SchemaInv'
  OBVIOUS
<1> USE DEF SchemaInv
<1> DEFINE Same == UNCHANGED <<version, dirty, executed, lock, step, fails, stage, opened>>
<1>1. Same => SchemaInv'
  BY DEF MigrationType, StartType, LockHeld, MarkTells, Passed, Migrating
<1>2. ASSUME NEW p \in Services, Start(p) PROVE SchemaInv'
  BY <1>2, StartKeeps
<1>3. ASSUME NEW p \in Services, MigrationBreaks(p) PROVE SchemaInv'
  <2>1. BreakOff(p, "failed") /\ step[p] # "idle" /\ UNCHANGED startVars
    BY <1>3 DEF MigrationBreaks, MysqlFails
  <2>2. fails' \in 0 .. MaxFails
    BY <1>3, MigrationAssumption DEF MigrationBreaks, MysqlFails, MigrationType
  <2>3. StartType' /\ \A q \in Services : opened'[q] > 0 => opened[q] > 0
    BY <2>1 DEF startVars, StartType
  <2>4. Migrating'
    BY <2>1 DEF startVars, BreakOff, GoOn, MigrationType, Migrating
  <2>5. QED
    BY <2>1, <2>2, <2>3, <2>4, BreakOffKeeps
<1>4. ASSUME NEW p \in Services, Crash(p) PROVE SchemaInv'
  <2>1. End(p) /\ fails' \in 0 .. MaxFails
    BY <1>4, MigrationAssumption DEF Crash, MigrationType
  <2>2. QED
    BY <2>1, EndKeeps
<1>5. ASSUME End(Api), UNCHANGED fails PROVE SchemaInv'
  <2>1. fails' \in 0 .. MaxFails
    BY <1>5 DEF MigrationType
  <2>2. QED
    BY <1>5, <2>1, EndKeeps, ApiServiceAssumption
<1>6. CASE Run
  <2>1. CASE RunReturns
    BY <1>5, <2>1 DEF RunReturns
  <2>2. CASE ListenAndServe \/ ServerClosed
    <3>1. PICK label \in {"serving", "closed"} : SetStage(Api, label) /\ stage[Api] \in {"ready", "serving"}
      BY <2>2 DEF ListenAndServe, ServerClosed
    <3>2. UNCHANGED <<migrationVars, opened>>
      BY <2>2 DEF ListenAndServe, ServerClosed
    <3>3. MigrationType' /\ LockHeld' /\ MarkTells' /\ Passed'
      BY <3>2 DEF migrationVars, schemaVars, MigrationType, LockHeld, MarkTells, Passed
    <3>4. StartType' /\ Migrating'
      BY <3>1, <3>2, ApiServiceAssumption
      DEF SetStage, StartType, Migrating, migrationVars
    <3>5. QED
      BY <3>3, <3>4
  <2>3. QED
    BY <1>6, <2>1, <2>2 DEF Run
<1>7. CASE HandleSignals
  BY <1>1, <1>7
  DEF HandleSignals, Notify, Wait, Receive, CloseListener, ContextDone, CallDestroyHooks,
      SignalStep, migrationVars, schemaVars, startVars
<1>8. CASE Signal
  BY <1>1, <1>5, <1>8 DEF Signal, Signalled, migrationVars, schemaVars, startVars
<1>9. ASSUME NEW c \in Calls, Accept(c) \/ CallScanner(c) \/ Respond(c) PROVE SchemaInv'
  BY <1>1, <1>9 DEF Accept, CallScanner, Respond, migrationVars, schemaVars, startVars
<1>10. CASE UNCHANGED vars
  BY <1>1, <1>10 DEF vars, migrationVars, schemaVars, startVars
<1>11. QED
  BY <1>2, <1>3, <1>4, <1>6, <1>7, <1>8, <1>9, <1>10 DEF Next

LEMMA SchemaAlways == Spec => []SchemaInv
  BY SchemaInit, SchemaStep, PTL DEF Spec

(* No service works on an incomplete schema, whoever migrates it and however *)
(* often that breaks off (Migration in sql.go, golang-migrate).              *)
THEOREM SchemaIsComplete == Spec => []SchemaComplete
<1>1. SchemaInv => SchemaComplete
  BY DEF SchemaInv, Passed, MarkTells, SchemaComplete
<1>2. QED
  BY <1>1, SchemaAlways, PTL

-----------------------------------------------------------------------------
(* The shared client.                                                        *)

LEMMA ClientInit == Init => ClientInv
<1> SUFFICES ASSUME Init PROVE ClientInv
  OBVIOUS
<1> USE ScannerAssumption DEF Init, ScannerInit
<1>1. ScannerType
  <2>1. maxRetryTime \in Nat
    OBVIOUS
  <2>2. \A c \in Calls : tries[c] = 0 /\ call[c] = "none"
    OBVIOUS
  <2>3. \A c \in Calls : tries[c] <= maxRetryTime
    BY <2>1, <2>2
  <2>4. call \in [Calls -> {"none", "try", "dial"} \cup Ended] /\ tries \in [Calls -> Nat]
    OBVIOUS
  <2>5. QED
    BY <2>2, <2>3, <2>4, Zenon DEF ScannerType
<1>2. RequestType /\ NilNeedsFailedDial
  BY DEF RequestType, NilNeedsFailedDial, PanicNeedsFailedDial
<1>3. QED
  BY <1>1, <1>2 DEF ClientInv

LEMMA ScanKeeps ==
  ASSUME ScannerType, NilNeedsFailedDial, NEW c \in Calls, Scan(c)
  PROVE  ScannerType' /\ NilNeedsFailedDial'
<1> USE ScannerAssumption
    DEF ScannerType, NilNeedsFailedDial, PanicNeedsFailedDial, Ended, At, Failed, clientVars
<1>1. CASE Attempt(c)
  BY <1>1 DEF Attempt
<1>2. CASE CreateClient(c)
  <2>1. CASE client' = "open" /\ At(c, "try") /\ Failed(c) /\ UNCHANGED badDial
    <3>1. tries'[c] = tries[c] + 1 /\ tries[c] < maxRetryTime /\ maxRetryTime' = maxRetryTime
      BY <1>2, <2>1 DEF CreateClient
    <3>2. \A d \in Calls \ {c} : tries'[d] = tries[d] /\ call'[d] = call[d]
      BY <2>1
    <3>3. tries[c] \in Nat /\ maxRetryTime \in Nat
      OBVIOUS
    <3>4. \A d \in Calls : tries'[d] <= maxRetryTime'
      BY <3>1, <3>2, <3>3
    <3>5. call'[c] = "try"
      BY <2>1
    <3>6. QED
      BY <1>2, <2>1, <3>1, <3>2, <3>4, <3>5 DEF CreateClient
  <2>2. CASE client' = "nil" /\ At(c, "panic") /\ badDial' = TRUE /\ UNCHANGED tries
    BY <1>2, <2>2 DEF CreateClient
  <2>3. QED
    BY <1>2, <2>1, <2>2 DEF CreateClient
<1>3. CASE Dereference(c)
  BY <1>3 DEF Dereference
<1>4. CASE GiveUp(c)
  BY <1>4 DEF GiveUp
<1>5. QED
  BY <1>1, <1>2, <1>3, <1>4 DEF Scan

(* The next process has a client of its own.                                 *)
LEMMA EndKeepsClient ==
  ASSUME ClientInv, NEW p \in Services, End(p)
  PROVE  ClientInv'
<1>1. CASE p = Api
  <2>1. EndOfApi
    BY <1>1 DEF End
  <2>2. ScannerType'
    <3>1. maxRetryTime' \in Nat /\ maxRetryTime' \in RetryLimits
      BY <2>1, ScannerAssumption DEF EndOfApi, ClientInv, ScannerType
    <3>2. \A c \in Calls : tries'[c] = 0 /\ call'[c] = "none"
      BY <2>1 DEF EndOfApi
    <3>3. \A c \in Calls : tries'[c] <= maxRetryTime'
      BY <3>1, <3>2
    <3>4. call' \in [Calls -> {"none", "try", "dial"} \cup Ended] /\ tries' \in [Calls -> Nat]
      BY <2>1 DEF EndOfApi
    <3>5. client' = "open" /\ badDial' = FALSE
      BY <2>1 DEF EndOfApi
    <3>6. QED
      BY <3>1, <3>2, <3>3, <3>4, <3>5, Zenon DEF ScannerType
  <2>3. RequestType'
    BY <2>1 DEF EndOfApi, ClientInv, RequestType
  <2>4. NilNeedsFailedDial'
    BY <2>1 DEF EndOfApi, NilNeedsFailedDial, PanicNeedsFailedDial
  <2>5. QED
    BY <2>2, <2>3, <2>4 DEF ClientInv
<1>2. CASE p # Api
  BY <1>2 DEF End, ClientInv, ScannerType, RequestType, NilNeedsFailedDial, PanicNeedsFailedDial,
              scannerVars, clientVars, callVars
<1>3. QED
  BY <1>1, <1>2

LEMMA ClientStep == ClientInv /\ [Next]_vars => ClientInv'
<1> SUFFICES ASSUME ClientInv, [Next]_vars PROVE ClientInv'
  OBVIOUS
<1>1. UNCHANGED <<scannerVars, request>> => ClientInv'
  BY DEF ClientInv, ScannerType, RequestType, NilNeedsFailedDial, PanicNeedsFailedDial,
         scannerVars, clientVars, callVars
<1>2. ASSUME NEW p \in Services, Start(p) PROVE ClientInv'
  <2>1. CASE HookFails(p)
    BY <2>1, EndKeepsClient DEF HookFails
  <2>2. CASE OpenMysqlDatabase(p) \/ MigrateStep(p) \/ NewMysqlHandler(p)
    BY <1>1, <2>2 DEF OpenMysqlDatabase, MigrateStep, NewMysqlHandler
  <2>3. QED
    BY <1>2, <2>1, <2>2 DEF Start
<1>3. ASSUME NEW p \in Services, MigrationBreaks(p) PROVE ClientInv'
  BY <1>1, <1>3 DEF MigrationBreaks
<1>4. ASSUME NEW p \in Services, Crash(p) PROVE ClientInv'
  BY <1>4, EndKeepsClient DEF Crash
<1>5. End(Api) => ClientInv'
  BY EndKeepsClient, ApiServiceAssumption
<1>6. CASE Run
  BY <1>1, <1>5, <1>6 DEF Run, ListenAndServe, ServerClosed, RunReturns
<1>7. CASE HandleSignals
  BY <1>1, <1>7
  DEF HandleSignals, Notify, Wait, Receive, CloseListener, ContextDone, CallDestroyHooks, SignalStep
<1>8. CASE Signal
  BY <1>1, <1>5, <1>8 DEF Signal, Signalled
<1>9. ASSUME NEW c \in Calls, Accept(c) PROVE ClientInv'
  BY <1>9, ScannerAssumption
  DEF Accept, Begin, At, ClientInv, ScannerType, RequestType, NilNeedsFailedDial,
      PanicNeedsFailedDial, clientVars, Ended
<1>10. ASSUME NEW c \in Calls, CallScanner(c) PROVE ClientInv'
  <2>1. ScannerType' /\ NilNeedsFailedDial'
    BY <1>10, ScanKeeps DEF CallScanner, ClientInv
  <2>2. RequestType'
    BY <1>10 DEF CallScanner, ClientInv, RequestType
  <2>3. QED
    BY <2>1, <2>2 DEF ClientInv
<1>11. ASSUME NEW c \in Calls, Respond(c) PROVE ClientInv'
  BY <1>11
  DEF Respond, ClientInv, ScannerType, RequestType, NilNeedsFailedDial,
      PanicNeedsFailedDial, scannerVars, clientVars, callVars
<1>12. CASE UNCHANGED vars
  BY <1>1, <1>12 DEF vars
<1>13. QED
  BY <1>2, <1>3, <1>4, <1>6, <1>7, <1>8, <1>9, <1>10, <1>11, <1>12 DEF Next

LEMMA ClientAlways == Spec => []ClientInv
  BY ClientInit, ClientStep, PTL DEF Spec

(* A call of a scanner only panics after createClient has failed, or when no *)
(* attempt is allowed, however many calls replace the client at a time.      *)
THEOREM NoPanicWithoutFailedDial == Spec => []PanicNeedsFailedDial
<1>1. ClientInv => PanicNeedsFailedDial
  BY DEF ClientInv, NilNeedsFailedDial
<1>2. QED
  BY <1>1, ClientAlways, PTL

-----------------------------------------------------------------------------
(* The end of a process.                                                     *)

(* Run only gets past ListenAndServe after srv.Shutdown, which only a signal *)
(* this process was sent leads to.                                           *)
SignalInv ==
  /\ SignalType
  /\ sigs \/ spc \in {"shutdown", "drain", "hooks", "over"} => signalled
  /\ inShutdown => signalled
  /\ stage[Api] = "closed" => inShutdown
  /\ spc \in {"drain", "hooks", "over"} => inShutdown
  /\ SignalKept

(* Requests are open while the server is.                                    *)
OpenWhileServing ==
  \A c \in Calls : request[c] = "open" => stage[Api] \in {"serving", "closed"}

ProcessInv == SignalInv /\ OpenWhileServing

LEMMA ProcessInit == Init => ProcessInv
<1> SUFFICES ASSUME Init PROVE ProcessInv
  OBVIOUS
<1>1. signals \in 0 .. MaxSignals
  BY ApiServiceAssumption DEF Init
<1>2. stage[Api] = "start"
  BY ApiServiceAssumption DEF Init
<1>3. QED
  BY <1>1, <1>2 DEF Init, ProcessInv, SignalInv, SignalKept, SignalType, OpenWhileServing

LEMMA EndKeepsProcess ==
  ASSUME ProcessInv, StartType, RequestType, NEW p \in Services, End(p),
         signals' \in 0 .. MaxSignals
  PROVE  ProcessInv'
<1>1. CASE p = Api
  <2>1. stage'[Api] = "start"
    BY <1>1, ApiServiceAssumption DEF End, SetStage, StartType
  <2>2. EndOfApi
    BY <1>1 DEF End
  <2>3. \A c \in Calls : request'[c] # "open"
    BY <2>2 DEF EndOfApi, RequestType
  <2>4. QED
    BY <2>1, <2>2, <2>3
    DEF EndOfApi, ProcessInv, SignalInv, SignalKept, SignalType, OpenWhileServing
<1>2. CASE p # Api
  <2>1. stage'[Api] = stage[Api]
    BY <1>2, ApiServiceAssumption DEF End, SetStage, StartType
  <2>2. UNCHANGED <<spc, sigs, inShutdown, signalled, request>>
    BY <1>2 DEF End
  <2>3. QED
    BY <2>1, <2>2 DEF ProcessInv, SignalInv, SignalKept, SignalType, OpenWhileServing
<1>3. QED
  BY <1>1, <1>2

LEMMA ProcessStep ==
  ProcessInv /\ SchemaInv /\ ClientInv /\ [Next]_vars => ProcessInv'
<1> SUFFICES ASSUME ProcessInv, SchemaInv, ClientInv, [Next]_vars PROVE ProcessInv'
  OBVIOUS
<1>a. StartType /\ Migrating /\ RequestType /\ SignalType
  BY DEF SchemaInv, ClientInv, ProcessInv, SignalInv
<1>1. UNCHANGED <<signalVars, request>> /\ stage'[Api] = stage[Api] => ProcessInv'
  BY DEF ProcessInv, SignalInv, SignalKept, SignalType, OpenWhileServing, signalVars
<1>2. ASSUME NEW p \in Services, End(p), UNCHANGED signals PROVE ProcessInv'
  BY <1>2, <1>a, EndKeepsProcess DEF SignalType
<1>3. ASSUME NEW p \in Services, Start(p) PROVE ProcessInv'
  <2>1. CASE HookFails(p)
    BY <1>2, <2>1 DEF HookFails
  <2>2. CASE MigrateStep(p)
    BY <1>1, <2>2 DEF MigrateStep, startVars
  <2>3. CASE OpenMysqlDatabase(p) \/ NewMysqlHandler(p)
    <3>1. UNCHANGED <<signalVars, request>>
      BY <2>3 DEF OpenMysqlDatabase, NewMysqlHandler
    <3>2. stage[p] \in {"start", "migrate"} /\ stage'[p] \in {"start", "migrate", "ready"}
          /\ \A q \in Services \ {p} : stage'[q] = stage[q]
      BY <2>3, <1>a DEF OpenMysqlDatabase, NewMysqlHandler, SetStage, StartType, Migrating
    <3>3. CASE p = Api
      BY <3>1, <3>2, <3>3, <1>a
      DEF ProcessInv, SignalInv, SignalKept, SignalType, OpenWhileServing, signalVars
    <3>4. CASE p # Api
      BY <1>1, <3>1, <3>2, <3>4, ApiServiceAssumption
    <3>5. QED
      BY <3>3, <3>4
  <2>4. QED
    BY <1>3, <2>1, <2>2, <2>3 DEF Start
<1>4. ASSUME NEW p \in Services, MigrationBreaks(p) PROVE ProcessInv'
  BY <1>1, <1>4 DEF MigrationBreaks, startVars
<1>5. ASSUME NEW p \in Services, Crash(p) PROVE ProcessInv'
  BY <1>2, <1>5 DEF Crash
<1>6. CASE Run
  <2>1. CASE RunReturns
    BY <1>2, <2>1, ApiServiceAssumption DEF RunReturns
  <2>2. CASE ListenAndServe \/ ServerClosed
    <3>1. UNCHANGED <<signalVars, request>>
      BY <2>2 DEF ListenAndServe, ServerClosed
    <3>2. stage'[Api] \in {"serving", "closed"} /\ (stage'[Api] = "closed" => inShutdown)
      BY <2>2, <1>a, ApiServiceAssumption DEF ListenAndServe, ServerClosed, SetStage, StartType
    <3>3. QED
      BY <3>1, <3>2 DEF ProcessInv, SignalInv, SignalKept, SignalType, OpenWhileServing, signalVars
  <2>3. QED
    BY <1>6, <2>1, <2>2 DEF Run
<1>7. CASE HandleSignals
  <2>1. UNCHANGED <<stage, request, signals, signalled>>
    BY <1>7
    DEF HandleSignals, Notify, Wait, Receive, CloseListener, ContextDone, CallDestroyHooks,
        SignalStep, startVars
  <2>2. SignalType'
    BY <1>7, <1>a, <2>1
    DEF HandleSignals, Notify, Wait, Receive, CloseListener, ContextDone, CallDestroyHooks,
        SignalStep, SignalType
  <2>3. /\ sigs' \/ spc' \in {"shutdown", "drain", "hooks", "over"} => signalled
        /\ inShutdown' => signalled
        /\ inShutdown => inShutdown'
        /\ spc' \in {"drain", "hooks", "over"} => inShutdown'
        /\ SignalKept'
    BY <1>7
    DEF HandleSignals, Notify, Wait, Receive, CloseListener, ContextDone, CallDestroyHooks,
        SignalStep, ProcessInv, SignalInv, SignalKept
  <2>4. QED
    BY <2>1, <2>2, <2>3 DEF ProcessInv, SignalInv, SignalKept, OpenWhileServing
<1>8. CASE Signal
  <2>1. signals' \in 0 .. MaxSignals
    BY <1>8, <1>a, ApiServiceAssumption DEF Signal, SignalType
  <2>2. CASE End(Api)
    BY <2>1, <2>2, <1>a, EndKeepsProcess, ApiServiceAssumption
  <2>3. CASE spc # "init" /\ sigs' = TRUE /\ Signalled
    BY <2>1, <2>3
    DEF Signalled, ProcessInv, SignalInv, SignalKept, SignalType, OpenWhileServing, startVars
  <2>4. QED
    BY <1>8, <2>2, <2>3 DEF Signal
<1>9. ASSUME NEW c \in Calls, Accept(c) PROVE ProcessInv'
  BY <1>9, <1>a
  DEF Accept, ProcessInv, SignalInv, SignalKept, SignalType, OpenWhileServing, signalVars,
      startVars, RequestType
<1>10. ASSUME NEW c \in Calls, CallScanner(c) PROVE ProcessInv'
  BY <1>1, <1>10 DEF CallScanner, startVars
<1>11. ASSUME NEW c \in Calls, Respond(c) PROVE ProcessInv'
  BY <1>11, <1>a
  DEF Respond, ProcessInv, SignalInv, SignalKept, SignalType, OpenWhileServing, signalVars,
      startVars, RequestType
<1>12. CASE UNCHANGED vars
  BY <1>1, <1>12 DEF vars, startVars
<1>13. QED
  BY <1>3, <1>4, <1>5, <1>6, <1>7, <1>8, <1>9, <1>10, <1>11, <1>12 DEF Next

LEMMA ProcessAlways == Spec => []ProcessInv
  BY ProcessInit, ProcessStep, SchemaAlways, ClientAlways, PTL DEF Spec

(* Every variable keeps its type: no call of a scanner fails more often than *)
(* MAX_RETRY_TIME allows.                                                    *)
THEOREM ApiServiceTypeCorrect == Spec => []TypeOK
<1>1. SchemaInv /\ ClientInv /\ ProcessInv => TypeOK
  BY DEF SchemaInv, ClientInv, ProcessInv, SignalInv, MigrationType, ScannerType, StartType,
         SignalType, RequestType, Steps, TypeOK
<1>2. QED
  BY <1>1, SchemaAlways, ClientAlways, ProcessAlways, PTL

(* An open request is cut by a signal or a crash, and by nothing else: a     *)
(* failing migration, a panic of a handler and the end of Run cannot be the  *)
(* reason.                                                                   *)
THEOREM CutsComeFromOutside == Spec => CutOnlyFromOutside
<1> DEFINE Cut(c) == request[c] = "open" /\ request'[c] = "cut"
           Outside == signalled \/ signals' # signals \/ fails' # fails
<1>1. ASSUME ProcessInv, SchemaInv, ClientInv, [Next]_vars, NEW c \in Calls, Cut(c)
      PROVE  Outside
  <2>1. stage[Api] \in {"serving", "closed"}
    BY <1>1 DEF ProcessInv, OpenWhileServing
  <2>2. request' # request
    BY <1>1
  <2>3. CASE Signal
    BY <2>3, <1>1, ApiServiceAssumption DEF Signal, ProcessInv, SignalInv, SignalType
  <2>4. CASE Run
    BY <2>4, <2>2, <1>1 DEF Run, RunReturns, ListenAndServe, ServerClosed, ProcessInv, SignalInv
  <2>5. ASSUME NEW p \in Services, Crash(p) PROVE Outside
    BY <2>5, <1>1, MigrationAssumption DEF Crash, SchemaInv, MigrationType
  <2>6. ASSUME NEW p \in Services, HookFails(p) PROVE FALSE
    <3>1. stage[p] = "migrate"
      BY <2>6, <1>1 DEF HookFails, SchemaInv, Migrating
    <3>2. p # Api
      BY <3>1, <2>1
    <3>3. QED
      BY <3>2, <2>6, <2>2 DEF HookFails, End
  <2>7. ASSUME NEW p \in Services, Start(p) PROVE FALSE
    BY <2>6, <2>7, <2>2 DEF Start, OpenMysqlDatabase, MigrateStep, NewMysqlHandler
  <2>8. ASSUME NEW p \in Services, MigrationBreaks(p) PROVE FALSE
    BY <2>8, <2>2 DEF MigrationBreaks
  <2>9. CASE HandleSignals
    BY <2>9, <2>2
    DEF HandleSignals, Notify, Wait, Receive, CloseListener, ContextDone, CallDestroyHooks, SignalStep
  <2>10. ASSUME NEW d \in Calls, Accept(d) \/ CallScanner(d) \/ Respond(d) PROVE FALSE
    BY <2>10, <1>1 DEF Accept, CallScanner, Respond, ClientInv, RequestType
  <2>11. CASE UNCHANGED vars
    BY <2>11, <2>2 DEF vars
  <2>12. QED
    BY <1>1, <2>3, <2>4, <2>5, <2>7, <2>8, <2>9, <2>10, <2>11 DEF Next
<1>2. ProcessInv /\ SchemaInv /\ ClientInv /\ [Next]_vars => \A c \in Calls : Cut(c) => Outside
  BY <1>1
<1>3. QED
  BY <1>2, SchemaAlways, ClientAlways, ProcessAlways, PTL DEF Spec, CutOnlyFromOutside

(* A signal sent once Notify was called leads to the end: it stays in the    *)
(* channel until it is received, whenever it comes, and a Shutdown begun is  *)
(* not forgotten, before ListenAndServe either.                              *)
THEOREM SignalIsKept == Spec => []SignalKept
<1>1. ProcessInv => SignalKept
  BY DEF ProcessInv, SignalInv
<1>2. QED
  BY <1>1, ProcessAlways, PTL

=============================================================================
