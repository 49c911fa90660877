------------------------------ MODULE Migration ------------------------------
(***************************************************************************)
(* Every service that opens MySQL runs the migrations first: Migration in  *)
(* sql.go, and migration in database_hook.go, word for word the same.  All *)
(* services start at once and share the tables, the version golang-migrate *)
(* keeps of them, and its lock.  The one migration there is is a batch of  *)
(* statements MySQL does not undo when it breaks off.                      *)
(***************************************************************************)
EXTENDS Naturals

CONSTANTS
  Services,     (* the processes                                             *)
  Statements,   (* how many statements the batch has                         *)
  MaxFails,     (* bound: failures of MySQL and of the processes             *)
  NoOne

ASSUME MigrationAssumption ==
  /\ Statements \in Nat \ {0}
  /\ MaxFails \in Nat
  /\ NoOne \notin Services

VARIABLES
  version,    (* schema_migrations.version: 0 for none, or 1                 *)
  dirty,      (* schema_migrations.dirty                                     *)
  executed,   (* how many statements of the batch have taken effect          *)
  lock,       (* who holds the lock of the migrations                        *)
  step,       (* where the migration each service runs is                    *)
  fails       (* failures so far                                             *)

schemaVars == <<version, dirty, executed>>
migrationVars == <<schemaVars, lock, step, fails>>

MigrationInit ==
  /\ version = 0 /\ dirty = FALSE /\ executed = 0
  /\ lock = NoOne
  /\ step = [p \in Services |-> "idle"]
  /\ fails = 0

GoOn(p, label) == step' = [step EXCEPT ![p] = label]

BeginMigration(p) ==
  /\ GoOn(p, "lock")
  /\ UNCHANGED <<schemaVars, lock, fails>>

(* GET_LOCK.  The wait for another holder is cut short by the read timeout   *)
(* of the connection (one second in config.yaml), which is an error.         *)
GetLock(p) ==
  /\ step[p] = "lock"
  /\ \/ lock = NoOne /\ lock' = p /\ GoOn(p, "check")
     \/ lock # NoOne /\ GoOn(p, "failed") /\ UNCHANGED lock
  /\ UNCHANGED <<schemaVars, fails>>

Finish(p, outcome) ==
  /\ GoOn(p, outcome)
  /\ lock' = NoOne
  /\ UNCHANGED fails

(* Mutant: no error of Up is taken for one.                                  *)
DirtyIgnored(p) ==
  /\ step[p] = "check"
  /\ dirty
  /\ Finish(p, "ok")
  /\ UNCHANGED schemaVars

(* Up finds that a migration was started and not finished: ErrDirty.         *)
Dirty(p) ==
  /\ step[p] = "check"
  /\ dirty
  /\ Finish(p, "failed")
  /\ UNCHANGED schemaVars


(* Up finds nothing to do: ErrNoChange, which Migration lets pass.           *)
NoChange(p) ==
  /\ step[p] = "check"
  /\ ~dirty /\ version = 1
  /\ Finish(p, "ok")
  /\ UNCHANGED schemaVars

Mark == ~dirty /\ version = 0 /\ version' = 1 /\ dirty' = TRUE

(* Up marks the schema dirty, runs the batch, and takes the mark away.       *)
MarkDirty(p) ==
  /\ step[p] = "check"
  /\ Mark
  /\ GoOn(p, "run")
  /\ UNCHANGED <<executed, lock, fails>>

RunStatement(p) ==
  /\ step[p] = "run"
  /\ executed < Statements
  /\ executed' = executed + 1
  /\ UNCHANGED <<version, dirty, lock, step, fails>>

MarkClean(p) ==
  /\ step[p] = "run"
  /\ executed = Statements
  /\ dirty' = FALSE
  /\ Finish(p, "ok")
  /\ UNCHANGED <<version, executed>>

Migrate(p) ==
  GetLock(p) \/ Dirty(p) \/ NoChange(p) \/ MarkDirty(p) \/ RunStatement(p) \/ MarkClean(p)

(* The connection is lost, with the lock on it.  MySQL may do more of the    *)
(* batch it was sent, or set the mark or take it away as it was told to.     *)
BreakOff(p, label) ==
  /\ GoOn(p, label)
  /\ lock' = IF lock = p THEN NoOne ELSE lock
  /\ \/ UNCHANGED schemaVars
     \/ step[p] = "run" /\ executed' \in executed .. Statements /\ UNCHANGED <<version, dirty>>
     \/ step[p] = "check" /\ Mark /\ UNCHANGED executed
     \/ /\ step[p] = "run" /\ executed = Statements
        /\ dirty' = FALSE /\ UNCHANGED <<version, executed>>

(* MySQL fails a call, or does not answer it in time.                        *)
MysqlFails(p) ==
  /\ fails < MaxFails
  /\ fails' = fails + 1
  /\ step[p] \in {"lock", "check", "run"}
  /\ BreakOff(p, "failed")

=============================================================================
