------------------------------ MODULE Migrations ------------------------------
(***************************************************************************)
(* openAndMigrateDB of both processes: golang-migrate brings the schema up *)
(* before the pool is opened.  Several instances of a process (a restart,  *)
(* a second replica) boot against one database; a signal asks the run of   *)
(* migrations to stop early, and a process may die at any point of it.     *)
(***************************************************************************)
EXTENDS Naturals

CONSTANTS
  Instances,   \* processes that boot against the database
  Nobody,      \* the advisory lock is free
  Last,        \* the version of the newest migration file
  MaxFaults    \* bound on failed database calls and crashes

\* What the proofs take the constants to be.
BootAssumption == Nobody \notin Instances /\ Last \in Nat /\ MaxFaults \in Nat

VARIABLES
  version,   \* schema_migrations.version
  dirty,     \* schema_migrations.dirty
  ran,       \* how often each migration's SQL was committed
  lock,      \* who holds the advisory lock
  pc,        \* where each boot is
  signaled,  \* instances whose context is done
  stopping,  \* instances whose migrate has been told to stop
  faults     \* failed calls and crashes so far

schema == <<version, dirty, ran>>
vars == <<schema, lock, pc, signaled, stopping, faults>>

TypeOK ==
  /\ version \in 0..Last /\ dirty \in BOOLEAN
  /\ ran \in [1..Last -> Nat]
  /\ lock \in Instances \cup {Nobody}
  /\ pc \in [Instances -> {"start", "lock", "next", "run", "clean", "open",
                           "serving", "down"}]
  /\ signaled \in SUBSET Instances
  /\ stopping \in SUBSET signaled
  /\ faults \in 0..MaxFaults

Init ==
  /\ version = 0 /\ dirty = FALSE
  /\ ran = [m \in 1..Last |-> 0]
  /\ lock = Nobody
  /\ pc = [i \in Instances |-> "start"]
  /\ signaled = {} /\ stopping = {}
  /\ faults = 0

-----------------------------------------------------------------------------
InUp(i) == pc[i] \in {"lock", "next", "run", "clean"}

\* The lock goes with the connection, however Up or the process ends.
Unlock(i) == lock' = IF lock = i THEN Nobody ELSE lock

Goto(i, to) == pc' = [pc EXCEPT ![i] = to]

\* runMigrations: a context that is done ends the boot before anything is run.
Begin(i) ==
  /\ pc[i] = "start"
  /\ Goto(i, IF i \in signaled THEN "down" ELSE "lock")
  /\ UNCHANGED <<schema, lock, signaled, stopping, faults>>

\* Up takes the lock; a dirty version is an error.
Lock(i) ==
  /\ pc[i] = "lock" /\ lock = Nobody
  /\ IF dirty THEN Goto(i, "down") /\ UNCHANGED lock ELSE Goto(i, "next") /\ lock' = i
  /\ UNCHANGED <<schema, signaled, stopping, faults>>

\* ErrLockTimeout: another instance migrates for too long.
LockTimeout(i) ==
  /\ pc[i] = "lock" /\ lock # Nobody
  /\ Goto(i, "down")
  /\ UNCHANGED <<schema, lock, signaled, stopping, faults>>

\* Between two migrations: Up returns nil when it was told to stop, and nil or
\* ErrNoChange when nothing is left; runMigrations returns no error in each case.
Stop(i) ==
  /\ pc[i] = "next"
  /\ i \in stopping \/ version = Last
  /\ Goto(i, "open")
  /\ Unlock(i)
  /\ UNCHANGED <<schema, signaled, stopping, faults>>

\* SetVersion(version + 1, dirty)
Mark(i) ==
  /\ pc[i] = "next"
  /\ i \notin stopping /\ version < Last
  /\ version' = version + 1 /\ dirty' = TRUE
  /\ Goto(i, "run")
  /\ UNCHANGED <<ran, lock, signaled, stopping, faults>>

\* The file is one implicit transaction.
Run(i) ==
  /\ pc[i] = "run"
  /\ ran' = [ran EXCEPT ![version] = @ + 1]
  /\ Goto(i, "clean")
  /\ UNCHANGED <<version, dirty, lock, signaled, stopping, faults>>

\* SetVersion(version, not dirty)
Clean(i) ==
  /\ pc[i] = "clean"
  /\ dirty' = FALSE
  /\ Goto(i, "next")
  /\ UNCHANGED <<version, ran, lock, signaled, stopping, faults>>

\* Mutant: the pool is opened and pinged without the caller's context.
OpenDeaf(i) ==
  /\ pc[i] = "open"
  /\ Goto(i, "serving")
  /\ UNCHANGED <<schema, lock, signaled, stopping, faults>>

\* NewWithContext and the second ping, both under the context: a signal that cut
\* the migrations short ends the boot here.
Open(i) ==
  /\ pc[i] = "open"
  /\ Goto(i, IF i \in signaled THEN "down" ELSE "serving")
  /\ UNCHANGED <<schema, lock, signaled, stopping, faults>>

\* ctx.Done() reaches GracefulStop through the goroutine of runMigrations.
TellStop(i) ==
  /\ InUp(i) /\ i \in signaled
  /\ stopping' = stopping \cup {i}
  /\ UNCHANGED <<schema, lock, pc, signaled, faults>>

Signal(i) ==
  /\ pc[i] # "down"
  /\ signaled' = signaled \cup {i}
  /\ UNCHANGED <<schema, lock, pc, stopping, faults>>

\* A call fails and the boot with it, or the process dies: what was committed
\* stays, the rest is rolled back.
Fail(i) ==
  /\ pc[i] # "down"
  /\ faults < MaxFaults
  /\ faults' = faults + 1
  /\ Goto(i, "down")
  /\ Unlock(i)
  /\ UNCHANGED <<schema, signaled, stopping>>

\* Shutdown of a serving process, and the restart of one that is down.
Shutdown(i) ==
  /\ pc[i] = "serving" /\ i \in signaled
  /\ Goto(i, "down")
  /\ UNCHANGED <<schema, lock, signaled, stopping, faults>>

Restart(i) ==
  /\ pc[i] = "down"
  /\ Goto(i, "start")
  /\ signaled' = signaled \ {i} /\ stopping' = stopping \ {i}
  /\ UNCHANGED <<schema, lock, faults>>

Boot(i) ==
  \/ Begin(i) \/ Lock(i) \/ LockTimeout(i) \/ Stop(i) \/ Mark(i) \/ Run(i) \/ Clean(i) \/ Open(i)

Next ==
  \E i \in Instances :
    Boot(i) \/ TellStop(i) \/ Signal(i) \/ Fail(i) \/ Shutdown(i) \/ Restart(i)

Spec == Init /\ [][Next]_vars

-----------------------------------------------------------------------------
\* A process serves only on the complete schema, every migration applied exactly
\* once, whatever instances boot beside it, wherever they are stopped or die:
\* although a run of migrations that was told to stop returns no error.
SchemaBeforeServing ==
  /\ \A i \in Instances :
       pc[i] = "serving" => version = Last /\ ~dirty /\ \A m \in 1..Last : ran[m] = 1
  /\ \A m \in 1..Last : ran[m] <= 1

\* Whoever runs migrations holds the lock, and a boot that goes on to serve found
\* the schema complete.
BootAgrees(i) ==
  /\ lock = i <=> pc[i] \in {"next", "run", "clean"}
  /\ pc[i] = "next" => ~dirty
  /\ pc[i] = "run" => dirty /\ ran[version] = 0
  /\ pc[i] = "clean" => dirty /\ ran[version] = 1
  /\ pc[i] = "serving" \/ (pc[i] = "open" /\ i \notin signaled) => version = Last /\ ~dirty

\* The migrations below the version were committed once and those above it never;
\* the one at the version is in doubt only while the version is dirty.
SchemaAgrees ==
  /\ dirty => version > 0
  /\ \A m \in 1..Last :
       /\ m < version => ran[m] = 1
       /\ m = version => ran[m] = 1 \/ (dirty /\ ran[m] = 0)
       /\ m > version => ran[m] = 0

\* The inductive invariant.  A dirty version lets nobody else begin.
IInv == TypeOK /\ SchemaAgrees /\ \A i \in Instances : BootAgrees(i)
===============================================================================
