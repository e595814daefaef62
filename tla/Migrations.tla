----------------------------- MODULE Migrations -----------------------------
(***************************************************************************)
(* MigrateUp and MigrateDown of internal/store/migrations.go, run by any   *)
(* number of processes against one database.  Every version is a           *)
(* transaction of its own: advisory lock, look at the ledger, script,      *)
(* ledger entry, commit.  The lock is given up between two versions.       *)
(*                                                                         *)
(* The schema is the set of versions whose objects exist.  A script may    *)
(* alter a table of an earlier version (Needs); dropping that table takes  *)
(* the alteration with it.  The ledger table itself is created under the   *)
(* lock when it is missing; a missing ledger is an empty one.              *)
(***************************************************************************)
EXTENDS Integers

CONSTANTS
    Process,        \* migrate commands, one after the other in each
    LastVersion,    \* of versionedMigrations, 3 in the code
    Needs,          \* versions whose tables the scripts of a version alter
    IfExists,       \* versions whose down script tolerates missing objects
    Exclusive       \* operators never run up and down at the same time

Version == 1..LastVersion

ASSUME MigrationAssumption ==
    /\ LastVersion \in Nat \ {0}
    /\ Needs \in [Version -> SUBSET Version]
    /\ \A v \in Version : \A w \in Needs[v] : w < v
    /\ IfExists \subseteq Version
    /\ Exclusive \in BOOLEAN

VARIABLES
    ledger,     \* the rows of schema_migrations
    schema,     \* the versions whose objects exist
    run         \* what each process is doing

vars == <<ledger, schema, run>>

Run ==
    [pc : {"idle", "lock", "read", "apply"}, dir : {"up", "down"},
     at : Version, outcome : {"none", "completed", "failed"}]

\* The loops of MigrateUp and MigrateDown.
First(dir) == IF dir = "up" THEN 1 ELSE LastVersion

\* Mutant: MigrateUp stops one version short.
LastButOne(dir) == IF dir = "up" THEN LastVersion - 1 ELSE 1

Last(dir) == IF dir = "up" THEN LastVersion ELSE 1
Step(dir) == IF dir = "up" THEN 1 ELSE -1

Init ==
    /\ ledger = {}
    /\ schema = {}
    /\ run = [p \in Process |-> [pc |-> "idle", dir |-> "up", at |-> 1, outcome |-> "none"]]

Start(p, dir) ==
    /\ run[p].pc = "idle"
    /\ Exclusive => \A q \in Process : run[q].pc # "idle" => run[q].dir = dir
    /\ run' = [run EXCEPT ![p] =
            [pc |-> "lock", dir |-> dir, at |-> First(dir), outcome |-> "none"]]
    /\ UNCHANGED <<ledger, schema>>

LockFree == \A q \in Process : run[q].pc \notin {"read", "apply"}

\* pg_advisory_xact_lock.
Lock(p) ==
    /\ run[p].pc = "lock"
    /\ LockFree
    /\ run' = [run EXCEPT ![p].pc = "read"]
    /\ UNCHANGED <<ledger, schema>>

\* The transaction is over, and with it the lock: on to the next version.
Advance(p) ==
    IF run[p].at = Last(run[p].dir)
    THEN run' = [run EXCEPT ![p].pc = "idle", ![p].outcome = "completed"]
    ELSE run' = [run EXCEPT ![p].pc = "lock", ![p].at = @ + Step(run[p].dir)]

Finish(p) == run' = [run EXCEPT ![p].pc = "idle", ![p].outcome = "failed"]

NothingToDo(p) == (run[p].at \in ledger) = (run[p].dir = "up")

ReadApplied(p) ==
    /\ run[p].pc = "read"
    /\ IF NothingToDo(p)
       THEN Advance(p)
       ELSE run' = [run EXCEPT ![p].pc = "apply"]
    /\ UNCHANGED <<ledger, schema>>

\* The objects the script of p creates are not there, those it alters or drops
\* are.
ScriptApplies(p) ==
    LET v == run[p].at IN
    /\ Needs[v] \subseteq schema
    /\ IF run[p].dir = "up" THEN v \notin schema ELSE v \in schema \cup IfExists

\* Mutant: the ledger is written in a transaction that does not hold the script.
UnrecordedScript(p) ==
    /\ run[p].pc = "apply"
    /\ ScriptApplies(p)
    /\ schema' = schema \cup {run[p].at}
    /\ UNCHANGED ledger

\* What the commit makes visible: the script's effect and the ledger's entry.
CommittedScript(p) ==
    LET v == run[p].at IN
    /\ run[p].pc = "apply"
    /\ ScriptApplies(p)
    /\ IF run[p].dir = "up"
       THEN schema' = schema \cup {v} /\ ledger' = ledger \cup {v}
       ELSE /\ schema' = schema \ ({v} \cup {w \in Version : v \in Needs[w]})
            /\ ledger' = ledger \ {v}

Apply(p) == CommittedScript(p) /\ Advance(p)

\* The database commits but the process never learns it.
ApplyUnacknowledged(p) == CommittedScript(p) /\ Finish(p)

\* An error of the script (rows that violate the new constraint among them), of
\* the database, the deadline of 30 seconds or a crash: rollback.
Abort(p) ==
    /\ run[p].pc # "idle"
    /\ Finish(p)
    /\ UNCHANGED <<ledger, schema>>

Next == \E p \in Process :
    \/ \E dir \in {"up", "down"} : Start(p, dir)
    \/ Lock(p) \/ ReadApplied(p) \/ Apply(p) \/ ApplyUnacknowledged(p) \/ Abort(p)

Spec == Init /\ [][Next]_vars

-----------------------------------------------------------------------------
\* Ledger, schema and processes keep their types.
TypeOK ==
    /\ ledger \subseteq Version
    /\ schema \subseteq Version
    /\ run \in [Process -> Run]

\* The ledger tells the truth: however migrate commands of one direction
\* overlap, fail and are repeated, a version is recorded exactly when its
\* objects exist, and no version is recorded without its predecessors.
LedgerTruthful ==
    /\ schema = ledger
    /\ \A v \in ledger : \A w \in Version : w < v => w \in ledger

\* No process runs a script that fails on objects another process has already
\* created or dropped.
ScriptsApply == \A p \in Process : run[p].pc = "apply" => ScriptApplies(p)

\* A MigrateUp that returns without an error leaves every version applied,
\* whatever was applied, half done or in progress elsewhere when it started.
UpMeansCurrent ==
    [][\A p \in Process :
         (run[p].dir = "up" /\ run[p].pc # "idle" /\ run'[p].outcome = "completed")
            => ledger' = Version /\ schema' = Version]_vars
=============================================================================
