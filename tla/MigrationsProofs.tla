-------------------------- MODULE MigrationsProofs --------------------------
(***************************************************************************)
(* Migrations, proved for any number of processes and versions, when up    *)
(* and down do not run at the same time.                                   *)
(***************************************************************************)
EXTENDS Migrations, TLAPS

\* The lock excludes, and everybody at work goes in one direction.
RunInv ==
    \A p, q \in Process :
        /\ (run[p].pc \in {"read", "apply"} /\ run[q].pc \in {"read", "apply"}) => p = q
        /\ (run[p].pc # "idle" /\ run[q].pc # "idle") => run[p].dir = run[q].dir

\* What lies behind a process is done, and stays done.
PassedInv ==
    \A p \in Process : run[p].pc # "idle" => \A v \in Version :
        /\ (run[p].dir = "up" /\ v < run[p].at) => v \in ledger
        /\ (run[p].dir = "down" /\ v > run[p].at) => v \notin ledger

\* What a process read under the lock is still so.
ReadInv ==
    \A p \in Process : run[p].pc = "apply" =>
        (run[p].at \in ledger <=> run[p].dir = "down")

\* Who is at work has no outcome yet.
OutcomeInv == \A p \in Process : run[p].pc # "idle" => run[p].outcome = "none"

IInv == TypeOK /\ LedgerTruthful /\ RunInv /\ PassedInv /\ ReadInv /\ OutcomeInv

-----------------------------------------------------------------------------
LEMMA InitInv == Init => IInv
BY MigrationAssumption
   DEF Init, IInv, TypeOK, Run, Version, LedgerTruthful, RunInv, PassedInv, ReadInv, OutcomeInv

\* The last version of a direction is in range.
LEMMA NextVersion ==
    ASSUME NEW dir \in {"up", "down"}, NEW v \in Version, v # Last(dir)
    PROVE  v + Step(dir) \in Version
BY MigrationAssumption DEF Last, Step, Version

\* Steps that write neither the ledger nor the schema, and let go of nothing a
\* process knows.
LEMMA MoveKeepsInv ==
    ASSUME IInv, NEW p \in Process, NEW s \in Run,
           run' = [run EXCEPT ![p] = s], UNCHANGED <<ledger, schema>>,
           s.pc \in {"read", "apply"} =>
              \A q \in Process \ {p} : run[q].pc \notin {"read", "apply"},
           s.pc # "idle" =>
              \A q \in Process \ {p} : run[q].pc # "idle" => run[q].dir = s.dir,
           s.pc # "idle" => \A v \in Version :
              /\ (s.dir = "up" /\ v < s.at) => v \in ledger
              /\ (s.dir = "down" /\ v > s.at) => v \notin ledger,
           s.pc = "apply" => (s.at \in ledger <=> s.dir = "down"),
           s.pc # "idle" => s.outcome = "none"
    PROVE  IInv'
<1>0. run \in [Process -> Run] BY DEF IInv, TypeOK
<1>1. \A q \in Process : run'[q] = IF q = p THEN s ELSE run[q]  BY <1>0
<1>2. TypeOK' BY <1>0 DEF IInv, TypeOK
<1>3. LedgerTruthful' BY DEF IInv, LedgerTruthful
<1>4. RunInv' BY <1>1 DEF IInv, RunInv
<1>5. PassedInv' BY <1>1 DEF IInv, PassedInv
<1>6. ReadInv' BY <1>1 DEF IInv, ReadInv
<1>7. OutcomeInv' BY <1>1 DEF IInv, OutcomeInv
<1> QED BY <1>2, <1>3, <1>4, <1>5, <1>6, <1>7 DEF IInv

\* Nothing is passed before the first version.
LEMMA StartKeepsInv ==
    ASSUME Exclusive, IInv, NEW p \in Process, NEW dir \in {"up", "down"}, Start(p, dir)
    PROVE  IInv'
<1> DEFINE s == [pc |-> "lock", dir |-> dir, at |-> First(dir), outcome |-> "none"]
<1>1. s \in Run BY MigrationAssumption DEF Run, First, Version
<1>2. \A v \in Version : /\ (dir = "up" => ~(v < First(dir)))
                         /\ (dir = "down" => ~(v > First(dir)))
  BY MigrationAssumption DEF First, Version
<1>3. \A q \in Process : run[q].pc # "idle" => run[q].dir = dir BY DEF Start
<1>4. run' = [run EXCEPT ![p] = s] /\ UNCHANGED <<ledger, schema>> BY DEF Start
<1> QED BY <1>1, <1>2, <1>3, <1>4, MoveKeepsInv

LEMMA LockKeepsInv ==
    ASSUME IInv, NEW p \in Process, Lock(p)
    PROVE  IInv'
<1> DEFINE s == [run[p] EXCEPT !.pc = "read"]
<1>1. run[p] \in Run BY DEF IInv, TypeOK
<1>2. /\ s \in Run /\ s.pc = "read" /\ s.dir = run[p].dir /\ s.at = run[p].at
      /\ s.outcome = "none"
  BY <1>1 DEF Run, Lock, IInv, OutcomeInv
<1>3. run' = [run EXCEPT ![p] = s] /\ UNCHANGED <<ledger, schema>> BY DEF Lock
<1>4. run[p].pc # "idle" /\ LockFree BY DEF Lock
<1>5. \A q \in Process : run[q].pc # "idle" => run[q].dir = s.dir
  BY <1>2, <1>4 DEF IInv, RunInv
<1>6. \A v \in Version : /\ (s.dir = "up" /\ v < s.at) => v \in ledger
                         /\ (s.dir = "down" /\ v > s.at) => v \notin ledger
  BY <1>2, <1>4 DEF IInv, PassedInv
<1>7. \A q \in Process \ {p} : run[q].pc \notin {"read", "apply"}
  BY <1>4 DEF LockFree
<1> QED BY <1>2, <1>3, <1>5, <1>6, <1>7, MoveKeepsInv

LEMMA FinishKeepsInv ==
    ASSUME IInv, NEW p \in Process, Finish(p), UNCHANGED <<ledger, schema>>
    PROVE  IInv'
<1> DEFINE s == [run[p] EXCEPT !.pc = "idle", !.outcome = "failed"]
<1>1. run[p] \in Run BY DEF IInv, TypeOK
<1>2. s \in Run /\ s.pc = "idle" BY <1>1 DEF Run
<1>3. run' = [run EXCEPT ![p] = s] BY DEF Finish
<1> QED BY <1>2, <1>3, MoveKeepsInv

\* A process that goes on to the next version may say of the version it leaves
\* what the ledger says.
LEMMA AdvanceKeepsInv ==
    ASSUME IInv, NEW p \in Process, run[p].pc # "idle", Advance(p),
           UNCHANGED <<ledger, schema>>,
           (run[p].at \in ledger) <=> (run[p].dir = "up")
    PROVE  IInv'
<1>1. run[p] \in Run /\ run \in [Process -> Run] BY DEF IInv, TypeOK
<1>2. CASE run[p].at = Last(run[p].dir)
  <2> DEFINE s == [run[p] EXCEPT !.pc = "idle", !.outcome = "completed"]
  <2>1. s \in Run /\ s.pc = "idle" BY <1>1 DEF Run
  <2>2. run' = [run EXCEPT ![p] = s] BY <1>2 DEF Advance
  <2> QED BY <2>1, <2>2, MoveKeepsInv
<1>3. CASE run[p].at # Last(run[p].dir)
  <2> DEFINE s == [run[p] EXCEPT !.pc = "lock", !.at = run[p].at + Step(run[p].dir)]
  <2>1. run[p].dir \in {"up", "down"} /\ run[p].at \in Version BY <1>1 DEF Run
  <2>2. run[p].at + Step(run[p].dir) \in Version BY <1>3, <2>1, NextVersion
  <2>3. /\ s \in Run /\ s.pc = "lock" /\ s.dir = run[p].dir
        /\ s.at = run[p].at + Step(run[p].dir) /\ s.outcome = "none"
    BY <1>1, <2>2 DEF Run, IInv, OutcomeInv
  <2>4. run' = [run EXCEPT ![p] = s] BY <1>1, <1>3 DEF Advance
  <2>5. \A q \in Process : run[q].pc # "idle" => run[q].dir = s.dir
    BY <2>3 DEF IInv, RunInv
  <2>6. ASSUME NEW v \in Version
        PROVE  /\ (s.dir = "up" /\ v < s.at) => v \in ledger
               /\ (s.dir = "down" /\ v > s.at) => v \notin ledger
    <3>1. /\ s.dir = "up" /\ v < s.at => v < run[p].at \/ v = run[p].at
          /\ s.dir = "down" /\ v > s.at => v > run[p].at \/ v = run[p].at
      BY <2>1, <2>3, MigrationAssumption DEF Step, Version
    <3> QED BY <2>3, <3>1 DEF IInv, PassedInv
  <2> QED BY <2>3, <2>4, <2>5, <2>6, MoveKeepsInv
<1> QED BY <1>2, <1>3

LEMMA ReadKeepsInv ==
    ASSUME IInv, NEW p \in Process, ReadApplied(p)
    PROVE  IInv'
<1>0. run[p].pc = "read" /\ UNCHANGED <<ledger, schema>> BY DEF ReadApplied
<1>1. run[p] \in Run BY DEF IInv, TypeOK
<1>2. CASE NothingToDo(p)
  <2>1. Advance(p) BY <1>2 DEF ReadApplied
  <2>2. (run[p].at \in ledger) <=> (run[p].dir = "up") BY <1>2 DEF NothingToDo
  <2> QED BY <1>0, <2>1, <2>2, AdvanceKeepsInv
<1>3. CASE ~NothingToDo(p)
  <2> DEFINE s == [run[p] EXCEPT !.pc = "apply"]
  <2>1. /\ s \in Run /\ s.pc = "apply" /\ s.dir = run[p].dir /\ s.at = run[p].at
        /\ s.outcome = "none"
    BY <1>0, <1>1 DEF Run, IInv, OutcomeInv
  <2>2. run' = [run EXCEPT ![p] = s] BY <1>3 DEF ReadApplied
  <2>3. \A q \in Process : run[q].pc # "idle" => run[q].dir = s.dir
    BY <1>0, <2>1 DEF IInv, RunInv
  <2>4. \A v \in Version : /\ (s.dir = "up" /\ v < s.at) => v \in ledger
                           /\ (s.dir = "down" /\ v > s.at) => v \notin ledger
    BY <1>0, <2>1 DEF IInv, PassedInv
  <2>5. \A q \in Process \ {p} : run[q].pc \notin {"read", "apply"}
    BY <1>0 DEF IInv, RunInv
  <2>6. ~((run[p].at \in ledger) <=> (run[p].dir = "up")) BY <1>3 DEF NothingToDo
  <2>7. run[p].dir \in {"up", "down"} BY <1>1 DEF Run
  <2>8. (s.at \in ledger) <=> (s.dir = "down") BY <2>1, <2>6, <2>7
  <2> QED BY <1>0, <2>1, <2>2, <2>3, <2>4, <2>5, <2>8, MoveKeepsInv
<1> QED BY <1>2, <1>3

\* The script applies, and leaves schema and ledger the same set of versions
\* with all their predecessors.
LEMMA ScriptEffect ==
    ASSUME IInv, NEW p \in Process, CommittedScript(p)
    PROVE  /\ ledger' \subseteq Version
           /\ LedgerTruthful'
           /\ run[p].dir = "up" => ledger' = ledger \cup {run[p].at}
           /\ run[p].dir = "down" => ledger' = ledger \ {run[p].at}
<1> DEFINE u == run[p].at
<1>0. run[p].pc = "apply" BY DEF CommittedScript
<1>1. run[p].dir \in {"up", "down"} /\ u \in Version BY DEF IInv, TypeOK, Run
<1>2. /\ ledger \subseteq Version /\ schema = ledger
      /\ \A v \in ledger : \A w \in Version : w < v => w \in ledger
  BY DEF IInv, TypeOK, LedgerTruthful
<1>3. CASE run[p].dir = "up"
  <2>1. schema' = schema \cup {u} /\ ledger' = ledger \cup {u}
    BY <1>3 DEF CommittedScript
  <2>2. \A w \in Version : w < u => w \in ledger
    BY <1>0, <1>3 DEF IInv, PassedInv
  <2> QED BY <1>1, <1>2, <1>3, <2>1, <2>2 DEF LedgerTruthful
<1>4. CASE run[p].dir = "down"
  <2>1. /\ schema' = schema \ ({u} \cup {w \in Version : u \in Needs[w]})
        /\ ledger' = ledger \ {u}
    BY <1>4 DEF CommittedScript
  <2>2. \A w \in Version : w > u => w \notin ledger
    BY <1>0, <1>4 DEF IInv, PassedInv
  <2>3. \A w \in Version : u \in Needs[w] => u < w
    BY MigrationAssumption
  <2>4. \A w \in Version : u \in Needs[w] => w \notin ledger
    BY <1>1, <2>2, <2>3 DEF Version
  <2>5. schema' = ledger' BY <1>2, <2>1, <2>4
  <2>6. ASSUME NEW v \in ledger', NEW w \in Version, w < v
        PROVE  w \in ledger'
    <3>1. v \in ledger /\ v \in Version /\ w \in ledger BY <1>2, <2>1, <2>6
    <3>2. ~(v > u) BY <2>2, <3>1
    <3>3. w # u BY <1>1, <2>6, <3>1, <3>2 DEF Version
    <3> QED BY <2>1, <3>1, <3>3
  <2> QED BY <1>2, <1>4, <2>1, <2>5, <2>6 DEF LedgerTruthful
<1> QED BY <1>1, <1>3, <1>4

\* The commit, together with wherever the process goes from there.
LEMMA CommitKeepsInv ==
    ASSUME IInv, NEW p \in Process, CommittedScript(p), NEW s \in Run,
           run' = [run EXCEPT ![p] = s], s.pc \in {"idle", "lock"},
           s.dir = run[p].dir, s.pc = "lock" => s.outcome = "none",
           s.pc = "lock" => \A v \in Version :
              /\ (s.dir = "up" /\ v < s.at) => v < run[p].at \/ v = run[p].at
              /\ (s.dir = "down" /\ v > s.at) => v > run[p].at \/ v = run[p].at
    PROVE  IInv'
<1>0. run[p].pc = "apply" BY DEF CommittedScript
<1>1. \A q \in Process : run'[q] = IF q = p THEN s ELSE run[q]
  BY DEF IInv, TypeOK
<1>2. run[p].dir \in {"up", "down"} /\ run[p].at \in Version BY DEF IInv, TypeOK, Run
<1>3. /\ run[p].dir = "up" => ledger' = ledger \cup {run[p].at}
      /\ run[p].dir = "down" => ledger' = ledger \ {run[p].at}
      /\ ledger' \subseteq Version /\ LedgerTruthful'
  BY ScriptEffect
<1>4. \A q \in Process \ {p} : run[q].pc \notin {"read", "apply"}
                               /\ (run[q].pc # "idle" => run[q].dir = run[p].dir)
  BY <1>0 DEF IInv, RunInv
<1>5. TypeOK'
  <2>1. run' \in [Process -> Run] BY DEF IInv, TypeOK
  <2> QED BY <1>3, <2>1 DEF TypeOK, LedgerTruthful
<1>6. RunInv'
  <2> SUFFICES ASSUME NEW q \in Process, NEW r \in Process
               PROVE  /\ (run'[q].pc \in {"read", "apply"} /\ run'[r].pc \in {"read", "apply"})
                             => q = r
                      /\ (run'[q].pc # "idle" /\ run'[r].pc # "idle")
                             => run'[q].dir = run'[r].dir
    BY DEF RunInv
  <2> QED BY <1>1, <1>4
<1>7. PassedInv'
  <2> SUFFICES ASSUME NEW q \in Process, run'[q].pc # "idle", NEW v \in Version
               PROVE  /\ (run'[q].dir = "up" /\ v < run'[q].at) => v \in ledger'
                      /\ (run'[q].dir = "down" /\ v > run'[q].at) => v \notin ledger'
    BY DEF PassedInv
  <2>1. CASE q = p
    BY <1>0, <1>1, <1>2, <1>3, <2>1 DEF IInv, PassedInv
  <2>2. CASE q # p
    BY <1>1, <1>2, <1>3, <1>4, <2>2 DEF IInv, PassedInv
  <2> QED BY <2>1, <2>2
<1>8. ReadInv' BY <1>1, <1>4 DEF ReadInv
<1>9. OutcomeInv' BY <1>1 DEF IInv, OutcomeInv
<1> QED BY <1>3, <1>5, <1>6, <1>7, <1>8, <1>9 DEF IInv

LEMMA ApplyKeepsInv ==
    ASSUME IInv, NEW p \in Process, Apply(p)
    PROVE  IInv'
<1>1. CommittedScript(p) /\ Advance(p) BY DEF Apply
<1>2. run[p] \in Run BY DEF IInv, TypeOK
<1>3. CASE run[p].at = Last(run[p].dir)
  <2> DEFINE s == [run[p] EXCEPT !.pc = "idle", !.outcome = "completed"]
  <2>1. s \in Run /\ s.pc = "idle" /\ s.dir = run[p].dir BY <1>2 DEF Run
  <2>2. run' = [run EXCEPT ![p] = s] BY <1>1, <1>3 DEF Advance
  <2> QED BY <1>1, <2>1, <2>2, CommitKeepsInv
<1>4. CASE run[p].at # Last(run[p].dir)
  <2> DEFINE s == [run[p] EXCEPT !.pc = "lock", !.at = run[p].at + Step(run[p].dir)]
  <2>1. run[p].dir \in {"up", "down"} /\ run[p].at \in Version BY <1>2 DEF Run
  <2>2. run[p].at + Step(run[p].dir) \in Version BY <1>4, <2>1, NextVersion
  <2>3. /\ s \in Run /\ s.pc = "lock" /\ s.dir = run[p].dir
        /\ s.at = run[p].at + Step(run[p].dir) /\ s.outcome = "none"
    BY <1>1, <1>2, <2>2 DEF Run, IInv, OutcomeInv, CommittedScript
  <2>4. run' = [run EXCEPT ![p] = s] BY <1>1, <1>4 DEF Advance
  <2>5. ASSUME NEW v \in Version
        PROVE  /\ (s.dir = "up" /\ v < s.at) => v < run[p].at \/ v = run[p].at
               /\ (s.dir = "down" /\ v > s.at) => v > run[p].at \/ v = run[p].at
    BY <2>1, <2>3, MigrationAssumption DEF Step, Version
  <2> QED BY <1>1, <2>3, <2>4, <2>5, CommitKeepsInv
<1> QED BY <1>3, <1>4

LEMMA ApplyUnacknowledgedKeepsInv ==
    ASSUME IInv, NEW p \in Process, ApplyUnacknowledged(p)
    PROVE  IInv'
<1> DEFINE s == [run[p] EXCEPT !.pc = "idle", !.outcome = "failed"]
<1>1. CommittedScript(p) /\ Finish(p) BY DEF ApplyUnacknowledged
<1>2. run[p] \in Run BY DEF IInv, TypeOK
<1>3. s \in Run /\ s.pc = "idle" /\ s.dir = run[p].dir BY <1>2 DEF Run
<1>4. run' = [run EXCEPT ![p] = s] BY <1>1 DEF Finish
<1> QED BY <1>1, <1>3, <1>4, CommitKeepsInv

LEMMA NextInv ==
    ASSUME Exclusive, IInv, [Next]_vars
    PROVE  IInv'
<1>1. ASSUME NEW p \in Process, NEW dir \in {"up", "down"}, Start(p, dir) PROVE IInv'
  BY <1>1, StartKeepsInv
<1>2. ASSUME NEW p \in Process, Lock(p) PROVE IInv' BY <1>2, LockKeepsInv
<1>3. ASSUME NEW p \in Process, ReadApplied(p) PROVE IInv' BY <1>3, ReadKeepsInv
<1>4. ASSUME NEW p \in Process, Apply(p) PROVE IInv' BY <1>4, ApplyKeepsInv
<1>5. ASSUME NEW p \in Process, ApplyUnacknowledged(p) PROVE IInv'
  BY <1>5, ApplyUnacknowledgedKeepsInv
<1>6. ASSUME NEW p \in Process, Abort(p) PROVE IInv'
  BY <1>6, FinishKeepsInv DEF Abort
<1>7. CASE UNCHANGED vars
  BY <1>7 DEF vars, IInv, TypeOK, LedgerTruthful, RunInv, PassedInv, ReadInv, OutcomeInv
<1> QED BY <1>1, <1>2, <1>3, <1>4, <1>5, <1>6, <1>7 DEF Next

-----------------------------------------------------------------------------
\* The inductive invariant of the migrations: the lock excludes, versions that
\* a process passed stay done, and the ledger tells the truth.
THEOREM Invariance == ASSUME Exclusive PROVE Spec => []IInv
BY InitInv, NextInv, PTL DEF Spec

\* Ledger, schema and processes keep their types.
THEOREM TypeCorrectness == ASSUME Exclusive PROVE Spec => []TypeOK
<1>1. IInv => TypeOK BY DEF IInv
<1> QED BY <1>1, Invariance, PTL

\* A version is recorded exactly when its objects exist, with its predecessors.
THEOREM LedgerTruthfulHolds == ASSUME Exclusive PROVE Spec => []LedgerTruthful
<1>1. IInv => LedgerTruthful BY DEF IInv
<1> QED BY <1>1, Invariance, PTL

\* executeVersionedMigration never runs a script on a schema it does not fit.
THEOREM ScriptsApplyHolds == ASSUME Exclusive PROVE Spec => []ScriptsApply
<1>1. ASSUME IInv PROVE ScriptsApply
  <2> SUFFICES ASSUME NEW p \in Process, run[p].pc = "apply" PROVE ScriptApplies(p)
    BY DEF ScriptsApply
  <2> DEFINE u == run[p].at
  <2>1. run[p].dir \in {"up", "down"} /\ u \in Version BY <1>1 DEF IInv, TypeOK, Run
  <2>2. /\ schema = ledger
        /\ \A v \in ledger : \A w \in Version : w < v => w \in ledger
    BY <1>1 DEF IInv, LedgerTruthful
  <2>3. (u \in ledger) <=> (run[p].dir = "down") BY <1>1 DEF IInv, ReadInv
  <2>4. Needs[u] \subseteq Version /\ \A w \in Needs[u] : w < u
    BY <2>1, MigrationAssumption
  <2>5. \A w \in Version : (run[p].dir = "up" /\ w < u) => w \in ledger
    BY <1>1 DEF IInv, PassedInv
  <2>6. Needs[u] \subseteq schema BY <2>1, <2>2, <2>3, <2>4, <2>5
  <2> QED BY <2>1, <2>2, <2>3, <2>6 DEF ScriptApplies
<1> QED BY <1>1, Invariance, PTL

\* The step with which MigrateUp returns without an error finds or leaves the
\* last version recorded.
LEMMA CompletedUp ==
    ASSUME IInv, Next, NEW p \in Process,
           run[p].dir = "up", run[p].pc # "idle", run'[p].outcome = "completed"
    PROVE  LastVersion \in ledger'
<1>0. run \in [Process -> Run] /\ run[p].outcome = "none"
  BY DEF IInv, TypeOK, OutcomeInv
<1>1. ASSUME NEW q \in Process, NEW dir \in {"up", "down"}, Start(q, dir) PROVE FALSE
  BY <1>0, <1>1 DEF Start
<1>2. ASSUME NEW q \in Process, Lock(q) PROVE FALSE
  BY <1>0, <1>2 DEF Lock, Run
<1>3. ASSUME NEW q \in Process, Finish(q) PROVE FALSE
  BY <1>0, <1>3 DEF Finish, Run
<1>4. ASSUME NEW q \in Process, Advance(q) PROVE q = p /\ run[p].at = LastVersion
  BY <1>0, <1>4 DEF Advance, Run, Last
<1>5. ASSUME NEW q \in Process, ReadApplied(q) PROVE LastVersion \in ledger'
  <2>1. CASE NothingToDo(q)
    <3>1. q = p /\ run[p].at = LastVersion BY <1>4, <1>5, <2>1 DEF ReadApplied
    <3> QED BY <1>5, <2>1, <3>1 DEF NothingToDo, ReadApplied
  <2>2. CASE ~NothingToDo(q)
    BY <1>0, <1>5, <2>2 DEF ReadApplied, Run
  <2> QED BY <2>1, <2>2
<1>6. ASSUME NEW q \in Process, Apply(q) PROVE LastVersion \in ledger'
  <2>1. q = p /\ run[p].at = LastVersion BY <1>4, <1>6 DEF Apply
  <2> QED BY <1>6, <2>1, ScriptEffect DEF Apply
<1> QED BY <1>1, <1>2, <1>3, <1>5, <1>6 DEF Next, ApplyUnacknowledged, Abort

\* A MigrateUp that returns without an error leaves every version applied.
THEOREM UpMeansCurrentHolds == ASSUME Exclusive PROVE Spec => UpMeansCurrent
<1>1. ASSUME IInv, IInv', [Next]_vars
      PROVE  [\A p \in Process :
                (run[p].dir = "up" /\ run[p].pc # "idle" /\ run'[p].outcome = "completed")
                   => ledger' = Version /\ schema' = Version]_vars
  <2> SUFFICES ASSUME Next, NEW p \in Process, run[p].dir = "up",
                      run[p].pc # "idle", run'[p].outcome = "completed"
               PROVE  ledger' = Version /\ schema' = Version
    BY <1>1
  <2>1. LastVersion \in ledger' BY <1>1, CompletedUp
  <2>2. /\ ledger' \subseteq Version /\ schema' = ledger'
        /\ \A v \in ledger' : \A w \in Version : w < v => w \in ledger'
    BY <1>1 DEF IInv, TypeOK, LedgerTruthful
  <2>3. \A w \in Version : w < LastVersion \/ w = LastVersion
    BY MigrationAssumption DEF Version
  <2> QED BY <2>1, <2>2, <2>3
<1> QED BY <1>1, Invariance, PTL DEF Spec, UpMeansCurrent
=============================================================================
