----------------------------- MODULE GameLaunch -----------------------------
(***************************************************************************)
(* The dashboard's launch panel: LaunchController (find or start the       *)
(* selected game, then run one load operation on it in a worker thread)    *)
(* and LaunchPanel (watch the game, then close the dashboard).             *)
(*                                                                         *)
(* The controller and the panel run on the Qt main thread; an action is    *)
(* one event handled to its end (Launching is left inside start(), so no   *)
(* event sees it).  Processes come and go by themselves and a process id   *)
(* may be used again.  What the load operation does to its target is not   *)
(* modelled, only that it ran on it and what it reported.                  *)
(***************************************************************************)
EXTENDS Integers, FiniteSets

CONSTANTS
    Game,       \* processes of the selected executable, one per start of it
    PidOf,      \* their process ids, positive
    NoWorker, NoGame,
    Expiry,     \* authorizationExpiry_
    MaxWaits,   \* polls of the completion watcher, 60 in the code
    MaxTime     \* bound on the clock

ASSUME LaunchAssumption ==
    /\ NoGame \notin Game
    /\ PidOf \in [Game -> Nat \ {0}]
    /\ {Expiry, MaxWaits, MaxTime} \subseteq Nat

VARIABLES
    now,
    ctl,        \* the members of LaunchController
    worker,     \* worker_: the load operation and its pending finished()
    proc,       \* what the operating system knows of each game process
    panel,      \* LaunchPanel: completion watcher, file dialog, its window
    launched,   \* history: processes the controller started
    loads       \* history: load operations begun, per process

vars == <<now, ctl, worker, proc, panel, launched, loads>>

Pid == {0} \cup {PidOf[g] : g \in Game}
ControllerState == {"Ready", "Waiting", "Loading", "Succeeded", "Failed", "Cancelled"}
Controller ==
    [state : ControllerState, timer : BOOLEAN, cancelled : BOOLEAN,
     attempted : SUBSET Pid, loadingPid : Pid, succeededPid : Pid,
     launchedPid : Pid, own : BOOLEAN]
Worker ==
    [pid : Pid, phase : {"queued", "loading", "finished"}, target : Game \cup {NoGame},
     success : BOOLEAN]
Panel ==
    [phase : {"idle", "watching", "exited", "lingering", "completed"}, waits : Nat,
     dialog : BOOLEAN, window : {"shown", "hidden", "deleted"}]

\* A terminated process is "dying" until the operating system is done with it.
ProcState == {"none", "starting", "open", "dying", "gone"}
Alive(P) == {g \in Game : P[g] \in {"starting", "open"}}
Present(P) == {g \in Game : P[g] \in {"starting", "open", "dying"}}

Expired == now >= Expiry
Running == worker # NoWorker /\ worker.phase # "finished"
Shown == panel.window = "shown"
Deleted == panel.window = "deleted"

-----------------------------------------------------------------------------
(* LaunchController's members as functions of their former values.         *)

\* findTarget: no match, the one match, or an error (several matches among
\* them); a dying process may or may not be found.
Found(P) ==
    {IF S = {} THEN 0 ELSE PidOf[CHOOSE g \in S : TRUE] :
        S \in {T \in SUBSET Present(P) : Alive(P) \subseteq T /\ Cardinality(T) <= 1}}
FindError == -1
FindResult(P) == Found(P) \cup {FindError}

Owns(c) == c.own /\ c.launchedPid # 0

stopOwnedProcess(c) == IF Owns(c) THEN [c EXCEPT !.own = FALSE, !.launchedPid = 0] ELSE c

\* TerminateProcess hits whatever process has the id now.
AfterStop(c, P) ==
    [g \in Game |-> IF Owns(c) /\ g \in Alive(P) /\ PidOf[g] = c.launchedPid
                    THEN "dying" ELSE P[g]]

Pending(c) == c.state \in {"Waiting", "Loading"}

\* Mutant: only a waiting controller stops the game it started.
cancelKeepsLoading(c) ==
    LET d == [c EXCEPT !.timer = FALSE, !.cancelled = TRUE] IN
    IF Pending(c)
    THEN [(IF c.state = "Waiting" THEN stopOwnedProcess(d) ELSE d)
             EXCEPT !.state = "Cancelled"]
    ELSE d

cancel(c) ==
    LET d == [c EXCEPT !.timer = FALSE, !.cancelled = TRUE] IN
    IF Pending(c) THEN [stopOwnedProcess(d) EXCEPT !.state = "Cancelled"] ELSE d

\* Termination follows the members: what c owned and d no longer does.
Stopped(c, d, P) == IF Owns(c) /\ d.launchedPid = 0 THEN AfterStop(c, P) ELSE P

Fail(c) == [c EXCEPT !.timer = FALSE, !.state = "Failed"]

\* Mutant: the process ids already attempted are forgotten.
LoadAgain(c, pid) == [c EXCEPT !.loadingPid = pid, !.state = "Loading"]

Load(c, pid) ==
    [c EXCEPT !.attempted = @ \cup {pid}, !.loadingPid = pid, !.state = "Loading"]

LookupFailed(found) == found = FindError

poll(c, found) ==
    IF Expired THEN cancel(c)
    ELSE IF c.state # "Waiting" THEN c
    ELSE IF LookupFailed(found) THEN Fail(c)
    ELSE IF found = 0 THEN c
    ELSE IF found \in c.attempted THEN Fail(c)
    ELSE Load(c, found)

\* QtConcurrent::run, when poll went from waiting to loading.  A new future
\* drops the finished() of the former one.
WorkerAfter(c, d) ==
    IF c.state = "Waiting" /\ d.state = "Loading"
    THEN [pid |-> d.loadingPid, phase |-> "queued", target |-> NoGame, success |-> FALSE]
    ELSE worker

-----------------------------------------------------------------------------
Init ==
    /\ now = 0
    /\ ctl = [state |-> "Ready", timer |-> FALSE, cancelled |-> FALSE,
              attempted |-> {}, loadingPid |-> 0, succeededPid |-> 0,
              launchedPid |-> 0, own |-> FALSE]
    /\ worker = NoWorker
    /\ proc = [g \in Game |-> "none"]
    /\ panel = [phase |-> "idle", waits |-> 0, dialog |-> FALSE, window |-> "shown"]
    /\ launched = {}
    /\ loads = [g \in Game |-> 0]

Tick ==
    /\ now < MaxTime
    /\ now' = now + 1
    /\ UNCHANGED <<ctl, worker, proc, panel, launched, loads>>

(* The processes.                                                          *)

PidFree(g, P) == \A h \in Present(P) : PidOf[h] # PidOf[g]

GameStarts(g) ==
    /\ proc[g] = "none" /\ PidFree(g, proc)
    /\ proc' = [proc EXCEPT ![g] = "starting"]
    /\ UNCHANGED <<now, ctl, worker, panel, launched, loads>>

WindowOpens(g) ==
    /\ proc[g] = "starting"
    /\ proc' = [proc EXCEPT ![g] = "open"]
    /\ UNCHANGED <<now, ctl, worker, panel, launched, loads>>

GameExits(g) ==
    /\ g \in Present(proc)
    /\ proc' = [proc EXCEPT ![g] = "gone"]
    /\ UNCHANGED <<now, ctl, worker, panel, launched, loads>>

(* The buttons.  The select button cancels, then runs the file dialog in a *)
(* nested event loop, and starts the controller when a file was chosen.    *)

CancelAndKeep ==
    /\ ctl' = cancel(ctl)
    /\ proc' = Stopped(ctl, ctl', proc)
    /\ UNCHANGED <<now, worker, launched, loads>>

CancelClicked ==
    /\ Shown /\ ~panel.dialog
    /\ ctl.state = "Waiting"
    /\ CancelAndKeep
    /\ UNCHANGED panel

SelectClicked ==
    /\ Shown /\ ~panel.dialog
    /\ ctl.state \notin {"Loading", "Succeeded"}
    /\ CancelAndKeep
    /\ panel' = [panel EXCEPT !.dialog = TRUE]

\* start() as the dialog ends: the guard and what is reset before the checks.
MayStart ==
    /\ Shown /\ panel.dialog
    /\ ~Running /\ ctl.state \notin {"Loading", "Succeeded"}
    /\ panel' = [panel EXCEPT !.dialog = FALSE]

Reset ==
    [stopOwnedProcess(ctl) EXCEPT !.succeededPid = 0, !.loadingPid = 0, !.timer = FALSE]

\* No file was chosen, or start() returns because a former load still runs.
DialogEnds ==
    /\ Shown /\ panel.dialog
    /\ panel' = [panel EXCEPT !.dialog = FALSE]
    /\ UNCHANGED <<now, ctl, worker, proc, launched, loads>>

\* The session is over, the files do not fit, the lookup or the launch fails.
startFails ==
    /\ MayStart
    /\ \E flag \in {ctl.cancelled, FALSE} :
          /\ Expired => flag = ctl.cancelled
          /\ ctl' = [Reset EXCEPT !.state = "Failed", !.cancelled = flag]
    /\ proc' = AfterStop(ctl, proc)
    /\ UNCHANGED <<now, worker, launched, loads>>

\* start() ends in its first poll; P and c are what it left so far.
WaitAndPoll(c, P) ==
    \E found \in FindResult(P) :
        LET d == poll(c, found) IN
        /\ ctl' = d
        /\ proc' = P
        /\ worker' = WorkerAfter(c, d)

\* Mutant: the timer is not started.
WaitingUntimed(c) == [c EXCEPT !.state = "Waiting", !.cancelled = FALSE]

Waiting(c) == [c EXCEPT !.state = "Waiting", !.timer = TRUE, !.cancelled = FALSE]

startRunning ==
    /\ MayStart /\ ~Expired
    /\ LET P == AfterStop(ctl, proc) IN
       /\ \E found \in Found(P) : found # 0
       /\ WaitAndPoll(Waiting(Reset), P)
    /\ UNCHANGED <<now, launched, loads>>

startLaunching(g) ==
    /\ MayStart /\ ~Expired
    /\ LET P == AfterStop(ctl, proc) IN
       /\ 0 \in Found(P)
       /\ P[g] = "none" /\ PidFree(g, P)
       /\ WaitAndPoll([Waiting(Reset) EXCEPT !.launchedPid = PidOf[g], !.own = TRUE],
                      [P EXCEPT ![g] = "starting"])
    /\ launched' = launched \cup {g}
    /\ UNCHANGED <<now, loads>>

\* The 500 ms timer.
PollFires ==
    /\ ~Deleted /\ ctl.timer
    /\ \E found \in FindResult(proc) :
          LET d == poll(ctl, found) IN
          /\ ctl' = d
          /\ proc' = Stopped(ctl, d, proc)
          /\ worker' = WorkerAfter(ctl, d)
    /\ UNCHANGED <<now, panel, launched, loads>>

\* Mutant: the cancellation flag is not looked at.
LoadPermittedUntilExpiry == ~Expired

LoadPermitted == ~ctl.cancelled /\ ~Expired

\* The worker looks at the flag and at the clock, then loads the process that
\* has the id, if there is one.
WorkerBegins ==
    /\ worker # NoWorker /\ worker.phase = "queued"
    /\ \/ /\ LoadPermitted
          /\ \E g \in Alive(proc) :
                /\ PidOf[g] = worker.pid
                /\ worker' = [worker EXCEPT !.phase = "loading", !.target = g]
                /\ loads' = [loads EXCEPT ![g] = @ + 1]
       \/ /\ worker' = [worker EXCEPT !.phase = "finished"]
          /\ UNCHANGED loads
    /\ UNCHANGED <<now, ctl, proc, panel, launched>>

\* loadTarget reports success only for a target that still runs.
WorkerEnds(success) ==
    /\ worker # NoWorker /\ worker.phase = "loading"
    /\ success => worker.target \in Present(proc)
    /\ worker' = [worker EXCEPT !.phase = "finished", !.success = success]
    /\ UNCHANGED <<now, ctl, proc, panel, launched, loads>>

\* completed() reaches the panel inside the handler.
PanelCompleted(pid) ==
    [panel EXCEPT !.phase = IF \E g \in Present(proc) : PidOf[g] = pid
                            THEN "watching" ELSE "completed"]

Ignored == ctl.state # "Loading" \/ ctl.cancelled

\* finished() of the worker.
LoadFinished ==
    /\ ~Deleted /\ worker # NoWorker /\ worker.phase = "finished"
    /\ worker' = NoWorker
    /\ IF Ignored THEN UNCHANGED <<ctl, proc, panel>>
       ELSE IF Expired
       THEN /\ ctl' = cancel(ctl)
            /\ proc' = Stopped(ctl, ctl', proc)
            /\ UNCHANGED panel
       ELSE IF worker.success
       THEN /\ ctl' = [ctl EXCEPT !.timer = FALSE, !.succeededPid = ctl.loadingPid,
                                  !.own = FALSE, !.state = "Succeeded"]
            /\ panel' = PanelCompleted(ctl.loadingPid)
            /\ UNCHANGED proc
       ELSE /\ ctl' = Fail(ctl)
            /\ UNCHANGED <<proc, panel>>
    /\ UNCHANGED <<now, launched, loads>>

(* The panel.                                                              *)

WatcherFires ==
    /\ ~Deleted /\ panel.phase = "watching"
    /\ LET at == {g \in Present(proc) : PidOf[g] = ctl.succeededPid} IN
       panel' = IF at = {} THEN [panel EXCEPT !.phase = "exited"]
                ELSE IF (\E g \in at : proc[g] = "open") \/ panel.waits + 1 >= MaxWaits
                THEN [panel EXCEPT !.phase = "lingering"]
                ELSE [panel EXCEPT !.waits = @ + 1]
    /\ UNCHANGED <<now, ctl, worker, proc, launched, loads>>

LingerEnds ==
    /\ ~Deleted /\ panel.phase = "lingering"
    /\ panel' = [panel EXCEPT !.phase = "completed"]
    /\ UNCHANGED <<now, ctl, worker, proc, launched, loads>>

\* The dashboard is hidden, by itself after completion, by the user, by
\* sign-out or on reauthentication, which stops the controller; it is deleted
\* when control is back in the event loop.
DashboardHides ==
    /\ Shown
    /\ panel' = [panel EXCEPT !.window = "hidden"]
    /\ CancelAndKeep

DashboardDeleted ==
    /\ panel.window = "hidden"
    /\ panel' = [panel EXCEPT !.window = "deleted"]
    /\ CancelAndKeep

System == \E g \in Game : GameStarts(g) \/ WindowOpens(g) \/ GameExits(g)

User ==
    \/ CancelClicked \/ SelectClicked \/ DialogEnds
    \/ startFails \/ startRunning \/ \E g \in Game : startLaunching(g)

Work == WorkerBegins \/ \E success \in BOOLEAN : WorkerEnds(success)

Next ==
    \/ Tick \/ System \/ User \/ Work
    \/ PollFires \/ LoadFinished \/ WatcherFires \/ LingerEnds
    \/ DashboardHides \/ DashboardDeleted

Spec == Init /\ [][Next]_vars

\* Repeating timers fire, the clock advances and the worker ends (loadTarget
\* waits 5 seconds at most).  Users and games owe nothing.
Fairness ==
    /\ WF_vars(Tick) /\ WF_vars(PollFires) /\ WF_vars(WatcherFires)
    /\ WF_vars(Work) /\ WF_vars(LoadFinished)

FairSpec == Spec /\ Fairness

-----------------------------------------------------------------------------
\* No process is loaded twice, through failures, cancellations, restarts of
\* the controller and reuse of process ids.
OneAttemptPerProcess == \A g \in Game : loads[g] <= 1

\* No load begins for a cancelled attempt, after the session's end or once
\* the dashboard is closing.
NoLateLoad ==
    [][(\E g \in Game : loads'[g] # loads[g]) =>
          ctl.state = "Loading" /\ now < Expiry /\ Shown]_vars

\* A cancelled controller leaves no game running that it started itself and
\* did not hand over to the user by loading it.
CancelStopsOwnGame ==
    ctl.state = "Cancelled" => launched \cap Alive(proc) = {}

\* Nothing stays pending after the session's end.
ExpiryEndsAttempt == (Expired /\ Pending(ctl)) ~> ~Pending(ctl)

\* The panel's comment, "If the game exits first, stay open and show why":
\* completion is reported only for a game that is there or that was seen open.
ExitKeepsPanelOpen ==
    [][(panel.phase = "idle" /\ panel'.phase = "completed") =>
          \E g \in Present(proc) : PidOf[g] = ctl.loadingPid]_vars
=============================================================================
