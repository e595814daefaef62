-------------------------- MODULE GameLaunchProofs --------------------------
(***************************************************************************)
(* Proofs about GameLaunch: for every set of games, every assignment of    *)
(* process ids to them and every expiry, the three safety properties of    *)
(* the launch panel hold in every behaviour.                               *)
(***************************************************************************)
EXTENDS GameLaunch, FiniteSetTheorems, TLAPS

\* The members' types, and the operating system's.
TypeInv ==
    /\ now \in Nat
    /\ ctl \in Controller
    /\ worker \in Worker \cup {NoWorker}
    /\ proc \in [Game -> ProcState]
    /\ panel \in Panel
    /\ launched \subseteq Game
    /\ loads \in [Game -> Nat]

Queued == worker # NoWorker /\ worker.phase = "queued"

\* attemptedPids_ remembers every process loaded so far, at most once each.
AttemptsRemembered ==
    \A g \in Game : loads[g] <= 1 /\ (loads[g] = 1 => PidOf[g] \in ctl.attempted)

\* A worker that has not begun is about a process id no load was begun for.
QueuedFresh ==
    Queued => /\ worker.pid \in ctl.attempted
              /\ \A g \in Game : PidOf[g] = worker.pid => loads[g] = 0

\* ... and is the current attempt's, or the attempt was cancelled.
QueuedCurrent == Queued /\ ~ctl.cancelled => ctl.state = "Loading" /\ Shown

\* The poll timer runs only under a visible dashboard.
TimerShown == ctl.timer => Shown

\* A game the controller started and that still runs is the one it would
\* terminate, until it was handed over.
OwnsLaunched ==
    ctl.state # "Succeeded" =>
        \A g \in launched \cap Alive(proc) : Owns(ctl) /\ ctl.launchedPid = PidOf[g]
CancelledOwnsNothing == ctl.state = "Cancelled" => ~Owns(ctl)
LaunchedStarted == \A g \in launched : proc[g] # "none"

Inv ==
    /\ TypeInv
    /\ AttemptsRemembered /\ QueuedFresh
    /\ QueuedCurrent /\ TimerShown
    /\ OwnsLaunched /\ CancelledOwnsNothing /\ LaunchedStarted

-----------------------------------------------------------------------------
(* The controller's operators.                                             *)

\* stopOwnedProcess keeps all but the ownership, which ends.
LEMMA StopFacts ==
    ASSUME NEW c \in Controller
    PROVE  LET d == stopOwnedProcess(c) IN
           /\ d \in Controller
           /\ ~Owns(d)
           /\ Owns(c) => d.launchedPid = 0
           /\ ~Owns(c) => d = c
           /\ d.state = c.state /\ d.timer = c.timer /\ d.cancelled = c.cancelled
           /\ d.attempted = c.attempted
  BY DEF stopOwnedProcess, Owns, Controller, Pid

\* cancel stops the timer, sets the flag and ends a pending attempt.
LEMMA CancelFacts ==
    ASSUME NEW c \in Controller
    PROVE  LET d == cancel(c) IN
           /\ d \in Controller
           /\ d.cancelled /\ ~d.timer
           /\ d.attempted = c.attempted
           /\ Pending(c) => /\ d.state = "Cancelled" /\ ~Owns(d)
                            /\ Owns(c) => d.launchedPid = 0
           /\ ~Pending(c) => /\ d.state = c.state /\ d.launchedPid = c.launchedPid
                             /\ Owns(d) = Owns(c)
  <1> DEFINE e == [c EXCEPT !.timer = FALSE, !.cancelled = TRUE]
  <1>1. /\ e \in Controller
        /\ e.cancelled /\ ~e.timer
        /\ e.attempted = c.attempted /\ e.state = c.state
        /\ e.launchedPid = c.launchedPid /\ e.own = c.own
    BY DEF Controller
  <1>2. Owns(e) = Owns(c)
    BY <1>1 DEF Owns
  <1>3. cancel(c) = IF Pending(c) THEN [stopOwnedProcess(e) EXCEPT !.state = "Cancelled"]
                    ELSE e
    BY DEF cancel
  <1> HIDE DEF e
  <1>4. CASE ~Pending(c)
    BY <1>1, <1>2, <1>3, <1>4
  <1>5. CASE Pending(c)
    <2> DEFINE s == stopOwnedProcess(e)
    <2>1. /\ s \in Controller /\ ~Owns(s) /\ (Owns(e) => s.launchedPid = 0)
          /\ s.timer = e.timer /\ s.cancelled = e.cancelled /\ s.attempted = e.attempted
      BY <1>1, StopFacts
    <2>2. cancel(c) = [s EXCEPT !.state = "Cancelled"]
      BY <1>3, <1>5
    <2> HIDE DEF s
    <2>3. [s EXCEPT !.state = "Cancelled"] \in Controller
      BY <2>1 DEF Controller, ControllerState
    <2>4. LET d == [s EXCEPT !.state = "Cancelled"] IN
          /\ d.state = "Cancelled" /\ d.timer = s.timer /\ d.cancelled = s.cancelled
          /\ d.attempted = s.attempted /\ d.launchedPid = s.launchedPid /\ d.own = s.own
      BY <2>1 DEF Controller
    <2> QED BY <1>1, <1>2, <1>5, <2>1, <2>2, <2>3, <2>4 DEF Owns
  <1> QED BY <1>4, <1>5

\* A load is begun for an id that was not attempted; the attempt is recorded.
LEMMA LoadFacts ==
    ASSUME NEW c \in Controller, NEW p \in Pid
    PROVE  LET d == Load(c, p) IN
           /\ d \in Controller
           /\ d.state = "Loading" /\ d.loadingPid = p
           /\ d.attempted = c.attempted \cup {p}
           /\ d.timer = c.timer /\ d.cancelled = c.cancelled
           /\ d.launchedPid = c.launchedPid /\ Owns(d) = Owns(c)
  <1>1. Load(c, p) \in Controller
    BY DEF Load, Controller, ControllerState
  <1>2. LET d == Load(c, p) IN
        /\ d.state = "Loading" /\ d.loadingPid = p
        /\ d.attempted = c.attempted \cup {p}
        /\ d.timer = c.timer /\ d.cancelled = c.cancelled
        /\ d.launchedPid = c.launchedPid /\ d.own = c.own
    BY DEF Load, Controller
  <1> QED BY <1>1, <1>2 DEF Owns

\* A failed attempt keeps what the controller owns.
LEMMA FailFacts ==
    ASSUME NEW c \in Controller
    PROVE  LET d == Fail(c) IN
           /\ d \in Controller
           /\ d.state = "Failed" /\ ~d.timer
           /\ d.attempted = c.attempted /\ d.cancelled = c.cancelled
           /\ d.launchedPid = c.launchedPid /\ Owns(d) = Owns(c)
  <1>1. Fail(c) \in Controller
    BY DEF Fail, Controller, ControllerState
  <1>2. LET d == Fail(c) IN
        /\ d.state = "Failed" /\ ~d.timer
        /\ d.attempted = c.attempted /\ d.cancelled = c.cancelled
        /\ d.launchedPid = c.launchedPid /\ d.own = c.own
    BY DEF Fail, Controller
  <1> QED BY <1>1, <1>2 DEF Owns

\* findTarget returns zero, an error, or the id of a game.
LEMMA FindFacts ==
    ASSUME NEW P
    PROVE  /\ FindResult(P) \subseteq Pid \cup {FindError}
           /\ FindError \notin Pid
  <1>1. \A S \in SUBSET Game : S # {} => (CHOOSE g \in S : TRUE) \in Game
    <2> TAKE S \in SUBSET Game
    <2> HAVE S # {}
    <2>1. (CHOOSE g \in S : TRUE) \in S
      OBVIOUS
    <2> QED BY <2>1
  <1>2. Found(P) \subseteq Pid
    <2> SUFFICES ASSUME NEW f \in Found(P) PROVE f \in Pid
      OBVIOUS
    <2>1. PICK S \in SUBSET Present(P) :
             f = IF S = {} THEN 0 ELSE PidOf[CHOOSE g \in S : TRUE]
      BY DEF Found
    <2>2. S \in SUBSET Game
      BY DEF Present
    <2> QED BY <1>1, <2>1, <2>2 DEF Pid
  <1>3. FindError \notin Pid
    BY LaunchAssumption DEF FindError, Pid
  <1> QED BY <1>2, <1>3 DEF FindResult

\* What a poll may do: cancel an expired attempt, leave it, fail it, or go
\* from waiting to loading a process id that was never attempted.
LEMMA PollFacts ==
    ASSUME NEW c \in Controller, NEW found \in Pid \cup {FindError}
    PROVE  \/ Expired /\ poll(c, found) = cancel(c)
           \/ ~Expired /\ poll(c, found) = c
           \/ ~Expired /\ c.state = "Waiting" /\ poll(c, found) = Fail(c)
           \/ /\ ~Expired /\ c.state = "Waiting"
              /\ found \in Pid /\ found \notin c.attempted
              /\ poll(c, found) = Load(c, found)
  BY DEF poll, LookupFailed

\* Termination ends what the controller owns and starts nothing.
LEMMA AfterStopFacts ==
    ASSUME NEW c \in Controller, NEW P \in [Game -> ProcState]
    PROVE  LET Q == AfterStop(c, P) IN
           /\ Q \in [Game -> ProcState]
           /\ Alive(Q) \subseteq Alive(P)
           /\ \A g \in Game : Q[g] = "none" <=> P[g] = "none"
           /\ Owns(c) => \A g \in Alive(Q) : PidOf[g] # c.launchedPid
  BY DEF AfterStop, Alive, ProcState

LEMMA StoppedFacts ==
    ASSUME NEW c \in Controller, NEW d \in Controller, NEW P \in [Game -> ProcState]
    PROVE  LET Q == Stopped(c, d, P) IN
           /\ Q \in [Game -> ProcState]
           /\ Alive(Q) \subseteq Alive(P)
           /\ \A g \in Game : Q[g] = "none" <=> P[g] = "none"
           /\ Owns(c) /\ d.launchedPid = 0 => \A g \in Alive(Q) : PidOf[g] # c.launchedPid
           /\ ~Owns(c) \/ d.launchedPid # 0 => Q = P
  BY AfterStopFacts DEF Stopped

-----------------------------------------------------------------------------
(* The kinds of steps.                                                     *)

\* Steps of the processes, the clock and the panel.
LEMMA QuietStep ==
    ASSUME Inv, UNCHANGED <<ctl, worker, launched, loads>>,
           now' \in Nat,
           panel' \in Panel, panel'.window = panel.window,
           proc' \in [Game -> ProcState],
           \A g \in launched : /\ proc'[g] # "none"
                               /\ g \in Alive(proc') => g \in Alive(proc)
    PROVE  Inv'
  <1>1. TypeInv'
    BY DEF Inv, TypeInv
  <1>2. AttemptsRemembered' /\ QueuedFresh' /\ QueuedCurrent' /\ TimerShown'
    BY DEF Inv, AttemptsRemembered, QueuedFresh, QueuedCurrent, TimerShown, Queued, Shown
  <1>3. OwnsLaunched' /\ CancelledOwnsNothing' /\ LaunchedStarted'
    BY DEF Inv, OwnsLaunched, CancelledOwnsNothing, LaunchedStarted
  <1> QED BY <1>1, <1>2, <1>3 DEF Inv

\* cancel, with whatever becomes of the panel.
LEMMA CancelStep ==
    ASSUME Inv, CancelAndKeep, panel' \in Panel
    PROVE  Inv'
  <1>1. ctl \in Controller /\ proc \in [Game -> ProcState]
    BY DEF Inv, TypeInv
  <1> DEFINE d == cancel(ctl)
  <1>2. /\ ctl' = d /\ proc' = Stopped(ctl, d, proc)
        /\ UNCHANGED <<now, worker, launched, loads>>
    BY DEF CancelAndKeep
  <1>3. /\ d \in Controller
        /\ d.cancelled /\ ~d.timer
        /\ d.attempted = ctl.attempted
        /\ Pending(ctl) => /\ d.state = "Cancelled" /\ ~Owns(d)
                           /\ Owns(ctl) => d.launchedPid = 0
        /\ ~Pending(ctl) => /\ d.state = ctl.state /\ d.launchedPid = ctl.launchedPid
                            /\ Owns(d) = Owns(ctl)
    BY <1>1, CancelFacts
  <1> HIDE DEF d
  <1> DEFINE Q == Stopped(ctl, d, proc)
  <1>4. /\ Q \in [Game -> ProcState]
        /\ Alive(Q) \subseteq Alive(proc)
        /\ \A g \in Game : Q[g] = "none" <=> proc[g] = "none"
        /\ Owns(ctl) /\ d.launchedPid = 0 => \A g \in Alive(Q) : PidOf[g] # ctl.launchedPid
    BY <1>1, <1>3, StoppedFacts
  <1> HIDE DEF Q
  <1>5. TypeInv'
    BY <1>2, <1>3, <1>4 DEF Inv, TypeInv, Q
  <1>6. AttemptsRemembered' /\ QueuedFresh' /\ QueuedCurrent' /\ TimerShown'
    BY <1>2, <1>3 DEF Inv, AttemptsRemembered, QueuedFresh, QueuedCurrent, TimerShown, Queued
  <1>7. OwnsLaunched' /\ CancelledOwnsNothing'
    <2>1. /\ d.state # "Succeeded" =>
              \A g \in launched \cap Alive(Q) : Owns(d) /\ d.launchedPid = PidOf[g]
          /\ d.state = "Cancelled" => ~Owns(d)
      BY <1>3, <1>4 DEF Inv, OwnsLaunched, CancelledOwnsNothing, Pending
    <2>2. PICK e, R : e = d /\ R = Q
      OBVIOUS
    <2>3. ctl' = e /\ proc' = R /\ launched' = launched
      BY <1>2, <2>2 DEF Q
    <2> QED BY <2>1, <2>2, <2>3 DEF OwnsLaunched, CancelledOwnsNothing
  <1>8. LaunchedStarted'
    BY <1>2, <1>4 DEF Inv, TypeInv, LaunchedStarted, Q
  <1> QED BY <1>5, <1>6, <1>7, <1>8 DEF Inv

\* A poll of controller c among processes P: c and P are what the timer finds
\* or what start() has made of them.
LEMMA PollStep ==
    ASSUME Inv, NEW c \in Controller, NEW P \in [Game -> ProcState],
           NEW L \in SUBSET Game, NEW found \in FindResult(P),
           c.timer, Shown, c.attempted = ctl.attempted,
           Queued /\ ~c.cancelled => c.state = "Loading",
           c.state # "Succeeded" =>
               \A g \in L \cap Alive(P) : Owns(c) /\ c.launchedPid = PidOf[g],
           c.state = "Cancelled" => ~Owns(c),
           \A g \in L : P[g] # "none",
           ctl' = poll(c, found), worker' = WorkerAfter(c, poll(c, found)),
           proc' = Stopped(c, poll(c, found), P),
           launched' = L, loads' = loads, now' = now,
           panel' \in Panel, panel'.window = panel.window
    PROVE  Inv'
  <1>1. found \in Pid \cup {FindError}
    BY FindFacts
  <1>2. PICK d : d = poll(c, found)
    OBVIOUS
  <1>3. PICK Q : Q = Stopped(c, d, P)
    OBVIOUS
  <1>4. ctl' = d /\ proc' = Q /\ worker' = WorkerAfter(c, d)
    BY <1>2, <1>3
  <1>5. \/ d = cancel(c)
        \/ d = c
        \/ c.state = "Waiting" /\ d = Fail(c)
        \/ /\ c.state = "Waiting"
           /\ found \in Pid /\ found \notin c.attempted
           /\ d = Load(c, found)
    BY <1>1, <1>2, PollFacts
  <1>6. d \in Controller
    BY <1>5, CancelFacts, FailFacts, LoadFacts
  <1>7. /\ Q \in [Game -> ProcState]
        /\ Alive(Q) \subseteq Alive(P)
        /\ \A g \in Game : Q[g] = "none" <=> P[g] = "none"
        /\ Owns(c) /\ d.launchedPid = 0 => \A g \in Alive(Q) : PidOf[g] # c.launchedPid
    BY <1>3, <1>6, StoppedFacts
  <1>8. panel'.window = "shown"
    BY DEF Shown
  <1>9. OwnsLaunched' /\ CancelledOwnsNothing' /\ LaunchedStarted'
    <2>1. /\ d.state # "Succeeded" =>
              \A g \in L \cap Alive(Q) : Owns(d) /\ d.launchedPid = PidOf[g]
          /\ d.state = "Cancelled" => ~Owns(d)
      <3>1. CASE d = cancel(c)
        BY <1>7, <3>1, CancelFacts DEF Pending
      <3>2. CASE d = c
        BY <1>7, <3>2
      <3>3. CASE c.state = "Waiting" /\ d = Fail(c)
        BY <1>7, <3>3, FailFacts
      <3>4. CASE c.state = "Waiting" /\ found \in Pid /\ d = Load(c, found)
        BY <1>7, <3>4, LoadFacts
      <3> QED BY <1>5, <3>1, <3>2, <3>3, <3>4
    <2> QED BY <1>4, <1>7, <2>1 DEF OwnsLaunched, CancelledOwnsNothing, LaunchedStarted
  <1>10. CASE c.state = "Waiting" /\ d.state = "Loading"
    <2>1. /\ c.state = "Waiting" /\ found \in Pid /\ found \notin c.attempted
          /\ d = Load(c, found)
      BY <1>5, <1>10, CancelFacts, FailFacts DEF Pending
    <2>2. /\ d.loadingPid = found /\ d.attempted = c.attempted \cup {found}
          /\ d.timer = c.timer /\ d.cancelled = c.cancelled
      BY <2>1, LoadFacts
    <2>3. worker' = [pid |-> found, phase |-> "queued", target |-> NoGame, success |-> FALSE]
      BY <1>4, <1>10, <2>2 DEF WorkerAfter
    <2>4. TypeInv'
      <3>1. worker' \in Worker
        BY <2>1, <2>3 DEF Worker
      <3> QED BY <1>4, <1>6, <1>7, <3>1 DEF Inv, TypeInv
    <2>5. AttemptsRemembered'
      BY <1>4, <2>2 DEF Inv, AttemptsRemembered
    <2>6. QueuedFresh'
      <3>1. \A g \in Game : PidOf[g] = found => loads[g] = 0
        BY <2>1 DEF Inv, TypeInv, AttemptsRemembered
      <3> QED BY <1>4, <2>2, <2>3, <3>1 DEF QueuedFresh
    <2>7. QueuedCurrent' /\ TimerShown'
      BY <1>4, <1>8, <1>10 DEF QueuedCurrent, TimerShown, Shown
    <2> QED BY <1>9, <2>4, <2>5, <2>6, <2>7 DEF Inv
  <1>11. CASE ~(c.state = "Waiting" /\ d.state = "Loading")
    <2>1. worker' = worker
      BY <1>4, <1>11 DEF WorkerAfter
    <2>2. \/ d.cancelled /\ d.attempted = c.attempted
          \/ d = c
          \/ c.state = "Waiting" /\ d.attempted = c.attempted /\ d.cancelled = c.cancelled
      BY <1>5, <1>11, CancelFacts, FailFacts, LoadFacts
    <2>3. TypeInv'
      BY <1>4, <1>6, <1>7, <2>1 DEF Inv, TypeInv
    <2>4. AttemptsRemembered' /\ QueuedFresh'
      BY <1>4, <2>1, <2>2 DEF Inv, AttemptsRemembered, QueuedFresh, Queued
    <2>5. QueuedCurrent' /\ TimerShown'
      BY <1>4, <1>8, <2>1, <2>2 DEF QueuedCurrent, TimerShown, Shown, Queued
    <2> QED BY <1>9, <2>3, <2>4, <2>5 DEF Inv
  <1> QED BY <1>10, <1>11

-----------------------------------------------------------------------------
(* The actions.                                                            *)

LEMMA InitInv == Init => Inv
  <1> SUFFICES ASSUME Init PROVE Inv
    OBVIOUS
  <1> USE DEF Init
  <1>1. TypeInv
    <2>1. ctl \in Controller
      BY DEF Controller, ControllerState, Pid
    <2>2. panel \in Panel
      BY DEF Panel
    <2> QED BY <2>1, <2>2, LaunchAssumption DEF TypeInv, ProcState
  <1>2. AttemptsRemembered /\ QueuedFresh /\ QueuedCurrent /\ TimerShown
    BY DEF AttemptsRemembered, QueuedFresh, QueuedCurrent, TimerShown, Queued
  <1>3. OwnsLaunched /\ CancelledOwnsNothing /\ LaunchedStarted
    BY DEF OwnsLaunched, CancelledOwnsNothing, LaunchedStarted, Owns
  <1> QED BY <1>1, <1>2, <1>3 DEF Inv

LEMMA SystemStep == Inv /\ (Tick \/ System) => Inv'
  <1> SUFFICES ASSUME Inv, Tick \/ System PROVE Inv'
    OBVIOUS
  <1>1. TypeInv /\ LaunchedStarted
    BY DEF Inv
  <1>2. CASE Tick
    BY <1>1, <1>2, QuietStep DEF Tick, TypeInv, LaunchedStarted
  <1>3. CASE System
    <2>1. PICK g \in Game : GameStarts(g) \/ WindowOpens(g) \/ GameExits(g)
      BY <1>3 DEF System
    <2>2. UNCHANGED <<now, ctl, worker, panel, launched, loads>>
      BY <2>1 DEF GameStarts, WindowOpens, GameExits
    <2>3. proc' \in [Game -> ProcState]
      BY <1>1, <2>1 DEF GameStarts, WindowOpens, GameExits, TypeInv, ProcState
    <2>4. \A h \in launched : proc'[h] # "none" /\ (h \in Alive(proc') => h \in Alive(proc))
      BY <1>1, <2>1 DEF GameStarts, WindowOpens, GameExits, TypeInv, LaunchedStarted,
                        Alive, Present
    <2> QED BY <1>1, <2>2, <2>3, <2>4, QuietStep DEF TypeInv
  <1> QED BY <1>2, <1>3

\* The panel's own steps leave its window alone.
LEMMA PanelStep == Inv /\ (DialogEnds \/ WatcherFires \/ LingerEnds) => Inv'
  <1> SUFFICES ASSUME Inv, DialogEnds \/ WatcherFires \/ LingerEnds PROVE Inv'
    OBVIOUS
  <1>1. TypeInv /\ LaunchedStarted
    BY DEF Inv
  <1>2. UNCHANGED <<now, ctl, worker, proc, launched, loads>>
    BY DEF DialogEnds, WatcherFires, LingerEnds
  <1>3. \/ panel' = [panel EXCEPT !.dialog = FALSE]
        \/ \E p \in {"exited", "lingering", "completed"} : panel' = [panel EXCEPT !.phase = p]
        \/ panel' = [panel EXCEPT !.waits = @ + 1]
    BY DEF DialogEnds, WatcherFires, LingerEnds
  <1>4. panel' \in Panel /\ panel'.window = panel.window
    <2>1. panel \in Panel
      BY <1>1 DEF TypeInv
    <2>2. CASE panel' = [panel EXCEPT !.dialog = FALSE]
      BY <2>1, <2>2 DEF Panel
    <2>3. ASSUME NEW p \in {"exited", "lingering", "completed"},
                 panel' = [panel EXCEPT !.phase = p]
          PROVE  panel' \in Panel /\ panel'.window = panel.window
      BY <2>1, <2>3 DEF Panel
    <2>4. CASE panel' = [panel EXCEPT !.waits = @ + 1]
      BY <2>1, <2>4 DEF Panel
    <2> QED BY <1>3, <2>2, <2>3, <2>4
  <1> QED BY <1>1, <1>2, <1>4, QuietStep DEF TypeInv, LaunchedStarted

LEMMA CancellingStep ==
    Inv /\ (CancelClicked \/ SelectClicked \/ DashboardHides \/ DashboardDeleted) => Inv'
  <1> SUFFICES ASSUME Inv,
                      CancelClicked \/ SelectClicked \/ DashboardHides \/ DashboardDeleted
               PROVE  Inv'
    OBVIOUS
  <1>1. CancelAndKeep
    BY DEF CancelClicked, SelectClicked, DashboardHides, DashboardDeleted
  <1>2. \/ panel' = panel
        \/ panel' = [panel EXCEPT !.dialog = TRUE]
        \/ \E w \in {"hidden", "deleted"} : panel' = [panel EXCEPT !.window = w]
    BY DEF CancelClicked, SelectClicked, DashboardHides, DashboardDeleted
  <1>3. panel' \in Panel
    BY <1>2 DEF Inv, TypeInv, Panel
  <1> QED BY <1>1, <1>3, CancelStep

\* What start() resets, and the processes after it: nothing launched is left.
LEMMA ResetFacts ==
    ASSUME Inv, MayStart
    PROVE  /\ Reset \in Controller
           /\ Reset.state = ctl.state /\ Reset.cancelled = ctl.cancelled
           /\ Reset.attempted = ctl.attempted /\ ~Owns(Reset) /\ ~Reset.timer
           /\ AfterStop(ctl, proc) \in [Game -> ProcState]
           /\ launched \cap Alive(AfterStop(ctl, proc)) = {}
           /\ \A g \in launched : AfterStop(ctl, proc)[g] # "none"
           /\ panel' \in Panel /\ panel'.window = panel.window /\ Shown /\ ~Queued
  <1>1. ctl \in Controller /\ proc \in [Game -> ProcState] /\ panel \in Panel
    BY DEF Inv, TypeInv
  <1>2. PICK s : s = stopOwnedProcess(ctl)
    OBVIOUS
  <1>3. /\ s \in Controller /\ ~Owns(s) /\ s.state = ctl.state
        /\ s.cancelled = ctl.cancelled /\ s.attempted = ctl.attempted
    BY <1>1, <1>2, StopFacts
  <1>4. Reset = [s EXCEPT !.succeededPid = 0, !.loadingPid = 0, !.timer = FALSE]
    BY <1>2 DEF Reset
  <1>5. Reset \in Controller
    BY <1>3, <1>4 DEF Controller, Pid
  <1>6. /\ Reset.state = s.state /\ Reset.cancelled = s.cancelled
        /\ Reset.attempted = s.attempted /\ ~Reset.timer
        /\ Reset.own = s.own /\ Reset.launchedPid = s.launchedPid
    BY <1>3, <1>4 DEF Controller
  <1>7. ~Owns(Reset)
    BY <1>3, <1>6 DEF Owns
  <1>8. launched \cap Alive(AfterStop(ctl, proc)) = {}
    <2>1. \A g \in launched \cap Alive(proc) : Owns(ctl) /\ ctl.launchedPid = PidOf[g]
      BY DEF Inv, OwnsLaunched, MayStart
    <2> QED BY <1>1, <2>1, AfterStopFacts
  <1>9. /\ AfterStop(ctl, proc) \in [Game -> ProcState]
        /\ \A g \in launched : AfterStop(ctl, proc)[g] # "none"
    BY <1>1, AfterStopFacts DEF Inv, TypeInv, LaunchedStarted
  <1>10. panel' \in Panel /\ panel'.window = panel.window
    BY <1>1 DEF MayStart, Panel
  <1>11. Shown /\ ~Queued
    BY DEF MayStart, Running, Queued
  <1> QED BY <1>3, <1>5, <1>6, <1>7, <1>8, <1>9, <1>10, <1>11

LEMMA StartFailsStep == Inv /\ startFails => Inv'
  <1> SUFFICES ASSUME Inv, startFails PROVE Inv'
    OBVIOUS
  <1>1. MayStart
    BY DEF startFails
  <1>2. PICK r \in Controller, Q \in [Game -> ProcState] : r = Reset /\ Q = AfterStop(ctl, proc)
    BY <1>1, ResetFacts
  <1>3. /\ r.attempted = ctl.attempted /\ ~Owns(r) /\ ~r.timer
        /\ launched \cap Alive(Q) = {} /\ \A g \in launched : Q[g] # "none"
        /\ panel' \in Panel /\ panel'.window = panel.window /\ ~Queued
    BY <1>1, <1>2, ResetFacts
  <1>4. PICK flag \in BOOLEAN : ctl' = [r EXCEPT !.state = "Failed", !.cancelled = flag]
    BY <1>2 DEF startFails, Inv, TypeInv, Controller
  <1>5. proc' = Q /\ UNCHANGED <<now, worker, launched, loads>>
    BY <1>2 DEF startFails
  <1>6. ctl' \in Controller
    BY <1>4 DEF Controller, ControllerState
  <1>7. ctl'.state = "Failed" /\ ctl'.attempted = ctl.attempted /\ ~ctl'.timer
    BY <1>3, <1>4 DEF Controller
  <1>8. TypeInv'
    BY <1>3, <1>5, <1>6 DEF Inv, TypeInv
  <1>9. AttemptsRemembered' /\ QueuedFresh' /\ QueuedCurrent' /\ TimerShown'
    BY <1>3, <1>5, <1>7 DEF Inv, AttemptsRemembered, QueuedFresh, QueuedCurrent, TimerShown, Queued
  <1>10. OwnsLaunched' /\ CancelledOwnsNothing' /\ LaunchedStarted'
    BY <1>3, <1>5, <1>7 DEF OwnsLaunched, CancelledOwnsNothing, LaunchedStarted
  <1> QED BY <1>8, <1>9, <1>10 DEF Inv

\* poll of a controller that has not expired gives up nothing it owns.
LEMMA UnexpiredPollStops ==
    ASSUME ~Expired, NEW c \in Controller, NEW P, NEW found \in Pid \cup {FindError}
    PROVE  Stopped(c, poll(c, found), P) = P
  <1>1. Owns(c) => poll(c, found).launchedPid # 0
    BY PollFacts, FailFacts, LoadFacts DEF Owns
  <1> QED BY <1>1 DEF Stopped

LEMMA StartStep == Inv /\ (startRunning \/ \E g \in Game : startLaunching(g)) => Inv'
  <1> SUFFICES ASSUME Inv, startRunning \/ \E g \in Game : startLaunching(g) PROVE Inv'
    OBVIOUS
  <1>1. MayStart /\ ~Expired
    BY DEF startRunning, startLaunching
  <1>2. PICK r \in Controller, Q \in [Game -> ProcState] : r = Reset /\ Q = AfterStop(ctl, proc)
    BY <1>1, ResetFacts
  <1>3. /\ r.attempted = ctl.attempted /\ ~Owns(r)
        /\ launched \cap Alive(Q) = {} /\ \A g \in launched : Q[g] # "none"
        /\ panel' \in Panel /\ panel'.window = panel.window /\ Shown /\ ~Queued
    BY <1>1, <1>2, ResetFacts
  <1>4. PICK w : w = Waiting(r)
    OBVIOUS
  <1>5. w \in Controller
    BY <1>4 DEF Waiting, Controller, ControllerState
  <1>6. /\ w.state = "Waiting" /\ w.timer /\ w.attempted = r.attempted
        /\ w.own = r.own /\ w.launchedPid = r.launchedPid
    BY <1>4 DEF Waiting, Controller
  <1>7. CASE startRunning
    <2>1. WaitAndPoll(w, Q) /\ UNCHANGED <<now, launched, loads>>
      BY <1>2, <1>4, <1>7 DEF startRunning
    <2>2. PICK found \in FindResult(Q) :
             /\ ctl' = poll(w, found) /\ proc' = Q
             /\ worker' = WorkerAfter(w, poll(w, found))
      BY <2>1 DEF WaitAndPoll
    <2>3. proc' = Stopped(w, poll(w, found), Q)
      BY <1>1, <1>5, <2>2, FindFacts, UnexpiredPollStops
    <2>4. launched \in SUBSET Game
      BY DEF Inv, TypeInv
    <2> QED BY <1>3, <1>5, <1>6, <2>1, <2>2, <2>3, <2>4, PollStep
  <1>8. ASSUME NEW g \in Game, startLaunching(g) PROVE Inv'
    <2> DEFINE c == [w EXCEPT !.launchedPid = PidOf[g], !.own = TRUE]
               P == [Q EXCEPT ![g] = "starting"]
               L == launched \cup {g}
    <2>1. /\ WaitAndPoll(c, P) /\ launched' = L /\ UNCHANGED <<now, loads>>
          /\ Q[g] = "none"
      BY <1>2, <1>4, <1>8 DEF startLaunching
    <2>2. c \in Controller
      BY <1>5 DEF Controller, Pid
    <2>3. /\ c.state = "Waiting" /\ c.timer /\ c.attempted = w.attempted
          /\ c.own = TRUE /\ c.launchedPid = PidOf[g]
      BY <1>5, <1>6 DEF Controller
    <2>4. Owns(c)
      BY <2>3, LaunchAssumption DEF Owns
    <2>5. P \in [Game -> ProcState] /\ P[g] = "starting"
      BY DEF ProcState
    <2>6. /\ \A h \in L : P[h] # "none"
          /\ \A h \in L \cap Alive(P) : h = g
      BY <1>3, <2>1, <2>5 DEF Inv, TypeInv, Alive
    <2>7. L \in SUBSET Game
      BY DEF Inv, TypeInv
    <2> HIDE DEF c, P, L
    <2>8. PICK found \in FindResult(P) :
             /\ ctl' = poll(c, found) /\ proc' = P
             /\ worker' = WorkerAfter(c, poll(c, found))
      BY <2>1 DEF WaitAndPoll
    <2>9. proc' = Stopped(c, poll(c, found), P)
      BY <1>1, <2>2, <2>8, FindFacts, UnexpiredPollStops
    <2> QED BY <1>3, <1>6, <2>1, <2>2, <2>3, <2>4, <2>5, <2>6, <2>7, <2>8, <2>9, PollStep
  <1> QED BY <1>7, <1>8

\* A worker that has begun or finished is bound by nothing but its type.
LEMMA WorkStep == Inv /\ Work => Inv'
  <1> SUFFICES ASSUME Inv, Work PROVE Inv'
    OBVIOUS
  <1>1. UNCHANGED <<now, ctl, proc, panel, launched>>
    BY DEF Work, WorkerBegins, WorkerEnds
  <1>2. /\ TypeInv /\ AttemptsRemembered /\ QueuedFresh
        /\ TimerShown /\ OwnsLaunched /\ CancelledOwnsNothing /\ LaunchedStarted
    BY DEF Inv
  <1>3. TimerShown' /\ OwnsLaunched' /\ CancelledOwnsNothing' /\ LaunchedStarted'
    BY <1>1, <1>2 DEF TimerShown, Shown, OwnsLaunched, CancelledOwnsNothing, LaunchedStarted
  <1>4. worker \in Worker
    BY <1>2 DEF Work, WorkerBegins, WorkerEnds, TypeInv
  <1>5. SUFFICES /\ worker' \in Worker /\ worker'.phase # "queued"
                 /\ loads' \in [Game -> Nat] /\ AttemptsRemembered'
    <2>1. TypeInv'
      BY <1>1, <1>2, <1>5 DEF TypeInv
    <2>2. QueuedFresh' /\ QueuedCurrent'
      BY <1>5 DEF QueuedFresh, QueuedCurrent, Queued
    <2> QED BY <1>3, <1>5, <2>1, <2>2 DEF Inv
  <1>6. CASE UNCHANGED loads
    <2>1. AttemptsRemembered' /\ loads' \in [Game -> Nat]
      BY <1>1, <1>2, <1>6 DEF AttemptsRemembered, TypeInv
    <2>2. \/ worker' = [worker EXCEPT !.phase = "finished"]
          \/ \E s \in BOOLEAN : worker' = [worker EXCEPT !.phase = "finished", !.success = s]
          \/ \E g \in Game : worker' = [worker EXCEPT !.phase = "loading", !.target = g]
      BY DEF Work, WorkerBegins, WorkerEnds, Alive
    <2>3. worker' \in Worker /\ worker'.phase # "queued"
      <3>1. CASE worker' = [worker EXCEPT !.phase = "finished"]
        BY <1>4, <3>1 DEF Worker
      <3>2. ASSUME NEW s \in BOOLEAN,
                   worker' = [worker EXCEPT !.phase = "finished", !.success = s]
            PROVE  worker' \in Worker /\ worker'.phase # "queued"
        BY <1>4, <3>2 DEF Worker
      <3>3. ASSUME NEW g \in Game, worker' = [worker EXCEPT !.phase = "loading", !.target = g]
            PROVE  worker' \in Worker /\ worker'.phase # "queued"
        BY <1>4, <3>3 DEF Worker
      <3> QED BY <2>2, <3>1, <3>2, <3>3
    <2> QED BY <2>1, <2>3
  <1>7. CASE ~UNCHANGED loads
    <2>1. Queued
      BY <1>7 DEF Work, WorkerBegins, WorkerEnds, Queued
    <2>2. PICK g \in Game : /\ PidOf[g] = worker.pid
                            /\ worker' = [worker EXCEPT !.phase = "loading", !.target = g]
                            /\ loads' = [loads EXCEPT ![g] = @ + 1]
      BY <1>7 DEF Work, WorkerBegins, WorkerEnds, Alive
    <2>3. worker' \in Worker /\ worker'.phase # "queued"
      BY <1>4, <2>2 DEF Worker
    <2>4. loads[g] = 0 /\ PidOf[g] \in ctl.attempted
      BY <1>2, <2>1, <2>2 DEF QueuedFresh
    <2>5. loads' \in [Game -> Nat] /\ AttemptsRemembered'
      BY <1>1, <1>2, <2>2, <2>4 DEF TypeInv, AttemptsRemembered
    <2> QED BY <2>3, <2>5
  <1> QED BY <1>6, <1>7

LEMMA PollFiresStep == Inv /\ PollFires => Inv'
  <1> SUFFICES ASSUME Inv, PollFires PROVE Inv'
    OBVIOUS
  <1>1. PICK c, P, L : c = ctl /\ P = proc /\ L = launched
    OBVIOUS
  <1>2. PICK found \in FindResult(P) :
           /\ ctl' = poll(c, found) /\ worker' = WorkerAfter(c, poll(c, found))
           /\ proc' = Stopped(c, poll(c, found), P)
    BY <1>1 DEF PollFires
  <1>3. c \in Controller /\ P \in [Game -> ProcState] /\ L \in SUBSET Game /\ panel \in Panel
    BY <1>1 DEF Inv, TypeInv
  <1>4. c.timer /\ Shown /\ UNCHANGED <<now, panel, launched, loads>>
    BY <1>1 DEF PollFires, Inv, TimerShown
  <1>5. /\ Queued /\ ~c.cancelled => c.state = "Loading"
        /\ c.state # "Succeeded" =>
              \A g \in L \cap Alive(P) : Owns(c) /\ c.launchedPid = PidOf[g]
        /\ c.state = "Cancelled" => ~Owns(c)
        /\ \A g \in L : P[g] # "none"
    BY <1>1 DEF Inv, QueuedCurrent, OwnsLaunched, CancelledOwnsNothing, LaunchedStarted
  <1> QED BY <1>1, <1>2, <1>3, <1>4, <1>5, PollStep

\* finished(): no worker is left, so only the ownership is at stake.
LEMMA LoadFinishedStep == Inv /\ LoadFinished => Inv'
  <1> SUFFICES ASSUME Inv, LoadFinished PROVE Inv'
    OBVIOUS
  <1>1. /\ ctl \in Controller /\ proc \in [Game -> ProcState] /\ panel \in Panel
        /\ worker \in Worker \cup {NoWorker}
    BY DEF Inv, TypeInv
  <1>2. worker' = NoWorker /\ UNCHANGED <<now, launched, loads>>
    BY DEF LoadFinished
  <1>3. CASE ctl' = cancel(ctl) /\ proc' = Stopped(ctl, ctl', proc) /\ UNCHANGED panel
    <2>1. /\ ctl' \in Controller /\ ctl'.cancelled /\ ~ctl'.timer
          /\ ctl'.attempted = ctl.attempted
          /\ Pending(ctl) => /\ ctl'.state = "Cancelled" /\ ~Owns(ctl')
                             /\ Owns(ctl) => ctl'.launchedPid = 0
          /\ ~Pending(ctl) => /\ ctl'.state = ctl.state /\ ctl'.launchedPid = ctl.launchedPid
                              /\ Owns(ctl') = Owns(ctl)
      BY <1>1, <1>3, CancelFacts
    <2>2. PICK d \in Controller : d = ctl'
      BY <2>1
    <2>3. PICK Q : Q = Stopped(ctl, d, proc)
      OBVIOUS
    <2>4. /\ Q \in [Game -> ProcState]
          /\ Alive(Q) \subseteq Alive(proc)
          /\ \A g \in Game : Q[g] = "none" <=> proc[g] = "none"
          /\ Owns(ctl) /\ d.launchedPid = 0 => \A g \in Alive(Q) : PidOf[g] # ctl.launchedPid
      BY <1>1, <2>3, StoppedFacts
    <2>5. proc' = Q
      BY <1>3, <2>2, <2>3
    <2>6. TypeInv'
      BY <1>2, <1>3, <2>1, <2>4, <2>5 DEF Inv, TypeInv
    <2>7. AttemptsRemembered' /\ QueuedFresh' /\ QueuedCurrent' /\ TimerShown'
      BY <1>2, <2>1 DEF Inv, AttemptsRemembered, QueuedFresh, QueuedCurrent, TimerShown, Queued
    <2>8. OwnsLaunched' /\ CancelledOwnsNothing'
      <3>1. /\ d.state # "Succeeded" =>
                \A g \in launched \cap Alive(Q) : Owns(d) /\ d.launchedPid = PidOf[g]
            /\ d.state = "Cancelled" => ~Owns(d)
        BY <2>1, <2>2, <2>4 DEF Inv, OwnsLaunched, CancelledOwnsNothing, Pending
      <3> QED BY <1>2, <2>2, <2>5, <3>1 DEF OwnsLaunched, CancelledOwnsNothing
    <2>9. LaunchedStarted'
      BY <1>2, <2>4, <2>5 DEF Inv, TypeInv, LaunchedStarted
    <2> QED BY <2>6, <2>7, <2>8, <2>9 DEF Inv
  <1>4. CASE UNCHANGED proc /\ ~UNCHANGED ctl
    <2>1. \/ /\ ctl' = [ctl EXCEPT !.timer = FALSE, !.succeededPid = ctl.loadingPid,
                                   !.own = FALSE, !.state = "Succeeded"]
             /\ panel' = PanelCompleted(ctl.loadingPid)
          \/ ctl' = Fail(ctl) /\ panel' = panel /\ ctl.state = "Loading"
          \/ ctl' = cancel(ctl) /\ proc' = Stopped(ctl, ctl', proc) /\ UNCHANGED panel
      BY <1>4 DEF LoadFinished, Ignored
    <2>2. CASE /\ ctl' = [ctl EXCEPT !.timer = FALSE, !.succeededPid = ctl.loadingPid,
                                     !.own = FALSE, !.state = "Succeeded"]
               /\ panel' = PanelCompleted(ctl.loadingPid)
      <3>1. ctl' \in Controller
        BY <1>1, <2>2 DEF Controller, ControllerState
      <3>2. ctl'.state = "Succeeded" /\ ~ctl'.timer /\ ctl'.attempted = ctl.attempted
        BY <1>1, <2>2 DEF Controller
      <3>3. panel' \in Panel
        BY <1>1, <2>2 DEF PanelCompleted, Panel
      <3>4. TypeInv'
        BY <1>2, <1>4, <3>1, <3>3 DEF Inv, TypeInv
      <3>5. AttemptsRemembered' /\ QueuedFresh' /\ QueuedCurrent' /\ TimerShown'
        BY <1>2, <3>2 DEF Inv, AttemptsRemembered, QueuedFresh, QueuedCurrent, TimerShown, Queued
      <3>6. OwnsLaunched' /\ CancelledOwnsNothing' /\ LaunchedStarted'
        BY <1>2, <1>4, <3>2 DEF Inv, OwnsLaunched, CancelledOwnsNothing, LaunchedStarted
      <3> QED BY <3>4, <3>5, <3>6 DEF Inv
    <2>3. CASE ctl' = Fail(ctl) /\ panel' = panel /\ ctl.state = "Loading"
      <3>1. /\ ctl' \in Controller /\ ctl'.state = "Failed" /\ ~ctl'.timer
            /\ ctl'.attempted = ctl.attempted
            /\ ctl'.launchedPid = ctl.launchedPid /\ Owns(ctl') = Owns(ctl)
        BY <1>1, <2>3, FailFacts
      <3>2. TypeInv'
        BY <1>2, <1>4, <2>3, <3>1 DEF Inv, TypeInv
      <3>3. AttemptsRemembered' /\ QueuedFresh' /\ QueuedCurrent' /\ TimerShown'
        BY <1>2, <3>1 DEF Inv, AttemptsRemembered, QueuedFresh, QueuedCurrent, TimerShown, Queued
      <3>4. OwnsLaunched' /\ CancelledOwnsNothing' /\ LaunchedStarted'
        BY <1>2, <1>4, <2>3, <3>1 DEF Inv, OwnsLaunched, CancelledOwnsNothing, LaunchedStarted
      <3> QED BY <3>2, <3>3, <3>4 DEF Inv
    <2> QED BY <1>3, <2>1, <2>2, <2>3
  <1>5. CASE UNCHANGED <<ctl, proc, panel>>
    <2>1. TypeInv'
      BY <1>2, <1>5 DEF Inv, TypeInv
    <2>2. AttemptsRemembered' /\ QueuedFresh' /\ QueuedCurrent' /\ TimerShown'
      BY <1>2, <1>5 DEF Inv, AttemptsRemembered, QueuedFresh, QueuedCurrent, TimerShown,
                        Queued, Shown
    <2>3. OwnsLaunched' /\ CancelledOwnsNothing' /\ LaunchedStarted'
      BY <1>2, <1>5 DEF Inv, OwnsLaunched, CancelledOwnsNothing, LaunchedStarted
    <2> QED BY <2>1, <2>2, <2>3 DEF Inv
  <1>6. \/ ctl' = cancel(ctl) /\ proc' = Stopped(ctl, ctl', proc) /\ UNCHANGED panel
        \/ UNCHANGED proc /\ ~UNCHANGED ctl
        \/ UNCHANGED <<ctl, proc, panel>>
    <2>1. LET s == [ctl EXCEPT !.timer = FALSE, !.succeededPid = ctl.loadingPid,
                               !.own = FALSE, !.state = "Succeeded"]
          IN  s.state # "Loading"
      BY <1>1 DEF Controller
    <2>2. Fail(ctl).state # "Loading"
      BY <1>1, FailFacts
    <2> QED BY <2>1, <2>2 DEF LoadFinished, Ignored
  <1> QED BY <1>3, <1>4, <1>5, <1>6

\* The inductive invariant holds in every reachable state.
THEOREM Invariance == Spec => []Inv
  <1>1. Inv /\ [Next]_vars => Inv'
    <2> SUFFICES ASSUME Inv, [Next]_vars PROVE Inv'
      OBVIOUS
    <2>1. CASE UNCHANGED vars
      BY <2>1, QuietStep DEF vars, Inv, TypeInv, LaunchedStarted
    <2>2. CASE Next
      BY <2>2, SystemStep, PanelStep, CancellingStep, StartFailsStep, StartStep, WorkStep,
         PollFiresStep, LoadFinishedStep DEF Next, User
    <2> QED BY <2>1, <2>2
  <1> QED BY <1>1, InitInv, PTL DEF Spec

\* No process is loaded twice, however ids are reused and attempts restarted.
THEOREM OneAttemptPerProcessHolds == Spec => []OneAttemptPerProcess
  <1>1. Inv => OneAttemptPerProcess
    BY DEF Inv, AttemptsRemembered, OneAttemptPerProcess
  <1> QED BY <1>1, Invariance, PTL

\* A cancelled controller leaves no game of its own running.
THEOREM CancelStopsOwnGameHolds == Spec => []CancelStopsOwnGame
  <1>1. Inv => CancelStopsOwnGame
    BY DEF Inv, OwnsLaunched, CancelledOwnsNothing, CancelStopsOwnGame
  <1> QED BY <1>1, Invariance, PTL

\* The worker that passes its check begins the current, visible attempt.
THEOREM NoLateLoadHolds == Spec => NoLateLoad
  <1> DEFINE Late == (\E g \in Game : loads'[g] # loads[g]) =>
                        ctl.state = "Loading" /\ now < Expiry /\ Shown
  <1>1. Inv /\ [Next]_vars => [Late]_vars
    <2> SUFFICES ASSUME Inv, Next, loads' # loads
                 PROVE  ctl.state = "Loading" /\ now < Expiry /\ Shown
      OBVIOUS
    <2>1. WorkerBegins
      BY DEF Next, Tick, System, GameStarts, WindowOpens, GameExits, User, CancelClicked,
             SelectClicked, CancelAndKeep, DialogEnds, startFails, startRunning,
             startLaunching, Work, WorkerEnds, PollFires, LoadFinished, WatcherFires,
             LingerEnds, DashboardHides, DashboardDeleted
    <2>2. Queued /\ LoadPermitted
      BY <2>1 DEF WorkerBegins, Queued
    <2>3. now \in Nat /\ Expiry \in Nat
      BY LaunchAssumption DEF Inv, TypeInv
    <2> QED BY <2>2, <2>3 DEF Inv, QueuedCurrent, LoadPermitted, Expired
  <1> QED BY <1>1, Invariance, PTL DEF Spec, NoLateLoad
=============================================================================
