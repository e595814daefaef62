------------------------ MODULE ClientWindowsProofs -------------------------
(***************************************************************************)
(* Proofs about ClientWindows: for every clock bound, timer slack and      *)
(* number of attempts, the safety properties of AuthManager and of the     *)
(* windows above it hold in every behaviour.                               *)
(***************************************************************************)
EXTENDS ClientWindows, TLAPS

\* The parts of AuthManager's state the properties speak of.
AuthType ==
    /\ now \in Nat
    /\ state \in State
    /\ attempt \in Nat
    /\ token \in Token \cup {NoToken}
    /\ profileLoading \in BOOLEAN

LoginForm == [shown : BOOLEAN, enabled : BOOLEAN, subtitle : {"prompt", "expired"}]

WindowType ==
    /\ app \in {"running", "quitting", "exited", "undefined"}
    /\ ui \in LoginForm
    /\ dashboard \in Dashboard \cup {NoWindow}
    /\ hwid \in HwidDialog \cup {NoWindow}

\* The collection belongs to the login that waits for it.
CollectingForLogin == collecting # NoTask => state = "CollectingDevice"

\* The login form takes input exactly while no login is under way.
EnabledUnlessBusy == ui.enabled <=> ~Busy(state)

DashboardShown == dashboard # NoWindow /\ dashboard.shown

\* While the program runs an authenticated session has its dashboard; a
\* dashboard that is not shown is about to be deleted, before the next login
\* gets past its hardware collection.
AuthenticatedIsShown == app = "running" /\ state = "Authenticated" => DashboardShown
HiddenIsDying ==
    app = "running" /\ dashboard # NoWindow /\ ~dashboard.shown =>
        dashboard.dying /\ state \in {"LoggedOut", "CollectingDevice"}

\* The HWID dialog is open only over an idle login form.
HwidOverIdleLogin ==
    hwid # NoWindow => /\ state \in {"LoggedOut", "Failed"}
                       /\ app \in {"running", "undefined"}

ExitedIsQuiet == app = "exited" => collecting = NoTask /\ signing = NoTask

Inv ==
    /\ AuthType /\ WindowType
    /\ SessionGuarded
    /\ CollectingForLogin /\ EnabledUnlessBusy
    /\ DashboardOfSession /\ AuthenticatedIsShown /\ HiddenIsDying
    /\ NeverStranded
    /\ HwidOverIdleLogin /\ ExitedIsQuiet

-----------------------------------------------------------------------------
(* AuthManager: what its steps keep, and how they move its state.          *)

AuthInv == AuthType /\ TokenGuardedByTimer /\ CollectingForLogin

\* An idle manager stays as it is; a session stays itself or ends in the
\* login form; only a login whose profile is loading becomes a session; no
\* collection begins.
AuthMoves ==
    /\ state' # state \/ attempt' # attempt => state \notin {"LoggedOut", "Failed"}
    /\ state = "Authenticated" =>
          \/ state' = "Authenticated" /\ attempt' = attempt
          \/ state' = "LoggedOut"
    /\ state # "Authenticated" /\ state' = "Authenticated" => state = "Authenticating"
    /\ collecting' # NoTask => collecting # NoTask

LEMMA KeepStep ==
    ASSUME AuthInv, UNCHANGED manager, now' \in Nat,
           collecting' # NoTask => collecting # NoTask
    PROVE  AuthInv' /\ AuthMoves
  BY DEF AuthInv, AuthType, TokenGuardedByTimer, CollectingForLogin, AuthMoves, manager

LEMMA FailStep ==
    ASSUME AuthInv, fail, now' = now, collecting' = NoTask,
           state \in {"CollectingDevice", "Authenticating", "VerifyingDevice"}
    PROVE  AuthInv' /\ AuthMoves
  <1>1. /\ timer' = NoTimer /\ token' = NoToken /\ profileLoading' = FALSE
        /\ attempt' = attempt + 1 /\ state' = "Failed"
    BY DEF fail, clearSession
  <1>2. AuthType'
    <2>1. state' \in State /\ attempt' \in Nat /\ now' \in Nat
      BY <1>1 DEF AuthInv, AuthType, State
    <2> QED BY <1>1, <2>1, Zenon DEF AuthType
  <1>3. TokenGuardedByTimer'
    BY <1>1 DEF TokenGuardedByTimer
  <1>4. CollectingForLogin' /\ AuthMoves
    BY <1>1 DEF CollectingForLogin, AuthMoves
  <1> QED BY <1>2, <1>3, <1>4 DEF AuthInv

LEMMA ReauthenticateStep ==
    ASSUME AuthInv, reauthenticate, now' = now, collecting' = NoTask,
           state \notin {"LoggedOut", "Failed"}
    PROVE  AuthInv' /\ AuthMoves
  <1>1. /\ timer' = NoTimer /\ token' = NoToken /\ profileLoading' = FALSE
        /\ attempt' = attempt + 1 /\ state' = "LoggedOut"
    BY DEF reauthenticate, clearSession
  <1>2. AuthType'
    <2>1. state' \in State /\ attempt' \in Nat /\ now' \in Nat
      BY <1>1 DEF AuthInv, AuthType, State
    <2> QED BY <1>1, <2>1, Zenon DEF AuthType
  <1>3. TokenGuardedByTimer'
    BY <1>1 DEF TokenGuardedByTimer
  <1>4. CollectingForLogin' /\ AuthMoves
    BY <1>1 DEF CollectingForLogin, AuthMoves
  <1> QED BY <1>2, <1>3, <1>4 DEF AuthInv

LEMMA QueuedStep == AuthInv /\ Queued => AuthInv' /\ AuthMoves
  <1>1. ASSUME AuthInv, NEW success \in BOOLEAN, completeCollection(success)
        PROVE  AuthInv' /\ AuthMoves
    <2>1. now' = now /\ now' \in Nat /\ collecting' = NoTask
      BY <1>1 DEF completeCollection, AuthInv, AuthType
    <2>2. CASE UNCHANGED manager
      BY <1>1, <2>1, <2>2, KeepStep
    <2>3. CASE fail /\ state = "CollectingDevice"
      BY <1>1, <2>1, <2>3, FailStep
    <2>4. CASE /\ state = "CollectingDevice" /\ state' = "Authenticating"
               /\ UNCHANGED <<attempt, token, profileLoading, timer>>
      BY <1>1, <2>1, <2>4 DEF AuthInv, AuthType, TokenGuardedByTimer, CollectingForLogin,
                              AuthMoves, State
    <2> QED BY <1>1, <2>2, <2>3, <2>4 DEF completeCollection
  <1>2. ASSUME AuthInv, NEW success \in BOOLEAN, completeSigning(success)
        PROVE  AuthInv' /\ AuthMoves
    <2>1. now' = now /\ now' \in Nat /\ collecting' = collecting
      BY <1>2 DEF completeSigning, AuthInv, AuthType
    <2>2. CASE UNCHANGED manager
      BY <1>2, <2>1, <2>2, KeepStep
    <2>3. CASE fail /\ state = "VerifyingDevice"
      <3>1. collecting' = NoTask
        BY <1>2, <2>1, <2>3 DEF AuthInv, CollectingForLogin
      <3> QED BY <1>2, <2>1, <2>3, <3>1, FailStep
    <2> QED BY <1>2, <2>2, <2>3 DEF completeSigning
  <1> QED BY <1>1, <1>2 DEF Queued

LEMMA RepliesStep ==
    AuthInv /\ Replies =>
        AuthInv' /\ AuthMoves /\ (state = "CollectingDevice" => state' = state)
  <1> SUFFICES ASSUME AuthInv, Replies
               PROVE  AuthInv' /\ AuthMoves /\ (state = "CollectingDevice" => state' = state)
    OBVIOUS
  <1>1. now' = now /\ now' \in Nat /\ collecting' = collecting
    BY DEF Replies, LoginReply, VerifyRejected, DeviceVerified, ProfileLoaded, ProfileFailed,
           CancelledFinished, workers, AuthInv, AuthType
  <1>2. state # "CollectingDevice" => collecting' = NoTask
    BY <1>1 DEF AuthInv, CollectingForLogin
  <1>3. CASE UNCHANGED manager
    BY <1>1, <1>3, KeepStep DEF manager
  <1>4. CASE fail /\ state \in {"Authenticating", "VerifyingDevice"}
    BY <1>1, <1>2, <1>4, FailStep
  <1>5. CASE reauthenticate /\ state \in {"Authenticating", "VerifyingDevice"}
    BY <1>1, <1>2, <1>5, ReauthenticateStep
  <1>7. ASSUME NEW outcome, LoginReply(outcome)
        PROVE  AuthInv' /\ AuthMoves /\ (state = "CollectingDevice" => state' = state)
    <2>1. CASE /\ state = "Authenticating" /\ ~profileLoading /\ state' = "VerifyingDevice"
               /\ UNCHANGED <<attempt, token, profileLoading, timer>>
      BY <1>1, <1>2, <2>1 DEF AuthInv, AuthType, TokenGuardedByTimer, CollectingForLogin,
                              AuthMoves, State
    <2> QED BY <1>3, <1>4, <1>7, <2>1 DEF LoginReply
  <1>8. CASE VerifyRejected
    BY <1>3, <1>4, <1>8 DEF VerifyRejected
  <1>9. ASSUME NEW exp \in Time, NEW proof \in BOOLEAN, DeviceVerified(exp, proof)
        PROVE  AuthInv' /\ AuthMoves /\ (state = "CollectingDevice" => state' = state)
    <2>1. CASE /\ state = "VerifyingDevice" /\ state' = "Authenticating"
               /\ token' = [attempt |-> attempt, exp |-> exp]
               /\ scheduleExpiry(exp) /\ profileLoading' = TRUE
               /\ UNCHANGED <<attempt, held>>
      <3>1. token' \in Token
        BY <2>1 DEF Token, AuthInv, AuthType
      <3>2. token' # NoToken /\ token'.attempt = attempt /\ token'.exp = exp
        BY <2>1, <3>1, ClientAssumption
      <3>3. TokenGuardedByTimer'
        BY <2>1, <3>2 DEF TokenGuardedByTimer, scheduleExpiry
      <3> QED BY <1>1, <1>2, <2>1, <3>1, <3>3 DEF AuthInv, AuthType, CollectingForLogin,
                                                   AuthMoves, State
    <2> QED BY <1>3, <1>4, <1>5, <1>9, <2>1 DEF DeviceVerified
  <1>10. CASE ProfileLoaded
    <2>1. CASE /\ state = "Authenticating" /\ profileLoading /\ token # NoToken
               /\ profileLoading' = FALSE /\ state' = "Authenticated"
               /\ UNCHANGED <<attempt, token, timer>>
      BY <1>1, <1>2, <2>1 DEF AuthInv, AuthType, TokenGuardedByTimer, CollectingForLogin,
                              AuthMoves, State
    <2> QED BY <1>3, <1>5, <1>10, <2>1 DEF ProfileLoaded
  <1>11. CASE ProfileFailed
    BY <1>3, <1>4, <1>11 DEF ProfileFailed
  <1>12. CASE CancelledFinished
    BY <1>3, <1>12 DEF CancelledFinished
  <1> QED BY <1>7, <1>8, <1>9, <1>10, <1>11, <1>12 DEF Replies

\* A timer that fires is the current session's.
LEMMA TimerStep ==
    AuthInv /\ TimerFires =>
        AuthInv' /\ AuthMoves /\ (state = "CollectingDevice" => state' = state)
  <1> SUFFICES ASSUME AuthInv, TimerFires
               PROVE  AuthInv' /\ AuthMoves /\ (state = "CollectingDevice" => state' = state)
    OBVIOUS
  <1>1. token # NoToken /\ timer.attempt = attempt
    BY DEF TimerFires, AuthInv, TokenGuardedByTimer
  <1>2. reauthenticate /\ now' = now /\ collecting' = collecting
    BY <1>1 DEF TimerFires, workers
  <1>3. state \in {"Authenticating", "Authenticated"}
    BY <1>1 DEF AuthInv, TokenGuardedByTimer
  <1>4. collecting' = NoTask
    BY <1>2, <1>3 DEF AuthInv, CollectingForLogin
  <1> QED BY <1>2, <1>3, <1>4, ReauthenticateStep

LEMMA AuthStep ==
    ASSUME AuthInv, Tick \/ Worker \/ Replies \/ TimerFires \/ (~DeletionFirst /\ Queued)
    PROVE  /\ AuthInv' /\ AuthMoves
           /\ state = "CollectingDevice" /\ state' # state => ~DeletionFirst
  <1>1. CASE Tick \/ Worker
    <2>1. /\ UNCHANGED manager /\ now' \in Nat
          /\ collecting' # NoTask => collecting # NoTask
      BY <1>1 DEF Tick, Worker, CollectionEnds, SigningEnds, AuthInv, AuthType, workers
    <2> QED BY <2>1, KeepStep DEF manager
  <1> QED BY <1>1, QueuedStep, RepliesStep, TimerStep

-----------------------------------------------------------------------------
(* The windows.                                                            *)

LEMMA ApplyStateFacts ==
    ASSUME NEW u \in LoginForm, NEW s
    PROVE  /\ applyState(u, s) \in LoginForm
           /\ applyState(u, s).shown = u.shown
           /\ applyState(u, s).enabled <=> ~Busy(s)
  <1>1. Busy(s) \in BOOLEAN
    BY DEF Busy
  <1> QED BY <1>1 DEF applyState, LoginForm

\* The part of the invariant that the slots answer for.
WindowInv ==
    /\ WindowType /\ EnabledUnlessBusy
    /\ DashboardOfSession /\ AuthenticatedIsShown /\ HiddenIsDying
    /\ NeverStranded

\* The slots bring the windows after AuthManager.
LEMMA SlotsStep ==
    ASSUME AuthType, AuthType', WindowInv, AuthMoves, Slots,
           state = "CollectingDevice" /\ state' # state => ~DeletionFirst,
           UNCHANGED <<app, hwid>>
    PROVE  WindowInv'
  <1>1. ui \in LoginForm /\ dashboard \in Dashboard \cup {NoWindow}
    BY DEF WindowInv, WindowType
  <1>2. CASE state' = "LoggedOut" /\ state # "LoggedOut"
    <2>1. PICK u : u = applyState(ui, "LoggedOut")
      OBVIOUS
    <2>2. u \in LoginForm /\ u.enabled
      BY <1>1, <2>1, ApplyStateFacts DEF Busy
    <2>3. dashboard' = NoWindow /\ ui' = [u EXCEPT !.shown = TRUE, !.subtitle = "expired"]
      BY <1>2, <2>1 DEF Slots, showReauthentication
    <2>4. ui' \in LoginForm /\ ui'.shown /\ ui'.enabled
      BY <2>2, <2>3 DEF LoginForm
    <2>5. WindowType' /\ EnabledUnlessBusy'
      BY <1>2, <2>3, <2>4 DEF WindowInv, WindowType, EnabledUnlessBusy, Busy
    <2>6. DashboardOfSession' /\ AuthenticatedIsShown' /\ HiddenIsDying' /\ NeverStranded'
      BY <1>2, <2>3, <2>4 DEF DashboardOfSession, AuthenticatedIsShown, HiddenIsDying,
                              NeverStranded
    <2> QED BY <2>5, <2>6 DEF WindowInv
  <1>3. CASE state' = "Authenticated" /\ state # "Authenticated"
    <2>1. PICK u : u = applyState(ui, "Authenticated")
      OBVIOUS
    <2>2. u \in LoginForm /\ u.enabled
      BY <1>1, <2>1, ApplyStateFacts DEF Busy
    <2>3. /\ ui' = [u EXCEPT !.shown = FALSE]
          /\ dashboard' = IF dashboard = NoWindow
                          THEN [attempt |-> attempt', shown |-> TRUE, dying |-> FALSE]
                          ELSE [dashboard EXCEPT !.shown = TRUE]
      BY <1>3, <2>1 DEF Slots, showDashboard
    <2>4. ui' \in LoginForm /\ ~ui'.shown /\ ui'.enabled
      BY <2>2, <2>3 DEF LoginForm
    <2>5. dashboard' \in Dashboard
      BY <1>1, <2>3 DEF Dashboard, AuthType
    <2>6. WindowType' /\ EnabledUnlessBusy'
      BY <1>3, <2>4, <2>5 DEF WindowInv, WindowType, EnabledUnlessBusy, Busy
    <2>7. CASE app # "running"
      BY <2>6, <2>7 DEF WindowInv, DashboardOfSession, AuthenticatedIsShown, HiddenIsDying,
                        NeverStranded
    <2>8. CASE app = "running"
      <3>1. dashboard = NoWindow
        BY <1>3, <2>8 DEF WindowInv, DashboardOfSession, HiddenIsDying, AuthMoves
      <3>2. dashboard' = [attempt |-> attempt', shown |-> TRUE, dying |-> FALSE]
        BY <2>3, <3>1
      <3>3. dashboard' # NoWindow
        BY <2>5, WindowAssumption
      <3>4. DashboardOfSession' /\ AuthenticatedIsShown' /\ HiddenIsDying' /\ NeverStranded'
        BY <1>3, <2>4, <3>2, <3>3 DEF DashboardOfSession, AuthenticatedIsShown, HiddenIsDying,
                                      NeverStranded, DashboardShown
      <3> QED BY <2>6, <3>4 DEF WindowInv
    <2> QED BY <2>7, <2>8
  <1>4. CASE /\ ~(state' = "LoggedOut" /\ state # "LoggedOut")
             /\ ~(state' = "Authenticated" /\ state # "Authenticated")
    <2>1. ui' = applyState(ui, state') /\ dashboard' = dashboard
      BY <1>4 DEF Slots
    <2>2. /\ ui' \in LoginForm /\ ui'.shown = ui.shown /\ (ui'.enabled <=> ~Busy(state'))
      BY <1>1, <2>1, ApplyStateFacts
    <2>3. WindowType' /\ EnabledUnlessBusy'
      BY <2>1, <2>2 DEF WindowInv, WindowType, EnabledUnlessBusy
    <2>4. DashboardOfSession' /\ AuthenticatedIsShown' /\ NeverStranded'
      BY <1>4, <2>1, <2>2 DEF WindowInv, DashboardOfSession, AuthenticatedIsShown,
                              NeverStranded, DashboardShown, AuthMoves
    <2>5. HiddenIsDying'
      BY <1>4, <2>1 DEF WindowInv, HiddenIsDying, AuthMoves, DeletionFirst
    <2> QED BY <2>3, <2>4, <2>5 DEF WindowInv
  <1> QED BY <1>2, <1>3, <1>4

LEMMA ClientInitInv == ClientInit => Inv
  <1> SUFFICES ASSUME ClientInit PROVE Inv
    OBVIOUS
  <1> USE DEF ClientInit, Init
  <1>1. AuthType
    <2>1. profileLoading \in BOOLEAN
      BY Zenon
    <2> QED BY <2>1 DEF AuthType, State
  <1>2. WindowType /\ EnabledUnlessBusy
    BY DEF WindowType, LoginForm, EnabledUnlessBusy, Busy
  <1>3. SessionGuarded
    BY DEF SessionGuarded, TokenGuardedByTimer
  <1>4. /\ CollectingForLogin /\ DashboardOfSession /\ AuthenticatedIsShown /\ HiddenIsDying
        /\ NeverStranded /\ HwidOverIdleLogin /\ ExitedIsQuiet
    BY DEF CollectingForLogin, DashboardOfSession, AuthenticatedIsShown, HiddenIsDying,
           NeverStranded, HwidOverIdleLogin, ExitedIsQuiet
  <1> QED BY <1>1, <1>2, <1>3, <1>4 DEF Inv

LEMMA ClientEventStep == Inv /\ ClientEvent => Inv'
  <1> SUFFICES ASSUME Inv, ClientEvent PROVE Inv'
    OBVIOUS
  <1>1. app # "exited" /\ Slots /\ UNCHANGED <<app, picking, hwid, clipboard>>
    BY DEF ClientEvent, Running
  <1>2. AuthInv /\ WindowInv
    BY <1>1 DEF Inv, AuthInv, SessionGuarded, WindowInv
  <1>3. /\ AuthInv' /\ AuthMoves
        /\ state = "CollectingDevice" /\ state' # state => ~DeletionFirst
    BY <1>2, AuthStep DEF ClientEvent
  <1>4. WindowInv'
    BY <1>1, <1>2, <1>3, SlotsStep DEF AuthInv
  <1>5. SessionGuarded' /\ ExitedIsQuiet'
    BY <1>1, <1>3 DEF SessionGuarded, ExitedIsQuiet, AuthInv
  <1>6. HwidOverIdleLogin'
    BY <1>1, <1>3 DEF Inv, HwidOverIdleLogin, AuthMoves
  <1> QED BY <1>3, <1>4, <1>5, <1>6 DEF Inv, AuthInv, WindowInv

\* login, from an idle form under which no dialog is open.
LEMMA StartLoginStep == Inv /\ startLogin => Inv'
  <1> SUFFICES ASSUME Inv, startLogin PROVE Inv'
    OBVIOUS
  <1>1. /\ LoginActive /\ state \in {"LoggedOut", "Failed"}
        /\ timer' = NoTimer /\ token' = NoToken /\ profileLoading' = FALSE
        /\ attempt' = attempt + 1 /\ state' = "CollectingDevice" /\ now' = now
        /\ UNCHANGED <<app, dashboard, orphan, picking, hwid, clipboard>>
    BY DEF startLogin, login
  <1>2. AuthType'
    <2>1. state' \in State /\ attempt' \in Nat /\ now' \in Nat
      BY <1>1 DEF Inv, AuthType, State
    <2> QED BY <1>1, <2>1, Zenon DEF AuthType
  <1>3. PICK u : u = [ui EXCEPT !.subtitle = "prompt"]
    OBVIOUS
  <1>4. u \in LoginForm /\ u.shown = ui.shown
    BY <1>3 DEF Inv, WindowType, LoginForm
  <1>5. ui' = applyState(u, state')
    BY <1>3 DEF startLogin
  <1>6. ui' \in LoginForm /\ ui'.shown = ui.shown /\ (ui'.enabled <=> ~Busy(state'))
    BY <1>4, <1>5, ApplyStateFacts
  <1>7. WindowType' /\ EnabledUnlessBusy'
    BY <1>1, <1>6 DEF Inv, WindowType, EnabledUnlessBusy
  <1>8. app = "running" /\ ui.shown /\ hwid = NoWindow
    BY <1>1 DEF LoginActive
  <1>9. SessionGuarded' /\ CollectingForLogin' /\ HwidOverIdleLogin' /\ ExitedIsQuiet'
    BY <1>1, <1>8 DEF SessionGuarded, TokenGuardedByTimer, CollectingForLogin,
                      HwidOverIdleLogin, ExitedIsQuiet
  <1>10. DashboardOfSession' /\ AuthenticatedIsShown' /\ HiddenIsDying' /\ NeverStranded'
    BY <1>1, <1>6, <1>8 DEF Inv, DashboardOfSession, AuthenticatedIsShown, HiddenIsDying,
                            NeverStranded
  <1> QED BY <1>2, <1>7, <1>9, <1>10 DEF Inv

LEMMA SignOutStep == Inv /\ SignOut => Inv'
  <1> SUFFICES ASSUME Inv, SignOut PROVE Inv'
    OBVIOUS
  <1>1. /\ app = "running" /\ dashboard \in Dashboard /\ DashboardShown
        /\ timer' = NoTimer /\ token' = NoToken /\ profileLoading' = FALSE
        /\ attempt' = attempt + 1 /\ state' = "LoggedOut" /\ now' = now
        /\ collecting' = NoTask /\ signing' = NoTask
        /\ dashboard' = [dashboard EXCEPT !.shown = FALSE, !.dying = TRUE]
        /\ UNCHANGED <<app, orphan, picking, hwid, clipboard>>
    BY DEF SignOut, signOut, cancelAndWait, clearSession, DashboardActive, DashboardShown,
           Inv, WindowType
  <1>2. AuthType'
    <2>1. state' \in State /\ attempt' \in Nat /\ now' \in Nat
      BY <1>1 DEF Inv, AuthType, State
    <2> QED BY <1>1, <2>1, Zenon DEF AuthType
  <1>3. PICK u : u = applyState(ui, state')
    OBVIOUS
  <1>4. u \in LoginForm /\ u.enabled
    BY <1>1, <1>3, ApplyStateFacts DEF Inv, WindowType, Busy
  <1>5. ui' = [u EXCEPT !.shown = TRUE]
    BY <1>3 DEF SignOut
  <1>6. ui' \in LoginForm /\ ui'.shown /\ ui'.enabled
    BY <1>4, <1>5 DEF LoginForm
  <1>7. dashboard' \in Dashboard /\ ~dashboard'.shown /\ dashboard'.dying
    BY <1>1 DEF Dashboard
  <1>8. WindowType' /\ EnabledUnlessBusy'
    BY <1>1, <1>6, <1>7 DEF Inv, WindowType, EnabledUnlessBusy, Busy
  <1>9. SessionGuarded' /\ CollectingForLogin' /\ ExitedIsQuiet'
    BY <1>1 DEF SessionGuarded, TokenGuardedByTimer, CollectingForLogin, ExitedIsQuiet
  <1>10. DashboardOfSession' /\ AuthenticatedIsShown' /\ HiddenIsDying' /\ NeverStranded'
    BY <1>1, <1>6, <1>7 DEF DashboardOfSession, AuthenticatedIsShown, HiddenIsDying,
                            NeverStranded
  <1>11. HwidOverIdleLogin'
    BY <1>1 DEF Inv, HwidOverIdleLogin
  <1> QED BY <1>2, <1>8, <1>9, <1>10, <1>11 DEF Inv

\* Steps of the windows that leave AuthManager alone and do not end exec().
LEMMA WindowStep ==
    ASSUME Inv, UNCHANGED vars, WindowType',
           EnabledUnlessBusy', DashboardOfSession', AuthenticatedIsShown', HiddenIsDying',
           NeverStranded', HwidOverIdleLogin',
           app' = "exited" <=> app = "exited"
    PROVE  Inv'
  <1>1. UNCHANGED <<now, state, attempt, token, profileLoading, timer, collecting, signing>>
    BY DEF vars, manager, workers
  <1>2. AuthType'
    BY <1>1 DEF Inv, AuthType
  <1>3. SessionGuarded'
    BY <1>1 DEF Inv, SessionGuarded, TokenGuardedByTimer, WindowType
  <1>4. CollectingForLogin' /\ ExitedIsQuiet'
    BY <1>1 DEF Inv, CollectingForLogin, ExitedIsQuiet
  <1> QED BY <1>2, <1>3, <1>4 DEF Inv

\* The HWID dialog and the file dialog.
LEMMA DialogStep ==
    ASSUME Inv, UNCHANGED <<vars, app, ui, dashboard>>,
           hwid' \in HwidDialog \cup {NoWindow}, HwidOverIdleLogin'
    PROVE  Inv'
  <1>1. UNCHANGED <<state, attempt>>
    BY DEF vars, manager
  <1>2. WindowType' /\ EnabledUnlessBusy'
    BY <1>1 DEF Inv, WindowType, EnabledUnlessBusy
  <1>3. DashboardOfSession' /\ AuthenticatedIsShown' /\ HiddenIsDying' /\ NeverStranded'
    BY <1>1 DEF Inv, DashboardOfSession, AuthenticatedIsShown, HiddenIsDying, NeverStranded,
                DashboardShown
  <1> QED BY <1>2, <1>3, WindowStep

LEMMA DialogsStep ==
    ASSUME Inv,
           \/ PickGame \/ GamePicked \/ openHwidDialog \/ HwidCollectionEnds \/ copyCode
           \/ CopyTimer \/ HwidDialogCloses
           \/ \E success \in BOOLEAN : collectionFinished(success)
    PROVE  Inv'
  <1>1. UNCHANGED <<vars, app, ui, dashboard>>
    BY DEF PickGame, GamePicked, openHwidDialog, HwidCollectionEnds, copyCode, CopyTimer,
           HwidDialogCloses, collectionFinished
  <1>2. UNCHANGED state
    BY <1>1 DEF vars, manager
  <1>3. CASE openHwidDialog
    <2>1. hwid' \in HwidDialog
      BY <1>3 DEF openHwidDialog, HwidDialog
    <2>2. app = "running" /\ ui.shown /\ ~Busy(state)
      BY <1>3 DEF openHwidDialog, LoginActive, hwidLinkEnabled, Inv, EnabledUnlessBusy
    <2>3. state \in {"LoggedOut", "Failed"}
      BY <2>2 DEF Inv, AuthType, State, Busy, AuthenticatedIsShown, NeverStranded,
                  DashboardShown
    <2>4. HwidOverIdleLogin'
      BY <1>1, <1>2, <2>2, <2>3 DEF HwidOverIdleLogin
    <2> QED BY <1>1, <2>1, <2>4, DialogStep
  <1>4. CASE ~openHwidDialog
    <2>1. /\ hwid' # NoWindow => hwid # NoWindow
          /\ hwid' \in HwidDialog \cup {NoWindow}
      <3>1. hwid \in HwidDialog \cup {NoWindow}
        BY DEF Inv, WindowType
      <3>2. CASE PickGame \/ GamePicked \/ HwidDialogCloses
        BY <3>1, <3>2 DEF PickGame, GamePicked, HwidDialogCloses
      <3>3. CASE HwidCollectionEnds
        BY <3>1, <3>3 DEF HwidCollectionEnds, HwidDialog
      <3>4. CASE copyCode
        BY <3>1, <3>4 DEF copyCode, HwidDialog
      <3>5. CASE CopyTimer
        BY <3>1, <3>5 DEF CopyTimer, HwidDialog
      <3>6. ASSUME NEW success \in BOOLEAN, collectionFinished(success)
            PROVE  hwid # NoWindow /\ hwid' \in HwidDialog
        BY <3>1, <3>6 DEF collectionFinished, HwidDialog
      <3> QED BY <1>4, <3>2, <3>3, <3>4, <3>5, <3>6
    <2>2. HwidOverIdleLogin'
      BY <1>1, <1>2, <2>1 DEF Inv, HwidOverIdleLogin
    <2> QED BY <1>1, <2>1, <2>2, DialogStep
  <1> QED BY <1>3, <1>4

\* Only a dashboard that is hidden already is deleted.
LEMMA DeferredDeleteStep == Inv /\ DeferredDelete => Inv'
  <1> SUFFICES ASSUME Inv, DeferredDelete PROVE Inv'
    OBVIOUS
  <1>1. /\ app \in {"running", "quitting"} /\ app' \in {app, "undefined"}
        /\ dashboard' = IF dashboard # NoWindow /\ dashboard.dying THEN NoWindow ELSE dashboard
        /\ UNCHANGED <<vars, ui, hwid>>
    BY DEF DeferredDelete, Running
  <1>2. UNCHANGED <<state, attempt>>
    BY <1>1 DEF vars, manager
  <1>3. app # "exited" /\ app' # "exited"
    BY <1>1
  <1>4. WindowType' /\ EnabledUnlessBusy'
    BY <1>1, <1>2 DEF Inv, WindowType, EnabledUnlessBusy
  <1>5. HwidOverIdleLogin'
    BY <1>1, <1>2 DEF Inv, HwidOverIdleLogin
  <1>6. DashboardOfSession' /\ AuthenticatedIsShown' /\ HiddenIsDying' /\ NeverStranded'
    <2>1. CASE app' # "running"
      BY <2>1 DEF DashboardOfSession, AuthenticatedIsShown, HiddenIsDying, NeverStranded
    <2>2. CASE app' = "running"
      <3>1. app = "running"
        BY <1>1, <2>2
      <3>2. dashboard' # dashboard => dashboard' = NoWindow /\ ~DashboardShown
        BY <1>1, <3>1 DEF Inv, DashboardOfSession, DashboardShown
      <3> QED BY <1>1, <1>2, <3>1, <3>2 DEF Inv, DashboardOfSession, AuthenticatedIsShown,
                   HiddenIsDying, NeverStranded, DashboardShown
    <2> QED BY <2>1, <2>2
  <1> QED BY <1>1, <1>3, <1>4, <1>5, <1>6, WindowStep

\* Closing the last window: no HWID dialog can be open over it.
LEMMA ClosingStep == Inv /\ (DashboardCloses \/ LoginCloses) => Inv'
  <1> SUFFICES ASSUME Inv, DashboardCloses \/ LoginCloses PROVE Inv'
    OBVIOUS
  <1>1. app = "running" /\ app' = "quitting" /\ UNCHANGED <<vars, hwid>>
    BY DEF DashboardCloses, LoginCloses, DashboardActive, LoginActive
  <1>2. UNCHANGED <<state, attempt>>
    BY <1>1 DEF vars, manager
  <1>3. hwid = NoWindow
    BY DEF Inv, DashboardCloses, LoginCloses, DashboardActive, LoginActive,
           DashboardOfSession, HwidOverIdleLogin
  <1>4. ui \in LoginForm /\ dashboard \in Dashboard \cup {NoWindow}
    BY DEF Inv, WindowType
  <1>5. /\ ui' \in LoginForm /\ ui'.enabled = ui.enabled
        /\ dashboard' \in Dashboard \cup {NoWindow}
    <2>1. CASE DashboardCloses
      BY <1>4, <2>1 DEF DashboardCloses, DashboardActive, Dashboard
    <2>2. CASE LoginCloses
      BY <1>4, <2>2 DEF LoginCloses, LoginForm
    <2> QED BY <2>1, <2>2
  <1>6. WindowType' /\ EnabledUnlessBusy'
    BY <1>1, <1>2, <1>5 DEF Inv, WindowType, EnabledUnlessBusy
  <1>7. /\ DashboardOfSession' /\ AuthenticatedIsShown' /\ HiddenIsDying' /\ NeverStranded'
        /\ HwidOverIdleLogin'
    BY <1>1, <1>3 DEF DashboardOfSession, AuthenticatedIsShown, HiddenIsDying, NeverStranded,
                      HwidOverIdleLogin
  <1> QED BY <1>1, <1>6, <1>7, WindowStep

LEMMA QuitStep == Inv /\ Quit => Inv'
  <1> SUFFICES ASSUME Inv, Quit PROVE Inv'
    OBVIOUS
  <1>1. /\ app = "quitting" /\ app' = "exited" /\ dashboard' = NoWindow
        /\ attempt' = attempt + 1 /\ collecting' = NoTask /\ signing' = NoTask
        /\ UNCHANGED <<now, state, token, profileLoading, ui, hwid>>
    BY DEF Quit, cancelAndWait
  <1>2. AuthType'
    BY <1>1 DEF Inv, AuthType
  <1>3. WindowType' /\ EnabledUnlessBusy'
    BY <1>1 DEF Inv, WindowType, EnabledUnlessBusy
  <1>4. hwid = NoWindow
    BY <1>1 DEF Inv, HwidOverIdleLogin
  <1>5. /\ SessionGuarded' /\ CollectingForLogin' /\ HwidOverIdleLogin' /\ ExitedIsQuiet'
        /\ DashboardOfSession' /\ AuthenticatedIsShown' /\ HiddenIsDying' /\ NeverStranded'
    BY <1>1, <1>4 DEF SessionGuarded, CollectingForLogin, HwidOverIdleLogin, ExitedIsQuiet,
                      DashboardOfSession, AuthenticatedIsShown, HiddenIsDying, NeverStranded
  <1> QED BY <1>2, <1>3, <1>5 DEF Inv

-----------------------------------------------------------------------------
\* The inductive invariant holds in every reachable state.
THEOREM Invariance == ClientSpec => []Inv
  <1>1. Inv /\ [ClientNext]_clientVars => Inv'
    <2> SUFFICES ASSUME Inv, [ClientNext]_clientVars PROVE Inv'
      OBVIOUS
    <2>1. CASE UNCHANGED clientVars
      <3>1. UNCHANGED <<vars, app, ui, dashboard, hwid>> /\ UNCHANGED state
        BY <2>1 DEF clientVars, windows, vars, manager
      <3>2. hwid' \in HwidDialog \cup {NoWindow} /\ HwidOverIdleLogin'
        BY <3>1 DEF Inv, WindowType, HwidOverIdleLogin
      <3> QED BY <3>1, <3>2, DialogStep
    <2>2. CASE ClientNext
      BY <2>2, ClientEventStep, StartLoginStep, SignOutStep, DialogsStep, DeferredDeleteStep,
         ClosingStep, QuitStep DEF ClientNext, UserEvent, WindowEvent
    <2> QED BY <2>1, <2>2
  <1> QED BY <1>1, ClientInitInv, PTL DEF ClientSpec

\* No session token is held that no armed timer will expire, whatever order
\* replies, workers, timers and the user's clicks come in.
THEOREM SessionGuardedHolds == ClientSpec => []SessionGuarded
  <1>1. Inv => SessionGuarded
    BY DEF Inv
  <1> QED BY <1>1, Invariance, PTL

\* A visible dashboard is the current session's.
THEOREM DashboardOfSessionHolds == ClientSpec => []DashboardOfSession
  <1>1. Inv => DashboardOfSession
    BY DEF Inv
  <1> QED BY <1>1, Invariance, PTL

\* The user always has exactly one window to act in.
THEOREM NeverStrandedHolds == ClientSpec => []NeverStranded
  <1>1. Inv => NeverStranded
    BY DEF Inv
  <1> QED BY <1>1, Invariance, PTL

\* The hardware collector is never shared, and idle when it is destroyed.
THEOREM CollectorHasOneUserHolds == ClientSpec => []CollectorHasOneUser
  <1>1. Inv => CollectorHasOneUser
    <2> SUFFICES ASSUME Inv PROVE CollectorHasOneUser
      OBVIOUS
    <2>1. /\ collecting # NoTask => hwid = NoWindow
          /\ app = "exited" => collecting = NoTask /\ signing = NoTask /\ hwid = NoWindow
      BY DEF Inv, CollectingForLogin, HwidOverIdleLogin, ExitedIsQuiet
    <2> QED BY <2>1 DEF CollectorHasOneUser
  <1> QED BY <1>1, Invariance, PTL

\* The dashboard opens only on the profile of the current attempt, with a
\* token that has not expired.
THEOREM AdmittedFreshHolds == ClientSpec => AdmittedFresh
  <1> DEFINE Fresh == (state # "Authenticated" /\ state' = "Authenticated") =>
                          /\ token' # NoToken /\ token'.exp > now
                          /\ profile # NoReply /\ profile.attempt = attempt
                          /\ token'.attempt = attempt
  <1>1. Inv /\ [ClientNext]_clientVars => [Fresh]_vars
    <2> SUFFICES ASSUME Inv, ClientNext, state # "Authenticated", state' = "Authenticated"
                 PROVE  /\ token' # NoToken /\ token'.exp > now
                        /\ profile # NoReply /\ profile.attempt = attempt
                        /\ token'.attempt = attempt
      BY DEF clientVars, vars, manager
    <2>1. ClientEvent
      BY DEF ClientNext, UserEvent, WindowEvent, startLogin, login, SignOut, signOut,
             PickGame, DashboardCloses, LoginCloses, openHwidDialog, copyCode,
             DeferredDelete, Quit, GamePicked, HwidCollectionEnds, CopyTimer,
             HwidDialogCloses, collectionFinished, vars, manager
    <2>2. ProfileLoaded
      BY <2>1 DEF ClientEvent, Tick, Worker, CollectionEnds, SigningEnds, Replies,
             LoginReply, VerifyRejected, DeviceVerified, ProfileFailed, CancelledFinished,
             TimerFires, Queued, completeCollection, completeSigning, fail, reauthenticate,
             manager
    <2>3. /\ profile # NoReply /\ profile.attempt = attempt
          /\ token # NoToken /\ token' = token /\ ~SessionExpired
      BY <2>2 DEF ProfileLoaded, reauthenticate, manager
    <2>4. token.attempt = attempt
      BY <2>1, <2>3 DEF ClientEvent, Running, Inv, SessionGuarded, TokenGuardedByTimer
    <2>5. token.exp > now
      <3>1. token.exp \in Nat /\ now \in Nat
        BY <2>3, ClientAssumption DEF Inv, AuthType, Token, Time
      <3> QED BY <2>3, <3>1 DEF SessionExpired
    <2> QED BY <2>3, <2>4, <2>5
  <1> QED BY <1>1, Invariance, PTL DEF ClientSpec, AdmittedFresh
=============================================================================
