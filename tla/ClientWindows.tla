---------------------------- MODULE ClientWindows ----------------------------
(***************************************************************************)
(* The client's windows on top of AuthClient: LoginWindow, the dashboard   *)
(* it owns, the HWID dialog and the two nested event loops (the dialog's   *)
(* exec() and the dashboard's file dialog).                                *)
(*                                                                         *)
(* AuthManager's signals are direct calls, so an AuthClient step and the   *)
(* slots it calls are one action.  deleteLater() is a separate step: the   *)
(* DeferredDelete event is handled before any event posted after it.       *)
(***************************************************************************)
EXTENDS AuthClient

CONSTANT NoWindow

Dashboard == [attempt : Nat, shown : BOOLEAN, dying : BOOLEAN]
HwidDialog ==
    [task : {"running", "finished", "none"}, code : BOOLEAN, copy : BOOLEAN, copied : BOOLEAN]

ASSUME WindowAssumption == NoWindow \notin Dashboard

VARIABLES
    app,        \* QApplication::exec and the life of LoginWindow
    ui,         \* LoginWindow: shown, controls enabled, the subtitle
    dashboard,  \* what the QPointer dashboard_ refers to
    orphan,     \* a dashboard dashboard_ no longer refers to awaits deletion
    picking,    \* the frame of LaunchPanel's file dialog is on the stack
    hwid,       \* the HwidDialog on openHwidDialog's stack
    clipboard

windows == <<app, ui, dashboard, orphan, picking, hwid, clipboard>>
clientVars == <<vars, windows>>

Busy(s) == s \in {"CollectingDevice", "Authenticating", "VerifyingDevice"}

Running == app \in {"running", "quitting"}
\* Windows take input while no modal dialog is over them.
LoginActive == app = "running" /\ ui.shown /\ hwid = NoWindow
DashboardActive ==
    app = "running" /\ dashboard # NoWindow /\ dashboard.shown /\ ~picking

ClientInit ==
    /\ Init
    /\ app = "running"
    /\ ui = [shown |-> TRUE, enabled |-> TRUE, subtitle |-> "prompt"]
    /\ dashboard = NoWindow /\ orphan = FALSE /\ picking = FALSE
    /\ hwid = NoWindow /\ clipboard = "untouched"

-----------------------------------------------------------------------------
(* The slots of LoginWindow, run inside the AuthClient step that emits.    *)

applyState(u, s) == [u EXCEPT !.enabled = ~Busy(s)]

\* Mutant: the login window is not shown again.
showReauthenticationHidden ==
    /\ dashboard' = NoWindow
    /\ orphan' = (orphan \/ dashboard # NoWindow)
    /\ ui' = [applyState(ui, "LoggedOut") EXCEPT !.subtitle = "expired"]

showReauthentication ==
    /\ dashboard' = NoWindow
    /\ orphan' = (orphan \/ dashboard # NoWindow)
    /\ ui' = [applyState(ui, "LoggedOut") EXCEPT !.shown = TRUE, !.subtitle = "expired"]

\* An existing dashboard is shown again as it is; a new one is made from the
\* profile of the session.
showDashboard ==
    /\ dashboard' = IF dashboard = NoWindow
                    THEN [attempt |-> attempt', shown |-> TRUE, dying |-> FALSE]
                    ELSE [dashboard EXCEPT !.shown = TRUE]
    /\ ui' = [applyState(ui, "Authenticated") EXCEPT !.shown = FALSE]
    /\ UNCHANGED orphan

\* Of AuthClient's steps outside the user's hands only reauthenticate enters
\* LoggedOut, and only ProfileLoaded enters Authenticated.
Slots ==
    IF state' = "LoggedOut" /\ state # "LoggedOut" THEN showReauthentication
    ELSE IF state' = "Authenticated" /\ state # "Authenticated" THEN showDashboard
    ELSE ui' = applyState(ui, state') /\ UNCHANGED <<dashboard, orphan>>

-----------------------------------------------------------------------------
startLogin ==
    /\ LoginActive /\ ui.enabled
    /\ login
    /\ ui' = applyState([ui EXCEPT !.subtitle = "prompt"], state')
    /\ UNCHANGED <<app, dashboard, orphan, picking, hwid, clipboard>>

\* Mutant: the dashboard is hidden and kept.
SignOutKeepsDashboard ==
    /\ DashboardActive
    /\ signOut
    /\ dashboard' = [dashboard EXCEPT !.shown = FALSE]
    /\ ui' = [applyState(ui, state') EXCEPT !.shown = TRUE]
    /\ UNCHANGED <<app, orphan, picking, hwid, clipboard>>

\* LoginWindow::signOut: dashboard_ keeps pointing at the dashboard until it
\* is deleted.
SignOut ==
    /\ DashboardActive
    /\ signOut
    /\ dashboard' = [dashboard EXCEPT !.shown = FALSE, !.dying = TRUE]
    /\ ui' = [applyState(ui, state') EXCEPT !.shown = TRUE]
    /\ UNCHANGED <<app, orphan, picking, hwid, clipboard>>

\* The file dialog's parent is the launch panel, a child of the dashboard: a
\* dashboard deleted under the frame deletes what the frame still uses.
DeferredDelete ==
    /\ Running
    /\ orphan \/ (dashboard # NoWindow /\ dashboard.dying)
    /\ orphan' = FALSE
    /\ dashboard' = IF dashboard # NoWindow /\ dashboard.dying THEN NoWindow ELSE dashboard
    /\ app' = IF picking THEN "undefined" ELSE app
    /\ UNCHANGED <<vars, ui, picking, hwid, clipboard>>

\* The dashboard's close button, or its timer after a completed launch: the
\* last primary window is closed.
DashboardCloses ==
    /\ DashboardActive
    /\ dashboard' = [dashboard EXCEPT !.shown = FALSE, !.dying = TRUE]
    /\ app' = "quitting"
    /\ UNCHANGED <<vars, ui, orphan, picking, hwid, clipboard>>

LoginCloses ==
    /\ LoginActive
    /\ ui' = [ui EXCEPT !.shown = FALSE]
    /\ app' = "quitting"
    /\ UNCHANGED <<vars, dashboard, orphan, picking, hwid, clipboard>>

\* exec() returns and main destroys the LoginWindow.
Quit ==
    /\ app = "quitting" /\ ~picking
    /\ app' = "exited"
    /\ cancelAndWait
    /\ dashboard' = NoWindow
    /\ UNCHANGED <<config, now, state, held, token, profileLoading, timer, api,
                   ui, orphan, picking, hwid, clipboard>>

-----------------------------------------------------------------------------
(* The nested event loops.                                                 *)

PickGame ==
    /\ DashboardActive
    /\ picking' = TRUE
    /\ UNCHANGED <<vars, app, ui, dashboard, orphan, hwid, clipboard>>

GamePicked ==
    /\ Running /\ picking
    /\ picking' = FALSE
    /\ UNCHANGED <<vars, app, ui, dashboard, orphan, hwid, clipboard>>

\* Mutant: the link is followed while a login runs.
hwidLinkAlways == TRUE

hwidLinkEnabled == ui.enabled

\* exec() nests an event loop; the collection starts with the constructor.
openHwidDialog ==
    /\ LoginActive /\ hwidLinkEnabled
    /\ hwid' = [task |-> "running", code |-> FALSE, copy |-> FALSE, copied |-> FALSE]
    /\ UNCHANGED <<vars, app, ui, dashboard, orphan, picking, clipboard>>

HwidCollectionEnds ==
    /\ hwid # NoWindow /\ hwid.task = "running"
    /\ hwid' = [hwid EXCEPT !.task = "finished"]
    /\ UNCHANGED <<vars, app, ui, dashboard, orphan, picking, clipboard>>

collectionFinished(success) ==
    /\ hwid # NoWindow /\ hwid.task = "finished"
    /\ hwid' = [hwid EXCEPT !.task = "none", !.code = success, !.copy = success]
    /\ UNCHANGED <<vars, app, ui, dashboard, orphan, picking, clipboard>>

copyCode ==
    /\ hwid # NoWindow /\ hwid.copy
    /\ clipboard' = IF hwid.code THEN "fingerprint" ELSE "empty"
    /\ hwid' = [hwid EXCEPT !.copy = FALSE, !.copied = TRUE]
    /\ UNCHANGED <<vars, app, ui, dashboard, orphan, picking>>

CopyTimer ==
    /\ hwid # NoWindow /\ hwid.copied
    /\ hwid' = [hwid EXCEPT !.copy = TRUE, !.copied = FALSE]
    /\ UNCHANGED <<vars, app, ui, dashboard, orphan, picking, clipboard>>

\* The destructor waits for the collection.
HwidDialogCloses ==
    /\ hwid # NoWindow
    /\ hwid' = NoWindow
    /\ UNCHANGED <<vars, app, ui, dashboard, orphan, picking, clipboard>>

-----------------------------------------------------------------------------
\* AuthClient's steps that no user takes.  A worker's queued result is handled
\* after a deletion posted before it.
DeletionFirst == orphan \/ (dashboard # NoWindow /\ dashboard.dying)

ClientEvent ==
    /\ Running
    /\ \/ Tick \/ Worker \/ Replies \/ TimerFires
       \/ ~DeletionFirst /\ Queued
    /\ Slots
    /\ UNCHANGED <<app, picking, hwid, clipboard>>

UserEvent ==
    \/ startLogin \/ SignOut \/ PickGame
    \/ DashboardCloses \/ LoginCloses \/ openHwidDialog \/ copyCode

WindowEvent ==
    \/ DeferredDelete \/ Quit \/ GamePicked
    \/ HwidCollectionEnds \/ CopyTimer \/ HwidDialogCloses
    \/ \E success \in BOOLEAN : collectionFinished(success)

ClientNext == ClientEvent \/ UserEvent \/ WindowEvent

ClientSpec == ClientInit /\ [][ClientNext]_clientVars

\* Posted events are delivered and workers and requests end (a request is
\* aborted after 15 seconds); users owe nothing.
ClientFairness ==
    /\ WF_clientVars(DeferredDelete)
    /\ WF_clientVars(Running /\ ~DeletionFirst /\ Queued /\ ClientEvent)
    /\ WF_clientVars(Running /\ Worker /\ ClientEvent)
    /\ WF_clientVars(Running /\ Replies /\ ClientEvent)

ClientFairSpec == ClientSpec /\ ClientFairness

-----------------------------------------------------------------------------
\* TokenGuardedByTimer, in every state the windows can bring AuthManager to
\* while it exists: no token is held that nothing will expire.
SessionGuarded == app # "exited" => TokenGuardedByTimer

\* Every started login settles, however replies and workers are delayed and
\* whatever the user does in the windows meanwhile, unless the program ends.
LoginSettles ==
    (app = "running" /\ state \in {"CollectingDevice", "Authenticating", "VerifyingDevice"})
        ~> (app # "running" \/ state \in {"Authenticated", "Failed", "LoggedOut"})

\* A visible dashboard shows the session that is running: signing out or expiry
\* leaves none behind, and the next login never brings back the dashboard (and
\* the profile) of an earlier one, although signOut keeps dashboard_ set.
DashboardOfSession ==
    (app = "running" /\ dashboard # NoWindow /\ dashboard.shown) =>
        state = "Authenticated" /\ dashboard.attempt = attempt /\ ~dashboard.dying

\* The shared hardware collector has one user at a time, AuthManager's worker
\* or the HWID dialog's, and none is left when LoginWindow destroys it.
CollectorHasOneUser ==
    LET users == (IF collecting # NoTask /\ ~collecting.done THEN {"login"} ELSE {})
                 \cup (IF hwid # NoWindow /\ hwid.task = "running" THEN {"dialog"} ELSE {})
    IN /\ users # {"login", "dialog"}
       /\ app = "exited" => users = {} /\ signing = NoTask

\* The user always has a window to act in: the login form or the dashboard,
\* never both and never neither, until the program quits.
NeverStranded ==
    app = "running" =>
        (ui.shown <=> ~(dashboard # NoWindow /\ dashboard.shown))

\* "expiry closes the dashboard and restores the credential form with a safe
\* reason": wherever the user is when the session expires, the program goes on
\* in the login form.
ExpiryRestoresLogin ==
    ui.subtitle = "expired" => app # "undefined" /\ (app = "running" => ui.shown)
=============================================================================
