----------------------------- MODULE AuthClient -----------------------------
(***************************************************************************)
(* The client's login: AuthManager driving ApiClient, with the two worker  *)
(* threads (hardware collection, challenge signing), the network replies   *)
(* and the session expiry timer.                                           *)
(*                                                                         *)
(* AuthManager and ApiClient live on the Qt main thread: each action below *)
(* is one event the main thread handles to its end, synchronous signals    *)
(* included, or one step outside it (a worker finishing, the clock).  A    *)
(* result carries the attempt_ it was started under; attempt_ grows        *)
(* whenever an attempt is abandoned.  WaitingForDeviceChallenge is left    *)
(* inside the handler that enters it, so no event sees it.                 *)
(***************************************************************************)
EXTENDS Integers

CONSTANTS
    NoToken, NoTimer, NoTask, NoReply,
    TimerSlack,     \* how much too early a coarse QTimer may fire
    MaxTime,        \* bound on the clock
    MaxAttempt      \* bound on the attempts a user starts or cancels

Time == 0..MaxTime
Task == [attempt : Nat, done : BOOLEAN]
Token == [attempt : Nat, exp : Time]

ASSUME ClientAssumption ==
    /\ {TimerSlack, MaxTime, MaxAttempt} \subseteq Nat
    /\ NoToken \notin Token

VARIABLES
    config,         \* secure: pinned transport; verifier: token key present
    now,
    state,          \* AuthManager::state_
    attempt,        \* AuthManager::attempt_
    held,           \* which of pendingLogin_.password, hardware_, sessionId_
                    \* with challenge_, and userProfile_ are not cleared
    token,          \* sessionToken_ with expiresAt_
    profileLoading, \* AuthManager::profileLoading_
    timer,          \* the armed expiry timer
    collecting,     \* the future of collectionWatcher_
    signing,        \* the future of signingWatcher_
    requestActive,  \* ApiClient::requestActive_
    post,           \* the login or verify reply in flight
    profile,        \* ApiClient::profileReply_
    cancelled       \* aborted profile replies whose finished() is pending

manager == <<state, attempt, held, token, profileLoading, timer>>
workers == <<collecting, signing>>
api == <<requestActive, post, profile, cancelled>>
vars == <<config, now, manager, workers, api>>

State == {"LoggedOut", "CollectingDevice", "Authenticating", "VerifyingDevice",
          "Authenticated", "Failed"}
Secret == {"password", "hardware", "challenge", "profile"}

-----------------------------------------------------------------------------
(* ApiClient: at most one request at a time.                               *)

Refused == requestActive \/ ~config.secure

\* cancelProfile aborts the profile reply only; a login or verify reply is
\* left to finish.
cancelProfile ==
    IF profile = NoReply
    THEN UNCHANGED api
    ELSE /\ profile' = NoReply
         /\ requestActive' = FALSE
         /\ cancelled' = cancelled + 1
         /\ UNCHANGED post

postJson(kind) ==
    /\ requestActive' = TRUE
    /\ post' = [kind |-> kind, attempt |-> attempt]
    /\ UNCHANGED <<profile, cancelled>>

\* The finished() handler of a POST: the slot is free before any signal.
PostFinished ==
    /\ requestActive' = FALSE
    /\ post' = NoReply
    /\ UNCHANGED <<profile, cancelled>>

ProfileFinished ==
    /\ requestActive' = FALSE
    /\ profile' = NoReply
    /\ UNCHANGED <<post, cancelled>>

-----------------------------------------------------------------------------
(* AuthManager: the ways an attempt ends.                                  *)

\* Mutant: the token is not among what clearSession clears.
clearSessionKeepsToken == held' = {} /\ profileLoading' = FALSE /\ UNCHANGED token

clearSession == held' = {} /\ token' = NoToken /\ profileLoading' = FALSE

\* Mutant: fail() without its transition.
failSilently ==
    /\ timer' = NoTimer
    /\ attempt' = attempt + 1
    /\ clearSession
    /\ UNCHANGED state

\* fail(); the caller says what happens to the replies (a profile reply that
\* brought the failure is already gone, so cancelProfile has nothing to do).
fail ==
    /\ timer' = NoTimer
    /\ attempt' = attempt + 1
    /\ clearSession
    /\ state' = "Failed"

\* requireReauthentication() after its guard.
reauthenticate ==
    /\ timer' = NoTimer
    /\ attempt' = attempt + 1
    /\ clearSession
    /\ state' = "LoggedOut"

\* Blocks until both workers ended and drops their results.
cancelAndWait ==
    /\ attempt' = attempt + 1
    /\ collecting' = NoTask
    /\ signing' = NoTask

scheduleExpiry(exp) == timer' = [attempt |-> attempt, at |-> exp]

\* Mutant: the clock is not looked at when the profile arrives.
SessionExpiredIgnored == FALSE

SessionExpired == token.exp <= now

-----------------------------------------------------------------------------
Init ==
    /\ config \in [secure : BOOLEAN, verifier : BOOLEAN]
    /\ now = 0
    /\ state = "LoggedOut" /\ attempt = 0
    /\ held = {} /\ token = NoToken /\ profileLoading = FALSE /\ timer = NoTimer
    /\ collecting = NoTask /\ signing = NoTask
    /\ requestActive = FALSE /\ post = NoReply /\ profile = NoReply
    /\ cancelled = 0

Tick ==
    /\ now < MaxTime
    /\ now' = now + 1
    /\ UNCHANGED <<config, manager, workers, api>>

login ==
    /\ state \in {"LoggedOut", "Failed"}
    /\ attempt < MaxAttempt
    /\ timer' = NoTimer
    /\ held' = {"password"} /\ token' = NoToken /\ profileLoading' = FALSE
    /\ attempt' = attempt + 1
    /\ state' = "CollectingDevice"
    /\ collecting' = [attempt |-> attempt + 1, done |-> FALSE]
    /\ UNCHANGED <<config, now, signing, api>>

signOut ==
    /\ attempt < MaxAttempt
    /\ cancelAndWait
    /\ timer' = NoTimer
    /\ cancelProfile
    /\ clearSession
    /\ state' = "LoggedOut"
    /\ UNCHANGED <<config, now>>

\* A worker thread ends; the watcher's finished() is queued.
CollectionEnds ==
    /\ collecting # NoTask /\ ~collecting.done
    /\ collecting' = [collecting EXCEPT !.done = TRUE]
    /\ UNCHANGED <<config, now, manager, signing, api>>

SigningEnds ==
    /\ signing # NoTask /\ ~signing.done
    /\ signing' = [signing EXCEPT !.done = TRUE]
    /\ UNCHANGED <<config, now, manager, collecting, api>>

\* success is what IHardwareCollector::collect reported.  A refused request
\* fails the attempt before login() returns.
completeCollection(success) ==
    /\ collecting # NoTask /\ collecting.done
    /\ collecting' = NoTask
    /\ IF collecting.attempt # attempt \/ state # "CollectingDevice"
       THEN UNCHANGED <<manager, api>>
       ELSE IF ~success \/ ~config.verifier \/ Refused
       THEN fail /\ UNCHANGED api
       ELSE /\ state' = "Authenticating"
            /\ held' = {"hardware"}
            /\ postJson("login")
            /\ UNCHANGED <<attempt, token, profileLoading, timer>>
    /\ UNCHANGED <<config, now, signing>>

\* The login reply: an error (timeout and malformed body included), or a
\* session whose challenge may not decode.
LoginReply(outcome) ==
    /\ post # NoReply /\ post.kind = "login"
    /\ PostFinished
    /\ IF post.attempt # attempt \/ state # "Authenticating" \/ profileLoading
       THEN UNCHANGED <<manager, signing>>
       ELSE IF outcome # "challenge"
       THEN fail /\ UNCHANGED signing
       ELSE /\ state' = "VerifyingDevice"
            /\ held' = held \cup {"challenge"}
            /\ signing' = [attempt |-> attempt, done |-> FALSE]
            /\ UNCHANGED <<attempt, token, profileLoading, timer>>
    /\ UNCHANGED <<config, now, collecting>>

\* success: the TPM signed and its public key is well formed.
completeSigning(success) ==
    /\ signing # NoTask /\ signing.done
    /\ signing' = NoTask
    /\ IF signing.attempt # attempt \/ state # "VerifyingDevice"
       THEN UNCHANGED <<manager, api>>
       ELSE IF ~success \/ Refused
       THEN fail /\ UNCHANGED api
       ELSE postJson("verify") /\ UNCHANGED manager
    /\ UNCHANGED <<config, now, collecting>>

VerifyRejected ==
    /\ post # NoReply /\ post.kind = "verify"
    /\ PostFinished
    /\ IF post.attempt # attempt \/ state # "VerifyingDevice"
       THEN UNCHANGED manager
       ELSE fail
    /\ UNCHANGED <<config, now, workers>>

\* A token the verifier accepted, expiring at exp (which may pass between the
\* verifier's look at the clock and AuthManager's).  proof: the protected
\* request could be built.
DeviceVerified(exp, proof) ==
    /\ post # NoReply /\ post.kind = "verify"
    /\ exp >= now
    /\ post' = NoReply
    /\ UNCHANGED cancelled
    /\ IF post.attempt # attempt \/ state # "VerifyingDevice"
       THEN requestActive' = FALSE /\ UNCHANGED <<manager, profile>>
       ELSE IF exp <= now
       THEN reauthenticate /\ requestActive' = FALSE /\ UNCHANGED profile
       ELSE IF ~proof
       THEN fail /\ requestActive' = FALSE /\ UNCHANGED profile
       ELSE /\ token' = [attempt |-> attempt, exp |-> exp]
            /\ scheduleExpiry(exp)
            /\ profileLoading' = TRUE
            /\ state' = "Authenticating"
            /\ requestActive' = TRUE
            /\ profile' = [attempt |-> attempt]
            /\ UNCHANGED <<attempt, held>>
    /\ UNCHANGED <<config, now, workers>>

ProfileLoaded ==
    /\ profile # NoReply
    /\ ProfileFinished
    /\ IF profile.attempt # attempt \/ state # "Authenticating" \/ ~profileLoading
          \/ token = NoToken
       THEN UNCHANGED manager
       ELSE IF SessionExpired
       THEN reauthenticate
       ELSE /\ held' = held \cup {"profile"}
            /\ profileLoading' = FALSE
            /\ state' = "Authenticated"
            /\ UNCHANGED <<attempt, token, timer>>
    /\ UNCHANGED <<config, now, workers>>

ProfileFailed ==
    /\ profile # NoReply
    /\ ProfileFinished
    /\ IF profile.attempt # attempt \/ state # "Authenticating" \/ ~profileLoading
       THEN UNCHANGED manager
       ELSE fail
    /\ UNCHANGED <<config, now, workers>>

\* finished() of an aborted profile reply only deletes the reply.
CancelledFinished ==
    /\ cancelled > 0
    /\ cancelled' = cancelled - 1
    /\ UNCHANGED <<config, now, manager, workers, requestActive, post, profile>>

\* The single-shot timer fires; requireReauthentication checks its attempt.
TimerFires ==
    /\ timer # NoTimer
    /\ now + TimerSlack >= timer.at
    /\ IF timer.attempt # attempt \/ token = NoToken
       THEN /\ timer' = NoTimer
            /\ UNCHANGED <<state, attempt, held, token, profileLoading, api>>
       ELSE reauthenticate /\ cancelProfile
    /\ UNCHANGED <<config, now, workers>>

User == login \/ signOut

Worker == CollectionEnds \/ SigningEnds

Replies ==
    \/ \E outcome \in {"challenge", "error"} : LoginReply(outcome)
    \/ VerifyRejected
    \/ \E exp \in Time, proof \in BOOLEAN : DeviceVerified(exp, proof)
    \/ ProfileLoaded
    \/ ProfileFailed
    \/ CancelledFinished

Queued == \E success \in BOOLEAN : completeCollection(success) \/ completeSigning(success)

Next == Tick \/ User \/ Worker \/ Queued \/ Replies \/ TimerFires

Spec == Init /\ [][Next]_vars

-----------------------------------------------------------------------------
\* A session token is held exactly while it is used (loading the profile or
\* authenticated), it was obtained by the current attempt, and as long as it
\* is held the expiry timer is armed for it: no path through the callbacks
\* leaves a token nothing will expire, or a timer that would end a later one.
TokenGuardedByTimer ==
    /\ (token # NoToken) <=> (profileLoading \/ state = "Authenticated")
    /\ profileLoading => state = "Authenticating"
    /\ token # NoToken =>
          token.attempt = attempt /\ timer = [attempt |-> attempt, at |-> token.exp]
    /\ token = NoToken => timer = NoTimer

\* The dashboard opens only with an unexpired token of the attempt that the
\* user started last: no late reply of an abandoned attempt authenticates.
AdmittedFresh ==
    [][(state # "Authenticated" /\ state' = "Authenticated") =>
          /\ token' # NoToken /\ token'.exp > now
          /\ profile # NoReply /\ profile.attempt = attempt
          /\ token'.attempt = attempt]_vars
=============================================================================
