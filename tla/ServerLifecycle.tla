-------------------------- MODULE ServerLifecycle --------------------------
(***************************************************************************)
(* The end of the server process: serveUntilStopped and shutdownServer     *)
(* race the stop signal, the listener's goroutine, the drain deadline and  *)
(* the handlers in flight; runServer then closes the connection pool.      *)
(* net/http, os/signal and pgxpool are external: Shutdown refuses new      *)
(* requests and waits for those in flight, pool.Close waits for borrowed   *)
(* connections, a borrower whose context ends gives its connection back.   *)
(***************************************************************************)
CONSTANT Request

VARIABLES
    signalled,      \* history: a stop signal was received
    done,           \* applicationCtx is cancelled, and every request's with it
    listener,       \* where ListenAndServe is, or what it sent to serverErrors
    main,           \* where the main goroutine is
    result,         \* what serveUntilStopped returned
    phase           \* what each request's handler is doing

vars == <<signalled, done, listener, main, result, phase>>

Running == main # "exited"
ShuttingDown == main # "select" /\ result # "listenError"
InFlight == {r \in Request : phase[r] \in {"client", "database"}}
Borrowers == {r \in Request : phase[r] = "database"}

-----------------------------------------------------------------------------
Init ==
    /\ signalled = FALSE
    /\ done = FALSE
    /\ listener = "starting"
    /\ main = "select"
    /\ result = "none"
    /\ phase = [r \in Request |-> "absent"]

\* NotifyContext turns the first signal into a cancellation.  Its cancel
\* function, the first call on every way out of the select, also restores the
\* default action: a signal after that ends the process on the spot.
Signal ==
    /\ Running
    /\ signalled' = TRUE
    /\ IF main = "select"
       THEN done' = TRUE /\ UNCHANGED <<main, result>>
       ELSE main' = "exited" /\ result' = "killed" /\ UNCHANGED done
    /\ UNCHANGED <<listener, phase>>

\* A server that is shutting down does not begin to listen.
ListenAndServe ==
    /\ Running
    /\ \/ /\ listener = "starting"
          /\ listener' \in IF ShuttingDown THEN {"closed"} ELSE {"serving", "failed"}
       \/ /\ listener = "serving"
          /\ listener' = IF ShuttingDown THEN "closed" ELSE "failed"
    /\ UNCHANGED <<signalled, done, main, result, phase>>

\* A handler talks to its client and borrows a connection of the pool at will.
Arrive(r) ==
    /\ Running /\ listener = "serving" /\ ~ShuttingDown
    /\ phase[r] = "absent"
    /\ phase' = [phase EXCEPT ![r] = "client"]
    /\ UNCHANGED <<signalled, done, listener, main, result>>

Acquire(r) ==
    /\ Running /\ ~done
    /\ phase[r] = "client"
    /\ phase' = [phase EXCEPT ![r] = "database"]
    /\ UNCHANGED <<signalled, done, listener, main, result>>

Release(r) ==
    /\ Running
    /\ phase[r] = "database"
    /\ phase' = [phase EXCEPT ![r] = "client"]
    /\ UNCHANGED <<signalled, done, listener, main, result>>

Answer(r) ==
    /\ Running
    /\ phase[r] = "client"
    /\ phase' = [phase EXCEPT ![r] = "answered"]
    /\ UNCHANGED <<signalled, done, listener, main, result>>

-----------------------------------------------------------------------------
\* case <-applicationCtx.Done(): shutdownServer cancels and calls Shutdown.
StopRequested ==
    /\ main = "select" /\ done
    /\ main' = "Shutdown"
    /\ UNCHANGED <<signalled, done, listener, result, phase>>

\* case err := <-serverErrors.
ListenerReturned ==
    /\ main = "select" /\ listener \in {"failed", "closed"}
    /\ done' = TRUE
    /\ result' = IF listener = "closed" THEN "nil" ELSE "listenError"
    /\ main' = "poolClose"
    /\ UNCHANGED <<signalled, listener, phase>>

Drained ==
    /\ main = "Shutdown" /\ InFlight = {}
    /\ result' = "nil"
    /\ main' = "poolClose"
    /\ UNCHANGED <<signalled, done, listener, phase>>

\* Mutant: the error of Shutdown is lost when Close succeeds.
DeadlineForgotten ==
    /\ main = "Shutdown"
    /\ result' = "nil"
    /\ main' = "Close"
    /\ UNCHANGED <<signalled, done, listener, phase>>

\* Shutdown gives up when gracePeriod is over; its error is returned.
DeadlineExceeded ==
    /\ main = "Shutdown"
    /\ result' = "deadlineExceeded"
    /\ main' = "Close"
    /\ UNCHANGED <<signalled, done, listener, phase>>

\* server.Close drops the connections to the clients, not the handlers.
CloseServer ==
    /\ main = "Close"
    /\ main' = "poolClose"
    /\ UNCHANGED <<signalled, done, listener, result, phase>>

\* The deferred pool.Close of runServer.
ClosePool ==
    /\ main = "poolClose" /\ Borrowers = {}
    /\ main' = "exited"
    /\ UNCHANGED <<signalled, done, listener, result, phase>>

Stop ==
    \/ StopRequested
    \/ ListenerReturned
    \/ Drained
    \/ DeadlineExceeded
    \/ CloseServer
    \/ ClosePool

Handler(r) == Arrive(r) \/ Acquire(r) \/ Release(r) \/ Answer(r)

Next == Signal \/ ListenAndServe \/ Stop \/ \E r \in Request : Handler(r)

Spec == Init /\ [][Next]_vars
-----------------------------------------------------------------------------
\* The process ends without an error only when it was asked to stop and every
\* request it had taken on was answered: a listener that failed by itself and a
\* drain that ran out of time are both reported, whichever of signal, listener
\* and deadline came first.
CleanExitIsDrained == result = "nil" => signalled /\ InFlight = {}

\* Unless it is killed, the process ends with no handler inside the database,
\* on the way through a failed listener and an exhausted drain as well: what a
\* request had begun was committed or rolled back with its handler still there.
NoTransactionCutOff == main = "exited" /\ result # "killed" => Borrowers = {}
=============================================================================
