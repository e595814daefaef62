----------------------------- MODULE PartsProofs -----------------------------
(***************************************************************************)
(* What Parts promises, proved for every value of its constants.           *)
(***************************************************************************)
EXTENDS Parts, SequenceTheorems, FiniteSetTheorems, WellFoundedInduction, TLAPS

-----------------------------------------------------------------------------
(* The end of the server process, for any number of requests.              *)

TypeOK ==
    /\ signalled \in BOOLEAN /\ done \in BOOLEAN
    /\ listener \in {"starting", "serving", "failed", "closed"}
    /\ main \in {"select", "Shutdown", "Close", "poolClose", "exited"}
    /\ result \in {"none", "nil", "listenError", "deadlineExceeded", "killed"}
    /\ phase \in [Request -> {"absent", "client", "database", "answered"}]

\* Until the select is left only a signal can have cancelled the context, and
\* the listener has not been told to close.
SelectInv ==
    /\ main = "select" => result = "none" /\ (done => signalled) /\ listener # "closed"
    /\ main = "Shutdown" => result = "none" /\ signalled
    /\ result = "nil" => main # "select"

IInv == TypeOK /\ SelectInv /\ CleanExitIsDrained /\ NoTransactionCutOff

\* The process starts with no signal, no result and no request in flight.
LEMMA InitIInv == Init => IInv
BY DEF Init, IInv, TypeOK, SelectInv, CleanExitIsDrained, NoTransactionCutOff

\* Neither the listener's goroutine nor a signal disturbs what the exit status
\* says.
LEMMA EventStep == IInv /\ (Signal \/ ListenAndServe) => IInv'
<1> SUFFICES ASSUME IInv, Signal \/ ListenAndServe PROVE IInv'
  OBVIOUS
<1>1. CASE Signal
  BY <1>1 DEF Signal, IInv, TypeOK, SelectInv, CleanExitIsDrained,
              NoTransactionCutOff, Running, InFlight, Borrowers
<1>2. CASE ListenAndServe
  BY <1>2 DEF ListenAndServe, IInv, TypeOK, SelectInv, CleanExitIsDrained,
              NoTransactionCutOff, Running, ShuttingDown, InFlight, Borrowers
<1> QED BY <1>1, <1>2

\* A handler's step cannot put a request in flight after a clean drain: nothing
\* arrives at a server that is shutting down, and nothing else was left.
LEMMA HandlerStep == ASSUME NEW r \in Request, IInv, Handler(r) PROVE IInv'
<1> USE DEF IInv, TypeOK, SelectInv
<1>1. Running /\ UNCHANGED <<signalled, done, listener, main, result>>
  BY DEF Handler, Arrive, Acquire, Release, Answer
<1>2. TypeOK'
  BY <1>1 DEF Handler, Arrive, Acquire, Release, Answer
<1>3. result # "nil"
  <2> SUFFICES ASSUME result = "nil" PROVE FALSE
    OBVIOUS
  <2>1. phase[r] \notin {"client", "database"}
    BY DEF CleanExitIsDrained, InFlight
  <2>2. ShuttingDown
    BY DEF ShuttingDown
  <2> QED BY <2>1, <2>2 DEF Handler, Arrive, Acquire, Release, Answer
<1> QED BY <1>1, <1>2, <1>3 DEF CleanExitIsDrained, NoTransactionCutOff, Running

\* The main goroutine reports success only from a drained Shutdown, since the
\* listener does not end with ErrServerClosed before that, and leaves only when
\* the pool got its connections back.
LEMMA StopStep == IInv /\ Stop => IInv'
<1> SUFFICES ASSUME IInv, Stop PROVE IInv'
  OBVIOUS
<1> USE DEF IInv, TypeOK, SelectInv, CleanExitIsDrained, NoTransactionCutOff,
            InFlight, Borrowers
<1>1. CASE StopRequested BY <1>1 DEF StopRequested
<1>2. CASE ListenerReturned BY <1>2 DEF ListenerReturned
<1>3. CASE Drained BY <1>3 DEF Drained
<1>4. CASE DeadlineExceeded BY <1>4 DEF DeadlineExceeded
<1>5. CASE CloseServer BY <1>5 DEF CloseServer
<1>6. CASE ClosePool BY <1>6 DEF ClosePool
<1> QED BY <1>1, <1>2, <1>3, <1>4, <1>5, <1>6 DEF Stop

\* The inductive invariant holds in every reachable state.
THEOREM Invariance == Spec => []IInv
<1>1. IInv /\ [Next]_vars => IInv'
  <2> SUFFICES ASSUME IInv, [Next]_vars PROVE IInv'
    OBVIOUS
  <2>1. CASE UNCHANGED vars
    BY <2>1 DEF vars, IInv, TypeOK, SelectInv, CleanExitIsDrained,
                NoTransactionCutOff, InFlight, Borrowers
  <2>2. CASE Next
    BY <2>2, EventStep, HandlerStep, StopStep DEF Next
  <2> QED BY <2>1, <2>2
<1> QED BY <1>1, InitIInv, PTL DEF Spec

\* The process ends without an error only when it was asked to stop and every
\* request it had taken on was answered (shutdownServer).
THEOREM CleanExitIsDrainedHolds == Spec => []CleanExitIsDrained
BY Invariance, PTL DEF IInv

\* Unless it is killed, the process ends with no handler inside the database
\* (the deferred pool.Close of runServer).
THEOREM NoTransactionCutOffHolds == Spec => []NoTransactionCutOff
BY Invariance, PTL DEF IInv

-----------------------------------------------------------------------------
(* A behaviour of Parts is one of the part it runs.                        *)

\* The part that runs begins as its module says.
LEMMA PartBeginning ==
    ASSUME PartsInit
    PROVE  /\ part = "match" => Match!Init
           /\ part = "address" => Address!Init
           /\ part = "secure" => Secure!Init
           /\ part = "session" => Session!Init
           /\ part = "compact" => Compact!Init
           /\ part = "fingerprint" => Machine!Init
           /\ part = "smbios" => Smbios!Init
           /\ part = "reads" => Reads!Init
           /\ part = "bios" => Bios!Init
           /\ part = "obtainer" => Obtainer!Init
BY DEF PartsInit, PartBegins, Begins

\* A step of Parts is a step of the part that runs, or none.
LEMMA PartStep ==
    ASSUME [PartsNext]_partsVars
    PROVE  /\ UNCHANGED part
           /\ part = "match" => [Match!Next]_(Match!vars)
           /\ part = "address" => [Address!Next]_(Address!vars)
           /\ part = "secure" => [Secure!Next]_(Secure!vars)
           /\ part = "session" => [Session!Next]_(Session!vars)
           /\ part = "compact" => [Compact!Extend]_compact
           /\ part = "fingerprint" => [Machine!Next]_(Machine!vars)
           /\ part = "smbios" => [Smbios!Next]_(Smbios!vars)
           /\ part = "reads" => [Reads!Next]_(Reads!vars)
           /\ part = "bios" => [Bios!Next]_(Bios!vars)
           /\ part = "obtainer" => [Obtainer!Next]_(Obtainer!vars)
BY DEF PartsNext, partsVars, OthersRest

-----------------------------------------------------------------------------
(* SessionToken: any key ring, any drift of the clocks, any claimed times. *)

\* The clocks and the times a token claims are integers.
SessionInv ==
    /\ now \in Int /\ drift \in Int
    /\ token # NoSession => token.iat \in Int /\ token.nbf \in Int /\ token.exp \in Int
    /\ Session!SessionBounded

\* Every step keeps the accepted session within the lifetime and the skew: the
\* policy bounds the issue time by the client's clock and ties the expiry to it.
LEMMA SessionStep ==
    ASSUME SessionInv, [Session!Next]_(Session!vars)
    PROVE  SessionInv'
<1> USE PartsAssumption DEF SessionInv, Session!SessionBounded
<1>1. CASE Session!Tick BY <1>1 DEF Session!Tick
<1>2. CASE Session!Rotate BY <1>2 DEF Session!Rotate
<1>3. CASE Session!Issue BY <1>3 DEF Session!Issue
<1>4. CASE Session!Misdeliver BY <1>4 DEF Session!Misdeliver
<1>5. CASE Session!Receive
  BY <1>5 DEF Session!Receive, Session!verify, Session!claimPolicyAccepted, Session!clientNow
<1>6. CASE UNCHANGED Session!vars BY <1>6 DEF Session!vars
<1> QED BY <1>1, <1>2, <1>3, <1>4, <1>5, <1>6 DEF Session!Next

\* A session SessionTokenVerifier accepts lasts at most the lifetime and the
\* skew on the client's own clock, however far that clock is off and whatever
\* times the token claims.
THEOREM SessionBoundedHolds == PartsSpec => []SessionBounded
<1> DEFINE Inv == part = "session" => SessionInv
<1>1. PartsInit => Inv
  BY PartBeginning, PartsAssumption DEF Session!Init, SessionInv, Session!SessionBounded
<1>2. Inv /\ [PartsNext]_partsVars => Inv'
  BY PartStep, SessionStep
<1>3. Inv => SessionBounded
  BY DEF SessionInv, SessionBounded
<1> QED BY <1>1, <1>2, <1>3, PTL DEF PartsSpec

-----------------------------------------------------------------------------
(* SecureReply: any number of requests, pins and orders of the signals.    *)

Reply ==
    [kind : Secure!Kind, phase : {"connecting", "open", "ending", "aborted"},
     peer : Pin \cup {OtherKey, NoReply}, sent : BOOLEAN,
     security : {"", "TLS_VALIDATION_FAILED", "TLS_REDIRECT_REJECTED"},
     timeout : BOOLEAN, cancelled : BOOLEAN, networkError : BOOLEAN, tooLarge : BOOLEAN,
     status : Nat, body : Secure!Body]

SecureTypeOK ==
    /\ \A i \in 1..Len(config.pins) : config.pins[i] \in Pin \cup {BadPin}
    /\ reply \in [1..Requests -> Reply \cup {NoReply}]
    /\ answers \in [1..Requests -> Seq({"failed", "cancelled", "succeeded"})]

\* There are replies only under an allowed transport, and every mark on a reply
\* came with the abort that put an error there.
SecureInv ==
    /\ SecureTypeOK
    /\ \A q \in 1..Requests : Secure!Alive(q) =>
          /\ Secure!isAllowedTransport
          /\ reply[q].security # "" \/ reply[q].timeout \/ reply[q].cancelled
                => reply[q].networkError
          /\ reply[q].phase = "connecting" => ~reply[q].sent
    /\ Secure!SentOnlyToPinnedPeer
    /\ Secure!ScreenTextIsLocal

\* No reply has begun.
LEMMA SecureBeginning == ASSUME Secure!Init PROVE SecureInv
<1>1. \A i \in 1..Len(config.pins) : config.pins[i] \in Pin \cup {BadPin}
  <2>1. PICK n \in 0..3 : config.pins \in [1..n -> Pin \cup {BadPin}]
    BY DEF Secure!Init, Secure!Config
  <2>2. config.pins \in Seq(Pin \cup {BadPin})
    BY <2>1
  <2> QED BY <2>2
<1>2. SecureTypeOK
  <2>1. <<>> \in Seq({"failed", "cancelled", "succeeded"})
    OBVIOUS
  <2>2. reply \in [1..Requests -> Reply \cup {NoReply}]
    BY DEF Secure!Init
  <2>3. answers \in [1..Requests -> Seq({"failed", "cancelled", "succeeded"})]
    BY <2>1 DEF Secure!Init
  <2> QED BY <1>1, <2>2, <2>3 DEF SecureTypeOK
<1> QED BY <1>2 DEF Secure!Init, SecureInv, Secure!Alive, Secure!SentOnlyToPinnedPeer,
                    Secure!ScreenTextIsLocal, Secure!LocalText, Secure!LocalCode

Pinned(p) == p \in {config.pins[i] : i \in 1..Len(config.pins)} \cap Pin

\* What a reply must be like to take a request's place.
Sound(r) ==
    r # NoReply =>
        /\ r \in Reply
        /\ Secure!isAllowedTransport
        /\ r.security # "" \/ r.timeout \/ r.cancelled => r.networkError
        /\ r.phase = "connecting" => ~r.sent
        /\ r.sent => (config.localDevelopment /\ config.loopback) \/ Pinned(r.peer)

\* Replacing one reply by a sound one keeps the invariant.
LEMMA PutKeeps ==
    ASSUME SecureInv, NEW q \in 1..Requests, NEW r, Sound(r), Secure!Put(q, r),
           UNCHANGED config,
           answers' \in [1..Requests -> Seq({"failed", "cancelled", "succeeded"})],
           Secure!ScreenTextIsLocal'
    PROVE  SecureInv'
<1>1. \A p \in 1..Requests : reply'[p] = IF p = q THEN r ELSE reply[p]
  BY DEF SecureInv, SecureTypeOK, Secure!Put
<1>2. SecureTypeOK'
  BY DEF SecureInv, SecureTypeOK, Secure!Put, Sound
<1>3. Secure!isAllowedTransport' = Secure!isAllowedTransport
  BY DEF Secure!isAllowedTransport, Secure!isValid, Secure!permitsRequestUrl,
         Secure!decodePin
<1>4. Secure!SentOnlyToPinnedPeer'
  BY <1>1 DEF SecureInv, Sound, Pinned, Secure!SentOnlyToPinnedPeer, Secure!Alive
<1> QED BY <1>1, <1>2, <1>3, <1>4 DEF SecureInv, Sound, Secure!Alive

\* The reply of a request that is alive is sound.
LEMMA AliveSound ==
    ASSUME SecureInv, NEW q \in 1..Requests, Secure!Alive(q)
    PROVE  Sound(reply[q]) /\ reply[q] \in Reply /\ Secure!isAllowedTransport
BY DEF SecureInv, SecureTypeOK, Sound, Pinned, Secure!SentOnlyToPinnedPeer, Secure!Alive

\* A verified peer holds one of the two pinned keys.
LEMMA VerifiedPinned ==
    ASSUME SecureTypeOK, NEW p, Secure!verify(p)
    PROVE  Pinned(p)
<1>1. ~config.localDevelopment /\ Secure!isValid
  BY DEF Secure!verify, Secure!permitsRequestUrl
<1>2. Len(config.pins) = 2 /\ \A i \in 1..2 : config.pins[i] # BadPin
  BY <1>1 DEF Secure!isValid, Secure!decodePin
<1>3. PICK i \in 1..Len(config.pins) : config.pins[i] = p
  BY DEF Secure!verify
<1> QED BY <1>2, <1>3 DEF Pinned, SecureTypeOK

\* A reply with an error on it, no longer connecting, is as sound as the one it
\* was made from, whatever was marked.
LEMMA SoundAfter ==
    ASSUME NEW x \in Reply, NEW y \in Reply, Sound(x), x # NoReply,
           y.phase # "connecting",
           y.networkError \/ (y.security = x.security /\ y.timeout = x.timeout
                              /\ y.cancelled = x.cancelled /\ y.networkError = x.networkError),
           y.sent = x.sent, y.peer = x.peer \/ ~x.sent
    PROVE  Sound(y)
BY DEF Sound

\* An answer, whatever its status and body, leaves a reply.
LEMMA AnswerIsReply ==
    ASSUME NEW x \in Reply, NEW st \in Nat, NEW b \in Secure!Body
    PROVE  [x EXCEPT !.phase = "ending", !.status = st, !.body = b] \in Reply
BY DEF Reply

\* Whatever the network and the reply's timer do leaves a sound reply: what they
\* mark they also abort.
LEMMA NetworkKeeps ==
    ASSUME SecureInv, NEW q \in 1..Requests, Secure!Network(q) \/ Secure!TimerFires(q)
    PROVE  SecureInv'
<1>1. Secure!Alive(q) /\ Secure!Quiet
  BY DEF Secure!Network, Secure!sslErrors, Secure!encrypted, Secure!Connected,
         Secure!redirected, Secure!Answer, Secure!Break, Secure!Overflow,
         Secure!TimerFires, Secure!In
<1>2. PICK x \in Reply : x = reply[q] /\ Sound(x) /\ x # NoReply /\ Secure!isAllowedTransport
  BY <1>1, AliveSound DEF Secure!Alive
<1>3. ASSUME NEW r, Sound(r), Secure!Put(q, r) PROVE SecureInv'
  BY <1>1, <1>3, PutKeeps
     DEF Secure!Quiet, SecureInv, SecureTypeOK, Secure!ScreenTextIsLocal
<1>4. ASSUME NEW c \in {"TLS_VALIDATION_FAILED", "TLS_REDIRECT_REJECTED"},
             Secure!Abort(q, [reply[q] EXCEPT !.security = c])
      PROVE  SecureInv'
  <2> DEFINE r == [[x EXCEPT !.security = c] EXCEPT !.phase = "aborted", !.networkError = TRUE]
  <2>1. r \in Reply /\ r.phase = "aborted" /\ r.networkError /\ r.sent = x.sent
        /\ r.peer = x.peer
    BY DEF Reply
  <2>2. Secure!Put(q, r)
    BY <1>2, <1>4 DEF Secure!Abort
  <2> HIDE DEF r
  <2> QED BY <1>2, <1>3, <2>1, <2>2, SoundAfter
<1>5. ASSUME NEW p \in Pin \cup {OtherKey}, Secure!encrypted(q, p) PROVE SecureInv'
  <2>1. CASE Secure!verify(p)
    <3> DEFINE r == [x EXCEPT !.phase = "open", !.peer = p, !.sent = TRUE]
    <3>1. Pinned(p)
      BY <2>1, VerifiedPinned DEF SecureInv
    <3>2. r \in Reply /\ r.phase = "open" /\ r.peer = p /\ r.security = x.security
          /\ r.timeout = x.timeout /\ r.cancelled = x.cancelled
          /\ r.networkError = x.networkError
      BY DEF Reply
    <3>3. Secure!Put(q, r)
      BY <1>2, <1>5, <2>1 DEF Secure!encrypted
    <3> HIDE DEF r
    <3>4. Sound(r) BY <1>2, <3>1, <3>2 DEF Sound
    <3> QED BY <1>3, <3>3, <3>4
  <2>2. CASE ~Secure!verify(p)
    <3> DEFINE r == [[x EXCEPT !.security = "TLS_VALIDATION_FAILED", !.peer = p]
                        EXCEPT !.phase = "aborted", !.networkError = TRUE]
    <3>1. ~x.sent
      BY <1>2, <1>5 DEF Secure!encrypted, Secure!In, Sound
    <3>2. r \in Reply /\ r.phase = "aborted" /\ r.networkError /\ r.sent = x.sent
      BY DEF Reply
    <3>3. Secure!Put(q, r)
      BY <1>2, <1>5, <2>2 DEF Secure!encrypted, Secure!Abort
    <3> HIDE DEF r
    <3> QED BY <1>2, <1>3, <3>1, <3>2, <3>3, SoundAfter
  <2> QED BY <2>1, <2>2
<1>6. CASE Secure!Connected(q)
  <2> DEFINE r == [x EXCEPT !.phase = "open", !.sent = TRUE]
  <2>1. config.localDevelopment /\ config.loopback
    BY <1>2, <1>6 DEF Secure!Connected, Secure!isAllowedTransport, Secure!isValid
  <2>2. r \in Reply /\ r.phase = "open" /\ r.security = x.security
        /\ r.timeout = x.timeout /\ r.cancelled = x.cancelled
        /\ r.networkError = x.networkError
    BY DEF Reply
  <2>3. Secure!Put(q, r)
    BY <1>2, <1>6 DEF Secure!Connected
  <2> HIDE DEF r
  <2>4. Sound(r) BY <1>2, <2>1, <2>2 DEF Sound
  <2> QED BY <1>3, <2>3, <2>4
<1>7. ASSUME NEW st \in {200, 302, 400}, NEW b \in Secure!Body, Secure!Answer(q, st, b)
      PROVE  SecureInv'
  <2> DEFINE r == [x EXCEPT !.phase = "ending", !.status = st, !.body = b]
  <2>1. r \in Reply
    <3>1. st \in Nat
      OBVIOUS
    <3> QED BY <3>1, AnswerIsReply
  <2>2. /\ r.phase = "ending" /\ r.sent = x.sent /\ r.peer = x.peer
        /\ r.security = x.security /\ r.timeout = x.timeout /\ r.cancelled = x.cancelled
        /\ r.networkError = x.networkError
    BY DEF Reply
  <2>3. Secure!Put(q, r)
    BY <1>2, <1>7 DEF Secure!Answer
  <2> HIDE DEF r
  <2> QED BY <1>2, <1>3, <2>1, <2>2, <2>3, SoundAfter
<1>8. CASE Secure!Break(q)
  <2> DEFINE r == [x EXCEPT !.phase = "ending", !.networkError = TRUE]
  <2>1. r \in Reply /\ r.phase = "ending" /\ r.networkError /\ r.sent = x.sent
        /\ r.peer = x.peer
    BY DEF Reply
  <2>2. Secure!Put(q, r)
    BY <1>2, <1>8 DEF Secure!Break
  <2> HIDE DEF r
  <2> QED BY <1>2, <1>3, <2>1, <2>2, SoundAfter
<1>9. CASE Secure!Overflow(q)
  <2> DEFINE r == [x EXCEPT !.phase = "ending", !.tooLarge = TRUE, !.status = 200]
             w == [x EXCEPT !.phase = "open", !.status = 200]
  <2>1. r \in Reply /\ r.phase = "ending" /\ r.sent = x.sent /\ r.peer = x.peer
        /\ r.security = x.security /\ r.timeout = x.timeout /\ r.cancelled = x.cancelled
        /\ r.networkError = x.networkError
    <3>1. r \in Reply BY ZenonT(40) DEF Reply
    <3>2. r.phase = "ending" /\ r.sent = x.sent /\ r.peer = x.peer
          /\ r.security = x.security
      BY DEF Reply
    <3>3. r.timeout = x.timeout /\ r.cancelled = x.cancelled
          /\ r.networkError = x.networkError
      BY DEF Reply
    <3> QED BY <3>1, <3>2, <3>3
  <2>2. w \in Reply /\ w.phase = "open" /\ w.sent = x.sent /\ w.peer = x.peer
        /\ w.security = x.security /\ w.timeout = x.timeout /\ w.cancelled = x.cancelled
        /\ w.networkError = x.networkError
    <3>1. w \in Reply BY ZenonT(40) DEF Reply
    <3>2. w.phase = "open" /\ w.sent = x.sent /\ w.peer = x.peer
          /\ w.security = x.security
      BY DEF Reply
    <3>3. w.timeout = x.timeout /\ w.cancelled = x.cancelled
          /\ w.networkError = x.networkError
      BY DEF Reply
    <3> QED BY <3>1, <3>2, <3>3
  <2>3. Secure!Put(q, r) \/ Secure!Put(q, w)
    BY <1>2, <1>9 DEF Secure!Overflow
  <2> HIDE DEF r, w
  <2>4. Sound(r) BY <1>2, <2>1, SoundAfter
  <2>5. Sound(w) BY <1>2, <2>2, SoundAfter
  <2> QED BY <1>3, <2>3, <2>4, <2>5
<1>10. CASE Secure!TimerFires(q)
  <2> DEFINE r == [[x EXCEPT !.timeout = TRUE] EXCEPT !.phase = "aborted", !.networkError = TRUE]
  <2>1. r \in Reply /\ r.phase = "aborted" /\ r.networkError /\ r.sent = x.sent
        /\ r.peer = x.peer
    BY DEF Reply
  <2>2. Secure!Put(q, r)
    BY <1>2, <1>10 DEF Secure!TimerFires, Secure!Abort
  <2> HIDE DEF r
  <2> QED BY <1>2, <1>3, <2>1, <2>2, SoundAfter
<1> QED BY <1>4, <1>5, <1>6, <1>7, <1>8, <1>9, <1>10
        DEF Secure!Network, Secure!sslErrors, Secure!redirected

\* Starting, refusing, cancelling and finishing a request.
LEMMA RequestKeeps ==
    ASSUME SecureInv, NEW q \in 1..Requests,
           \/ \E kind \in Secure!Kind : Secure!Refuse(q, kind) \/ Secure!Start(q, kind)
           \/ Secure!cancelProfile(q)
           \/ Secure!finished(q)
    PROVE  SecureInv'
<1> DEFINE Answers == Seq({"failed", "cancelled", "succeeded"})
<1>1. answers \in [1..Requests -> Answers] /\ answers[q] \in Answers
  BY DEF SecureInv, SecureTypeOK
<1>2. \A a \in {"failed", "cancelled", "succeeded"} :
         <<a>> \in Answers /\ Append(answers[q], a) \in Answers
  BY <1>1
<1> HIDE DEF Answers
<1>3. ASSUME NEW kind \in Secure!Kind, Secure!Refuse(q, kind) PROVE SecureInv'
  <2>1. answers' \in [1..Requests -> Answers]
    BY <1>1, <1>2, <1>3 DEF Secure!Refuse
  <2>2. UNCHANGED <<config, reply, requestActive, shown>>
    BY <1>3 DEF Secure!Refuse
  <2> QED BY <2>1, <2>2
          DEF Answers, SecureInv, SecureTypeOK, Secure!Alive, Secure!SentOnlyToPinnedPeer,
              Secure!ScreenTextIsLocal, Secure!isAllowedTransport, Secure!isValid,
              Secure!permitsRequestUrl, Secure!decodePin
<1>4. ASSUME NEW kind \in Secure!Kind, Secure!Start(q, kind) PROVE SecureInv'
  <2> DEFINE r == Secure!NewReply(kind)
  <2>1. Secure!EmptyBody \in Secure!Body
    BY DEF Secure!Body
  <2>2. r \in Reply /\ ~r.sent /\ r.security = "" /\ ~r.timeout /\ ~r.cancelled
    BY <2>1 DEF Secure!NewReply, Reply
  <2> HIDE DEF r
  <2>3. Sound(r)
    BY <1>4, <2>2 DEF Sound, Secure!Start
  <2> QED BY <1>4, <2>3, PutKeeps
          DEF r, Secure!Start, SecureInv, SecureTypeOK, Secure!ScreenTextIsLocal
<1>5. CASE Secure!cancelProfile(q)
  <2>1. PICK x \in Reply : x = reply[q] /\ Sound(x) /\ x # NoReply
    BY <1>5, AliveSound DEF Secure!cancelProfile, Secure!Alive
  <2> DEFINE r == [[x EXCEPT !.cancelled = TRUE] EXCEPT !.phase = "aborted", !.networkError = TRUE]
  <2>2. r \in Reply /\ r.phase = "aborted" /\ r.networkError /\ r.sent = x.sent
        /\ r.peer = x.peer
    BY DEF Reply
  <2>3. Secure!Put(q, r)
    BY <2>1, <1>5 DEF Secure!cancelProfile, Secure!Abort
  <2> HIDE DEF r
  <2>4. Sound(r)
    BY <2>1, <2>2, SoundAfter
  <2>5. answers' \in [1..Requests -> Answers]
    BY <1>1, <1>2, <1>5 DEF Secure!cancelProfile
  <2> QED BY <1>5, <2>3, <2>4, <2>5, PutKeeps
          DEF Answers, Secure!cancelProfile, SecureInv, Secure!ScreenTextIsLocal
<1>6. CASE Secure!finished(q)
  <2>1. answers' \in [1..Requests -> Answers]
    BY <1>1, <1>2, <1>6 DEF Secure!finished
  <2>2. ASSUME NEW e, shown' = Secure!showFailure(e) PROVE Secure!ScreenTextIsLocal'
    <3>1. shown'.text \in {"failed", "fixed"}
      BY <2>2 DEF Secure!showFailure, Secure!fail, Secure!safeMessage, Secure!Error
    <3>2. shown'.code \in {"LICENSE_EXPIRED", "INVALID_SESSION_TOKEN", "NETWORK_ERROR",
              "TIMEOUT", "RESPONSE_TOO_LARGE", "MALFORMED_RESPONSE", "AUTHENTICATION_FAILED"}
      BY <2>2 DEF Secure!showFailure, Secure!fail, Secure!Error
    <3> QED BY <3>1, <3>2
            DEF Secure!ScreenTextIsLocal, Secure!LocalText, Secure!LocalCode
  <2>3. Secure!ScreenTextIsLocal'
    <3>1. UNCHANGED shown \/ shown' = Secure!showFailure(Secure!ErrorOf(reply[q]))
      BY <1>6 DEF Secure!finished
    <3>2. CASE UNCHANGED shown
      BY <3>2 DEF SecureInv, Secure!ScreenTextIsLocal
    <3> QED BY <2>2, <3>1, <3>2
  <2>4. Sound(NoReply)
    BY DEF Sound
  <2> QED BY <1>6, <2>1, <2>3, <2>4, PutKeeps DEF Answers, Secure!finished
<1> QED BY <1>3, <1>4, <1>5, <1>6

\* Every step of a reply or of the user keeps what is known of the replies.
LEMMA SecureStep ==
    ASSUME SecureInv, [Secure!Next]_(Secure!vars)
    PROVE  SecureInv'
<1>1. CASE Secure!Next
  BY <1>1, NetworkKeeps, RequestKeeps DEF Secure!Next
<1>2. CASE UNCHANGED Secure!vars
  <2>1. UNCHANGED <<config, reply, requestActive, answers, shown>>
    BY <1>2 DEF Secure!vars
  <2> QED BY <2>1
          DEF SecureInv, SecureTypeOK, Secure!Alive, Secure!SentOnlyToPinnedPeer,
              Secure!ScreenTextIsLocal, Secure!isAllowedTransport, Secure!isValid,
              Secure!permitsRequestUrl, Secure!decodePin
<1> QED BY <1>1, <1>2

\* The invariant holds while ApiClient runs.
THEOREM SecureInvariance == PartsSpec => [](part = "secure" => SecureInv)
<1>1. PartsInit => (part = "secure" => SecureInv)
  BY PartBeginning, SecureBeginning
<1>2. (part = "secure" => SecureInv) /\ [PartsNext]_partsVars => (part = "secure" => SecureInv)'
  BY PartStep, SecureStep
<1> QED BY <1>1, <1>2, PTL DEF PartsSpec

\* Credentials and proofs leave ApiClient only towards the holder of a pinned
\* key, or a loopback address in a local development build (TlsPinPolicy::verify
\* in the encrypted() handler), whatever the pins and however many requests.
THEOREM SentOnlyToPinnedPeerHolds == PartsSpec => []SentOnlyToPinnedPeer
<1>1. (part = "secure" => SecureInv) => SentOnlyToPinnedPeer
  BY DEF SecureInv, SentOnlyToPinnedPeer
<1> QED BY <1>1, SecureInvariance, PTL

\* Nothing a server wrote reaches the login window (AuthManager::fail,
\* LoginWindow::safeMessage).
THEOREM ScreenTextIsLocalHolds == PartsSpec => []ScreenTextIsLocal
<1>1. (part = "secure" => SecureInv) => ScreenTextIsLocal
  BY DEF SecureInv, ScreenTextIsLocal
<1> QED BY <1>1, SecureInvariance, PTL

\* The only element of a sequence is the one appended last.
LEMMA LastAppended ==
    ASSUME NEW S, NEW s \in Seq(S), NEW a \in S, NEW b \in S, Append(s, a) = <<b>>
    PROVE  a = b
<1>1. Append(s, a)[Len(s) + 1] = a /\ Len(Append(s, a)) = Len(s) + 1
  BY AppendProperties
<1>2. Len(<<b>>) = 1 /\ <<b>>[1] = b
  OBVIOUS
<1>3. Len(s) = 0
  BY <1>1, <1>2
<1> QED BY <1>1, <1>2, <1>3

\* A request that succeeds in a step ends in finished() without a mark: every
\* mark came with an error, and a reply with an error fails.
LEMMA SuccessUnmarked ==
    ASSUME SecureInv, [Secure!Next]_(Secure!vars)
    PROVE  Secure!UnmarkedSuccess
<1> SUFFICES ASSUME NEW p \in 1..Requests, Secure!Succeeds(p)
             PROVE  /\ reply[p].security = "" /\ ~reply[p].timeout /\ ~reply[p].cancelled
                    /\ reply[p].body.ok
  BY DEF Secure!UnmarkedSuccess
<1>1. answers \in [1..Requests -> Seq({"failed", "cancelled", "succeeded"})]
  BY DEF SecureInv, SecureTypeOK
<1>2. answers'[p] # answers[p] /\ answers'[p] = <<"succeeded">>
  BY DEF Secure!Succeeds
<1>3. \A n \in 1..Requests, a \in {"failed", "cancelled"} :
         Append(answers[n], a) # <<"succeeded">>
  BY <1>1, LastAppended
<1>4. PICK q \in 1..Requests :
         \/ \E kind \in Secure!Kind : Secure!Refuse(q, kind) \/ Secure!Start(q, kind)
         \/ Secure!Network(q)
         \/ Secure!TimerFires(q)
         \/ Secure!cancelProfile(q)
         \/ Secure!finished(q)
  BY <1>2 DEF Secure!Next, Secure!vars
<1>5. ~\E kind \in Secure!Kind : Secure!Start(q, kind)
  BY <1>2 DEF Secure!Start
<1>6. ~Secure!Network(q) /\ ~Secure!TimerFires(q)
  BY <1>2 DEF Secure!Network, Secure!sslErrors, Secure!encrypted, Secure!Connected,
              Secure!redirected, Secure!Answer, Secure!Break, Secure!Overflow,
              Secure!TimerFires, Secure!Quiet
<1>7. ~\E kind \in Secure!Kind : Secure!Refuse(q, kind)
  <2> SUFFICES ASSUME NEW kind \in Secure!Kind, Secure!Refuse(q, kind) PROVE FALSE
    OBVIOUS
  <2>1. answers'[p] = <<"failed">>
    BY <1>1, <1>2 DEF Secure!Refuse
  <2> QED BY <1>2, <2>1
<1>8. ~Secure!cancelProfile(q)
  <2> SUFFICES ASSUME Secure!cancelProfile(q) PROVE FALSE
    OBVIOUS
  <2>1. p = q /\ answers'[q] = Append(answers[q], "cancelled")
    BY <1>1, <1>2 DEF Secure!cancelProfile
  <2> QED BY <1>1, <1>2, <1>3, <2>1
<1>9. Secure!finished(q) /\ ~reply[q].cancelled
  BY <1>2, <1>4, <1>5, <1>6, <1>7, <1>8 DEF Secure!finished
<1>10. p = q
  BY <1>1, <1>2, <1>9 DEF Secure!finished
<1>11. ~Secure!Failed(reply[q]) /\ ~Secure!Malformed(reply[q])
  <2> SUFFICES ASSUME Secure!Failed(reply[q]) \/ Secure!Malformed(reply[q]) PROVE FALSE
    OBVIOUS
  <2>1. answers'[q] = Append(answers[q], "failed")
    BY <1>1, <1>9 DEF Secure!finished
  <2> QED BY <1>1, <1>2, <1>3, <1>10, <2>1
<1>12. Secure!Alive(q)
  BY <1>9 DEF Secure!finished, Secure!In
<1> QED BY <1>9, <1>10, <1>11, <1>12 DEF SecureInv, Secure!Failed, Secure!Malformed

\* No reply that was redirected, failed the pin check, timed out or was cancelled
\* ends in a success, although the finished() handler reads those marks only when
\* the reply carries an error.
THEOREM MarkedReplyNeverSucceedsHolds == PartsSpec => MarkedReplyNeverSucceeds
<1>1. (part = "secure" => SecureInv) /\ [PartsNext]_partsVars
      => [part = "secure" => Secure!UnmarkedSuccess]_<<part, answers, reply>>
  BY PartStep, SuccessUnmarked
<1> QED BY <1>1, SecureInvariance, PTL DEF PartsSpec, MarkedReplyNeverSucceeds

-----------------------------------------------------------------------------
(* HardwareReads: any sizes and any numbers the calls answer.              *)

\* The sizes are numbers, and a finished reading took only what was written.
ReadsInv ==
    /\ at \in {"size", "data", "done"}
    /\ reader \in Reads!Reader
    /\ buffer \in Nat /\ filled \in Nat /\ end \in Nat
    /\ Reads!OnlyWrittenBytes

\* Where the extents end is what their count was checked to need.
LEMMA ExtentsFit ==
    ASSUME NEW a \in Reads!Answer, NEW size \in Nat, Reads!Extents(a, size)
    PROVE  /\ at' = "done" /\ end' \in Nat
           /\ end' <= Reads!Lower(a.bytes, size)
<1> DEFINE required == Reads!checkedExtentBufferSize(a.number)
<1>1. a.bytes \in Nat /\ a.number \in Nat
  BY PartsAssumption DEF Reads!Answer, Reads!Dword
<1>2. a.number * ExtentSize \in Nat
  BY <1>1, PartsAssumption
<1>3. CASE Reads!Empty
  BY <1>1, <1>3 DEF Reads!Empty, Reads!Lower
<1>4. CASE ~Reads!Empty
  <2>1. /\ required # 0 /\ ~(required > size) /\ ~(a.bytes < required)
        /\ at' = "done" /\ end' = Reads!ExtentsEnd(a.number)
    BY <1>4 DEF Reads!Extents
  <2>2. required = HeaderSize + a.number * ExtentSize
    BY <2>1 DEF Reads!checkedExtentBufferSize
  <2>3. end' = required /\ required \in Nat
    BY <1>2, <2>1, <2>2, PartsAssumption DEF Reads!ExtentsEnd
  <2> HIDE DEF required
  <2> QED BY <1>1, <2>1, <2>3 DEF Reads!Lower
<1> QED BY <1>3, <1>4

\* The call for the size ends the reading with what it wrote, or leaves a
\* buffer for the data.
LEMMA FirstKeeps ==
    ASSUME ReadsInv, NEW a \in Reads!Answer, Reads!First(a)
    PROVE  ReadsInv'
<1>1. a.bytes \in Nat /\ a.number \in Nat
  BY PartsAssumption DEF Reads!Answer, Reads!Dword
<1>2. /\ UNCHANGED reader /\ filled' = Reads!Lower(a.bytes, buffer')
      /\ end \in Nat /\ reader \in Reads!Reader
  BY DEF Reads!First, ReadsInv
<1>3. ASSUME buffer' \in Nat, Reads!Empty PROVE ReadsInv'
  BY <1>1, <1>2, <1>3 DEF Reads!Empty, ReadsInv, Reads!OnlyWrittenBytes, Reads!Lower
<1>4. ASSUME buffer' \in Nat, at' = "data", UNCHANGED end PROVE ReadsInv'
  BY <1>1, <1>2, <1>4 DEF ReadsInv, Reads!OnlyWrittenBytes, Reads!Lower
<1>5. CASE reader = "extents" /\ Reads!ExtentsFirst(a)
  <2> DEFINE size == HeaderSize + ExtentSize
             required == Reads!checkedExtentBufferSize(a.number)
  <2>1. size \in Nat
    BY PartsAssumption
  <2>2. required \in Nat
    <3>1. a.number * ExtentSize \in Nat
      BY <1>1, PartsAssumption
    <3> QED BY <3>1, PartsAssumption DEF Reads!checkedExtentBufferSize
  <2>3. \/ buffer' = size /\ Reads!Empty
        \/ buffer' = size /\ Reads!Extents(a, size)
        \/ buffer' = required /\ at' = "data" /\ UNCHANGED end
    BY <1>5 DEF Reads!ExtentsFirst
  <2> HIDE DEF size, required
  <2>4. CASE buffer' = size /\ Reads!Extents(a, size)
    BY <1>1, <1>2, <1>5, <2>1, <2>4, ExtentsFit
       DEF ReadsInv, Reads!OnlyWrittenBytes, Reads!Lower
  <2> QED BY <1>3, <1>4, <2>1, <2>2, <2>3, <2>4
<1>6. CASE reader = "descriptor" /\ Reads!DescriptorFirst(a)
  BY <1>1, <1>3, <1>4, <1>6 DEF Reads!DescriptorFirst
<1>7. CASE reader = "registry" /\ Reads!RegistryFirst(a)
  <2>1. Reads!RegistryBuffer(a.bytes) \in Nat
    BY <1>1 DEF Reads!RegistryBuffer
  <2> QED BY <1>3, <1>4, <1>7, <2>1 DEF Reads!RegistryFirst
<1>8. CASE reader = "firmware" /\ Reads!FirmwareFirst(a)
  BY <1>1, <1>3, <1>4, <1>8 DEF Reads!FirmwareFirst
<1>9. CASE reader = "publicKey" /\ Reads!PublicKeyFirst(a)
  BY <1>1, <1>3, <1>4, <1>9 DEF Reads!PublicKeyFirst
<1> QED BY <1>5, <1>6, <1>7, <1>8, <1>9 DEF Reads!First

\* The call for the data: each reader bounds what it takes by what was written,
\* the registry by a buffer one character longer.
LEMMA SecondKeeps ==
    ASSUME ReadsInv, NEW a \in Reads!Answer, Reads!Second(a)
    PROVE  ReadsInv'
<1>1. a.bytes \in Nat /\ a.number \in Nat /\ buffer \in Nat
  BY PartsAssumption DEF Reads!Answer, Reads!Dword, ReadsInv
<1>2. /\ UNCHANGED <<reader, buffer>> /\ filled' = Reads!Lower(a.bytes, buffer)
      /\ reader \in Reads!Reader /\ Reads!Honoured(a) /\ at = "data"
  BY DEF Reads!Second, ReadsInv
<1>3. ASSUME at' = "done", end' \in Nat,
             end' <= IF reader = "registry" THEN buffer ELSE Reads!Lower(a.bytes, buffer)
      PROVE  ReadsInv'
  BY <1>1, <1>2, <1>3 DEF ReadsInv, Reads!OnlyWrittenBytes, Reads!Lower
<1>4. ASSUME Reads!Empty PROVE ReadsInv'
  BY <1>1, <1>3, <1>4 DEF Reads!Empty, Reads!Lower
<1>5. CASE reader = "extents" /\ Reads!ExtentsSecond(a)
  <2>1. Reads!Empty \/ Reads!Extents(a, buffer)
    BY <1>5 DEF Reads!ExtentsSecond
  <2> QED BY <1>1, <1>3, <1>4, <1>5, <2>1, ExtentsFit
<1>6. CASE reader = "descriptor" /\ Reads!DescriptorSecond(a)
  <2>1. \/ Reads!Empty
        \/ \E nul \in a.number..(Reads!Lower(a.bytes, buffer) - 1) :
              at' = "done" /\ end' = nul + 1
    BY <1>6 DEF Reads!DescriptorSecond, Reads!usableSize
  <2>2. Reads!Lower(a.bytes, buffer) \in Nat
    BY <1>1 DEF Reads!Lower
  <2> QED BY <1>1, <1>3, <1>4, <1>6, <2>1, <2>2
<1>7. CASE reader = "registry" /\ Reads!RegistrySecond(a)
  <2>1. CASE a.ok # "ok"
    BY <1>4, <1>7, <2>1 DEF Reads!RegistrySecond
  <2>2. CASE a.ok = "ok"
    <3>1. Reads!RegistryBuffer(a.bytes) <= buffer
      BY <1>2, <1>7, <2>2 DEF Reads!Honoured
    <3>2. PICK chars \in 1..(a.bytes \div 2 + 1) : at' = "done" /\ end' = 2 * chars
      BY <1>7, <2>2 DEF Reads!RegistrySecond
    <3>3. end' \in Nat /\ end' <= buffer
      BY <1>1, <3>1, <3>2 DEF Reads!RegistryBuffer
    <3> QED BY <1>3, <1>7, <3>2, <3>3
  <2> QED BY <2>1, <2>2
<1>8. CASE reader = "firmware" /\ Reads!FirmwareSecond(a)
  BY <1>1, <1>3, <1>4, <1>8, PartsAssumption
     DEF Reads!FirmwareSecond, Reads!TableFits, Reads!Lower
<1>9. CASE reader = "publicKey" /\ Reads!PublicKeySecond(a)
  BY <1>1, <1>2, <1>3, <1>4, <1>9 DEF Reads!PublicKeySecond, Reads!Honoured, Reads!Lower
<1> QED BY <1>5, <1>6, <1>7, <1>8, <1>9 DEF Reads!Second

\* Whatever the two calls answer and however the machine changed between them,
\* DiskReader, RegistryReader, SmbiosReader and TpmIdentity take no byte from
\* behind what the last call wrote (the registry: behind the buffer), for every
\* size of the headers and every width of the counts.
THEOREM OnlyWrittenBytesHolds == PartsSpec => []OnlyWrittenBytes
<1> DEFINE Inv == part = "reads" => ReadsInv
<1>1. PartsInit => Inv
  BY PartBeginning DEF Reads!Init, ReadsInv, Reads!OnlyWrittenBytes
<1>2. Inv /\ [PartsNext]_partsVars => Inv'
  <2> SUFFICES ASSUME ReadsInv, [Reads!Next]_(Reads!vars) PROVE ReadsInv'
    BY PartStep
  <2>1. CASE Reads!Next
    BY <2>1, FirstKeeps, SecondKeeps DEF Reads!Next
  <2>2. CASE UNCHANGED Reads!vars
    BY <2>2 DEF Reads!vars, ReadsInv, Reads!OnlyWrittenBytes
  <2> QED BY <2>1, <2>2
<1>3. Inv => OnlyWrittenBytes
  BY DEF ReadsInv, OnlyWrittenBytes
<1> QED BY <1>1, <1>2, <1>3, PTL DEF PartsSpec

-----------------------------------------------------------------------------
(* BiosQuery: any number of threads and readings.                          *)

\* What a reading holds at its call has an owner, except for the row it holds
\* at Get; and it has opened at most the one apartment of its first call.
BiosInv ==
    /\ stage \in [Thread -> 0..10]
    /\ DOMAIN owned = Thread /\ DOMAIN failed = Thread /\ DOMAIN serial = Thread
    /\ DOMAIN apartment = Thread
    /\ \A t \in Thread :
          /\ apartment[t].opened \in {0, 1}
          /\ stage[t] <= 1 => apartment[t].opened = 0
          /\ stage[t] = 0 => owned[t] = {}
          /\ owned[t] \subseteq Bios!Destroyed \cup (IF stage[t] = 10 THEN {"row"} ELSE {})
    /\ Bios!ReadingsIndependent

\* The places of the calls that matter.
LEMMA CallPlaces ==
    ASSUME NEW i \in 1..10
    PROVE  /\ Bios!Last = 10
           /\ Bios!Call[i] = "CoInitializeEx" <=> i = 1
           /\ Bios!Call[i] = "Next" <=> i = 9
           /\ Bios!Call[i] = "Get" <=> i = 10
<1>1. Bios!Last = 10
  BY DEF Bios!Last, Bios!Call
<1>2. i = 1 \/ i = 2 \/ i = 3 \/ i = 4 \/ i = 5 \/ i = 6 \/ i = 7 \/ i = 8 \/ i = 9 \/ i = 10
  OBVIOUS
<1> QED BY <1>1, <1>2 DEF Bios!Call

\* What a call acquires has an owner or is given back by hand behind it.
LEMMA AcquiredOwned ==
    ASSUME NEW c
    PROVE  /\ Bios!Acquired(c) \subseteq Bios!Destroyed \cup Bios!Released(c)
           /\ c # "Next" /\ c # "Get" =>
                 Bios!Acquired(c) \subseteq Bios!Destroyed /\ Bios!Released(c) = {}
           /\ c = "Next" => Bios!Acquired(c) = {"row"} /\ Bios!Released(c) = {"row"}
           /\ c = "Get" => Bios!Released(c) = {"row", "serial"}
<1>1. CASE c = "Next" BY <1>1 DEF Bios!Acquired, Bios!Released, Bios!Destroyed
<1>2. CASE c = "Get" BY <1>2 DEF Bios!Acquired, Bios!Released, Bios!Destroyed
<1>3. CASE c # "Next" /\ c # "Get"
  <2>1. Bios!Released(c) = {}
    BY <1>3 DEF Bios!Released
  <2>2. Bios!Acquired(c) \subseteq Bios!Destroyed
    BY <1>3 DEF Bios!Acquired, Bios!Destroyed
  <2> QED BY <1>3, <2>1, <2>2
<1> QED BY <1>1, <1>2, <1>3

\* A COM call that returns, with whatever answer, keeps what the thread owns in
\* line with the calls it has made.
LEMMA CallReturnsKeeps ==
    ASSUME BiosInv, NEW t \in Thread, NEW answer, Bios!CallReturns(t, answer)
    PROVE  BiosInv'
<1> DEFINE call == Bios!Call[stage[t]]
           held == owned[t] \cup (IF answer \in {"ok", "error with row"}
                                 THEN Bios!Acquired(call) ELSE {})
<1>1. /\ stage \in [Thread -> 0..10] /\ DOMAIN owned = Thread /\ DOMAIN failed = Thread
      /\ DOMAIN serial = Thread /\ DOMAIN apartment = Thread
  BY DEF BiosInv
<1>2. stage[t] \in 1..10 /\ answer \in Bios!Answers(t)
  <2>1. stage[t] > 0 /\ answer \in Bios!Answers(t)
    BY DEF Bios!CallReturns
  <2> QED BY <1>1, <2>1
<1>3. /\ Bios!Last = 10 /\ (call = "CoInitializeEx" <=> stage[t] = 1)
      /\ (call = "Next" <=> stage[t] = 9) /\ (call = "Get" <=> stage[t] = 10)
  BY <1>2, CallPlaces
<1>4. failed' = [failed EXCEPT ![t] = IF answer \in {"error", "error with row", "timed out"}
                                      THEN @ \cup {call} ELSE @]
  BY DEF Bios!CallReturns
<1>5. /\ ~Bios!Tolerated(answer) => Bios!Return(t, held, "empty")
      /\ Bios!Tolerated(answer) /\ stage[t] = 10 => Bios!Return(t, held, "serial")
      /\ Bios!Tolerated(answer) /\ stage[t] # 10 =>
            /\ stage' = [stage EXCEPT ![t] = @ + 1] /\ owned' = [owned EXCEPT ![t] = held]
            /\ apartment' = IF call = "CoInitializeEx" /\ answer = "ok"
                            THEN [apartment EXCEPT ![t] =
                                     [kind |-> "multithreaded", opened |-> @.opened + 1]]
                            ELSE apartment
            /\ UNCHANGED serial
  BY <1>3 DEF Bios!CallReturns
<1>6. held \subseteq owned[t] \cup Bios!Acquired(call)
  OBVIOUS
<1>7. ~Bios!Tolerated(answer) => answer \in {"error", "error with row", "timed out"}
  BY <1>2 DEF Bios!Answers, Bios!Tolerated
<1>8. /\ owned[t] \subseteq Bios!Destroyed \cup (IF stage[t] = 10 THEN {"row"} ELSE {})
      /\ apartment[t].opened \in {0, 1} /\ (stage[t] <= 1 => apartment[t].opened = 0)
  BY DEF BiosInv
<1> HIDE DEF held
<1>9. \A u \in Thread \ {t} : stage'[u] = stage[u] /\ owned'[u] = owned[u]
         /\ apartment'[u] = apartment[u] /\ serial'[u] = serial[u] /\ failed'[u] = failed[u]
  BY <1>1, <1>4, <1>5 DEF Bios!Return
<1>10. DOMAIN owned' = Thread /\ DOMAIN failed' = Thread /\ DOMAIN serial' = Thread
      /\ DOMAIN apartment' = Thread
  BY <1>1, <1>4, <1>5 DEF Bios!Return
<1>11. \A u \in Thread \ {t} :
          /\ apartment'[u].opened \in {0, 1}
          /\ stage'[u] <= 1 => apartment'[u].opened = 0
          /\ stage'[u] = 0 => owned'[u] = {}
          /\ owned'[u] \subseteq Bios!Destroyed \cup (IF stage'[u] = 10 THEN {"row"} ELSE {})
          /\ stage'[u] = 0 => (serial'[u] = "empty" => failed'[u] # {})
  BY <1>9 DEF BiosInv, Bios!ReadingsIndependent
<1>12. ASSUME stage' \in [Thread -> 0..10],
              stage'[t] = 0 => owned'[t] = {} /\ (serial'[t] = "empty" => failed'[t] # {}),
              apartment'[t].opened \in {0, 1},
              stage'[t] <= 1 => apartment'[t].opened = 0,
              owned'[t] \subseteq Bios!Destroyed \cup (IF stage'[t] = 10 THEN {"row"} ELSE {})
       PROVE  BiosInv'
  <2>1. Bios!ReadingsIndependent'
    BY <1>11, <1>12 DEF Bios!ReadingsIndependent
  <2> QED BY <1>10, <1>11, <1>12, <2>1 DEF BiosInv
<1>13. ASSUME NEW v \in {"empty", "serial"}, Bios!Return(t, held, v),
              v = "empty" => failed'[t] # {}
       PROVE  BiosInv'
  <2>1. owned'[t] = held \ (Bios!Destroyed \cup Bios!Released(call))
    BY <1>1, <1>13 DEF Bios!Return
  <2>2. owned'[t] = {}
    <3>1. owned[t] \subseteq Bios!Destroyed \cup Bios!Released(call)
      BY <1>3, <1>8, AcquiredOwned
    <3> QED BY <1>6, <2>1, <3>1, AcquiredOwned
  <2>3. apartment'[t].opened = 0
    <3>1. apartment'[t] = Bios!Closed(apartment[t])
      BY <1>1, <1>13 DEF Bios!Return
    <3> QED BY <1>8, <3>1 DEF Bios!Closed
  <2>4. stage' = [stage EXCEPT ![t] = 0] /\ serial' = [serial EXCEPT ![t] = v]
    BY <1>13 DEF Bios!Return
  <2>5. stage' \in [Thread -> 0..10] /\ stage'[t] = 0 /\ serial'[t] = v
    BY <1>1, <2>4
  <2> QED BY <1>12, <1>13, <2>2, <2>3, <2>5
<1>14. CASE ~Bios!Tolerated(answer)
  <2>1. failed'[t] # {}
    BY <1>1, <1>4, <1>7, <1>14
  <2> QED BY <1>5, <1>13, <1>14, <2>1
<1>15. CASE Bios!Tolerated(answer) /\ stage[t] = 10
  BY <1>5, <1>13, <1>15
<1>16. CASE Bios!Tolerated(answer) /\ stage[t] # 10
  <2> HIDE DEF call
  <2>1. stage[t] + 1 \in 2..10
    BY <1>2, <1>16
  <2>2. stage' \in [Thread -> 0..10] /\ stage'[t] = stage[t] + 1 /\ owned'[t] = held
    BY <1>1, <1>5, <1>16, <2>1
  <2>3. apartment'[t].opened \in {0, 1}
    <3>1. CASE call = "CoInitializeEx" /\ answer = "ok"
      BY <1>1, <1>3, <1>5, <1>8, <1>16, <3>1
    <3>2. CASE ~(call = "CoInitializeEx" /\ answer = "ok")
      BY <1>5, <1>8, <1>16, <3>2
    <3> QED BY <3>1, <3>2
  <2>4. held \subseteq Bios!Destroyed \cup (IF stage[t] = 9 THEN {"row"} ELSE {})
    BY <1>3, <1>6, <1>8, <1>16, AcquiredOwned
  <2> QED BY <1>2, <1>12, <2>1, <2>2, <2>3, <2>4
<1> QED BY <1>14, <1>15, <1>16

\* A reading of the BIOS serial gives its thread back as it found it at whichever
\* COM call it ends, and misses a serial only because one of its own calls failed
\* (BiosReader::serialNumber), with any number of threads and readings.
THEOREM ReadingsIndependentHolds == PartsSpec => []ReadingsIndependent
<1> DEFINE Inv == part = "bios" => BiosInv
<1>1. PartsInit => Inv
  <2> SUFFICES ASSUME Bios!Init PROVE BiosInv
    BY PartBeginning
  <2> QED BY DEF Bios!Init, BiosInv, Bios!ReadingsIndependent, Bios!Destroyed
<1>2. Inv /\ [PartsNext]_partsVars => Inv'
  <2> SUFFICES ASSUME BiosInv, [Bios!Next]_(Bios!vars) PROVE BiosInv'
    BY PartStep
  <2>1. ASSUME NEW t \in Thread, Bios!Begin(t) PROVE BiosInv'
    BY <2>1 DEF Bios!Begin, BiosInv, Bios!ReadingsIndependent
  <2>2. CASE UNCHANGED Bios!vars
    BY <2>2 DEF Bios!vars, BiosInv, Bios!ReadingsIndependent
  <2> QED BY <2>1, <2>2, CallReturnsKeeps DEF Bios!Next
<1>3. Inv => ReadingsIndependent
  BY DEF BiosInv, ReadingsIndependent
<1> QED BY <1>1, <1>2, <1>3, PTL DEF PartsSpec

-----------------------------------------------------------------------------
(* HwidObtainer: any number of collections, tests and replaced keys.       *)

TestUsedOneKey == test.public # NoValue /\ test.public = test.signed

\* No identity is kept while a collection is under way; a verdict is shown
\* only while no other test runs, and one on its way is as true.
ObtainerInv ==
    /\ DOMAIN status = {"collection", "tpmTest"}
    /\ DOMAIN test = {"at", "public", "signed", "result"}
    /\ collection # "idle" => ~has
    /\ status.tpmTest = "pass" => test.at = "done"
    /\ test.at = "finished" /\ test.result = "pass" => TestUsedOneKey
    /\ Obtainer!StatusTruthful

\* Refreshing, copying and exporting: the test and its line stay as they are.
LEMMA CollectionKeeps ==
    ASSUME ObtainerInv,
           \/ Obtainer!refreshHardware \/ Obtainer!CollectionEnds \/ Obtainer!collectionFinished
           \/ Obtainer!copyHwid \/ Obtainer!exportJson
           \/ \E outcome \in {"cancelled", "open failed", "commit failed", "committed"} :
                 Obtainer!FileChosen(outcome)
    PROVE  ObtainerInv'
<1> USE DEF ObtainerInv, Obtainer!StatusTruthful, TestUsedOneKey, Obtainer!testVars,
            Obtainer!withCollectionStatus
<1>1. CASE Obtainer!refreshHardware
  BY <1>1 DEF Obtainer!refreshHardware, Obtainer!Begin
<1>2. CASE Obtainer!CollectionEnds
  BY <1>2 DEF Obtainer!CollectionEnds
<1>3. CASE Obtainer!collectionFinished
  BY <1>3 DEF Obtainer!collectionFinished
<1>4. CASE Obtainer!copyHwid
  BY <1>4 DEF Obtainer!copyHwid
<1>5. CASE Obtainer!exportJson
  BY <1>5 DEF Obtainer!exportJson
<1>6. ASSUME NEW outcome \in {"cancelled", "open failed", "commit failed", "committed"},
             Obtainer!FileChosen(outcome)
      PROVE  ObtainerInv'
  BY <1>6 DEF Obtainer!FileChosen, Obtainer!Commit, Obtainer!Saved
<1> QED BY <1>1, <1>2, <1>3, <1>4, <1>5, <1>6

\* The TPM test and the other programs that use the key.
LEMMA TestKeeps ==
    ASSUME ObtainerInv,
           \/ Obtainer!runTpmTest \/ \E ok \in BOOLEAN : Obtainer!TestStep(ok)
           \/ Obtainer!TestVerifies \/ Obtainer!tpmTestFinished \/ Obtainer!KeyReplaced
    PROVE  ObtainerInv'
<1> USE DEF ObtainerInv, Obtainer!StatusTruthful, TestUsedOneKey, Obtainer!TestReports
<1>1. CASE Obtainer!runTpmTest
  BY <1>1 DEF Obtainer!runTpmTest, Obtainer!withTpmTestStatus
<1>2. ASSUME NEW ok \in BOOLEAN, Obtainer!TestStep(ok) PROVE ObtainerInv'
  BY <1>2 DEF Obtainer!TestStep
<1>3. CASE Obtainer!TestVerifies
  BY <1>3 DEF Obtainer!TestVerifies, Obtainer!Passed, Obtainer!verifyCngP256
<1>4. CASE Obtainer!tpmTestFinished
  BY <1>4 DEF Obtainer!tpmTestFinished, Obtainer!withTpmTestStatus
<1>5. CASE Obtainer!KeyReplaced
  BY <1>5 DEF Obtainer!KeyReplaced
<1> QED BY <1>1, <1>2, <1>3, <1>4, <1>5

\* The two status lines of the HWID obtainer say what happened, whatever the user
\* does while a collection, a TPM test or the save dialog is open and however
\* often another program replaces the key (MainWindow, performTpmTest).
THEOREM StatusTruthfulHolds == PartsSpec => []StatusTruthful
<1> DEFINE Inv == part = "obtainer" => ObtainerInv
<1>1. PartsInit => Inv
  <2> SUFFICES ASSUME Obtainer!Init PROVE ObtainerInv
    BY PartBeginning
  <2> QED BY DEF Obtainer!Init, ObtainerInv, Obtainer!StatusTruthful, TestUsedOneKey
<1>2. Inv /\ [PartsNext]_partsVars => Inv'
  <2> SUFFICES ASSUME ObtainerInv, [Obtainer!Next]_(Obtainer!vars) PROVE ObtainerInv'
    BY PartStep
  <2>1. CASE UNCHANGED Obtainer!vars
    BY <2>1 DEF Obtainer!vars, ObtainerInv, Obtainer!StatusTruthful, TestUsedOneKey
  <2> QED BY <2>1, CollectionKeeps, TestKeeps
          DEF Obtainer!Next, Obtainer!User, Obtainer!Events
<1>3. Inv => StatusTruthful
  BY DEF ObtainerInv, StatusTruthful
<1> QED BY <1>1, <1>2, <1>3, PTL DEF PartsSpec

-----------------------------------------------------------------------------
(* ClientIP: any addresses, any headers and any chain of trusted proxies.  *)

Trusty(item) == item \in Address!Spelled /\ item.address \in Proxy

\* The sender's own item, behind which proxies wrote all there is.
SenderAt(k) ==
    /\ k \in 1..Len(forwarded)
    /\ forwarded[k] \in Address!Spelled /\ forwarded[k].address = sender
    /\ \A i \in 1..Len(forwarded) : i > k => Trusty(forwarded[i])

\* Behind the first proxy the chain ends with the sender and proxies, or the
\* chain was dropped for X-Real-IP, or it began anew, behind a proxy, after that.
AddressInv ==
    /\ sender \in Client \cup Proxy
    /\ peer \in Address!Spelled
    /\ forwarded \in Seq(Address!Item) /\ Len(forwarded) > 0
    /\ hops \in Nat
    /\ hops = 0 => peer.address = sender
    /\ hops > 0 =>
          /\ Trusty(peer)
          /\ \/ \E k \in 1..Len(forwarded) : SenderAt(k)
             \/ /\ forwarded = Address!Missing
                /\ realIP \in Address!Spelled /\ realIP.address \in {sender} \cup Proxy
             \/ /\ Len(forwarded) < hops
                /\ \A i \in 1..Len(forwarded) : Trusty(forwarded[i])

\* The client writes a chain of its own and no proxy has added to it.
LEMMA AddressBeginning == ASSUME Address!Init PROVE AddressInv
<1>1. forwarded \in Seq(Address!Item) /\ forwarded # <<>>
  <2>1. forwarded \in Address!BoundedSeq(Address!Item, MaxItems) /\ forwarded # <<>>
    BY DEF Address!Init
  <2>2. PICK n \in 0..MaxItems : forwarded \in [1..n -> Address!Item]
    BY <2>1 DEF Address!BoundedSeq, Address!SeqOf
  <2> QED BY <2>1, <2>2, PartsAssumption
<1>2. Len(forwarded) > 0
  BY <1>1
<1> QED BY <1>1, <1>2 DEF Address!Init, AddressInv, Address!Spellings

\* One proxy more: it appends its peer, begins a chain with it, or puts it into
\* X-Real-IP.
LEMMA AddressStep == ASSUME AddressInv, [Address!Next]_(Address!vars) PROVE AddressInv'
<1>1. CASE UNCHANGED Address!vars
  BY <1>1 DEF Address!vars, AddressInv, Trusty, SenderAt, Address!Spelled, Address!Item,
              Address!Missing
<1>2. ASSUME Address!Next, NEW p \in Proxy, Address!Forward(p) \/ Address!ForwardRealIP(p)
      PROVE  AddressInv'
  <2>1. hops' = hops + 1 /\ UNCHANGED sender /\ hops \in Nat /\ sender \in Client \cup Proxy
    BY <1>2 DEF Address!Next, AddressInv
  <2>2. peer' \in Address!Spelled /\ Trusty(peer') /\ peer \in Address!Item
        /\ peer \in Address!Spelled
    BY <1>2 DEF Address!Forward, Address!ForwardRealIP, Address!Spellings, Trusty, AddressInv,
                Address!Item
  <2>3. peer.address = sender \/ Trusty(peer)
    BY DEF AddressInv
  <2>4. CASE Address!ForwardRealIP(p)
    <3>1. forwarded' = Address!Missing /\ realIP' = peer
      BY <2>4 DEF Address!ForwardRealIP
    <3>2. forwarded' \in Seq(Address!Item) /\ Len(forwarded') = 1
      BY <3>1 DEF Address!Missing, Address!Item
    <3> QED BY <2>1, <2>2, <2>3, <3>1, <3>2
            DEF AddressInv, Trusty, Address!Missing, Address!Spelled, Address!Item
  <2>5. CASE Address!Forward(p) /\ forwarded = Address!Missing
    <3>1. forwarded' = <<peer>>
      BY <2>5 DEF Address!Forward
    <3>2. forwarded' \in Seq(Address!Item) /\ Len(forwarded') = 1 /\ forwarded'[1] = peer
      BY <2>2, <3>1
    <3>3. CASE peer.address = sender
      <4>1. SenderAt(1)'
        BY <2>1, <2>2, <3>2, <3>3 DEF SenderAt, Address!Spelled
      <4> QED BY <2>1, <2>2, <3>2, <4>1 DEF AddressInv, Address!Spelled, Address!Item, Trusty
    <3>4. CASE peer.address # sender
      <4>1. hops > 0 /\ Trusty(peer)
        BY <3>4 DEF AddressInv
      <4>2. \A i \in 1..Len(forwarded') : Trusty(forwarded'[i])
        BY <3>2, <4>1
      <4> QED BY <2>1, <2>2, <3>2, <4>1, <4>2
              DEF AddressInv, Address!Spelled, Address!Item, Trusty
    <3> QED BY <3>3, <3>4
  <2>6. CASE Address!Forward(p) /\ forwarded # Address!Missing
    <3>0. PICK n \in Nat : n = Len(forwarded)
      BY DEF AddressInv
    <3>1. forwarded' = Append(forwarded, peer) /\ UNCHANGED realIP
      BY <2>6 DEF Address!Forward
    <3>2. forwarded \in Seq(Address!Item) /\ n > 0
      BY <3>0 DEF AddressInv
    <3>3. /\ forwarded' \in Seq(Address!Item) /\ Len(forwarded') = n + 1
          /\ forwarded'[n + 1] = peer /\ \A i \in 1..n : forwarded'[i] = forwarded[i]
      BY <2>2, <3>0, <3>1, <3>2, AppendProperties
    <3>4. CASE peer.address = sender
      <4>1. SenderAt(n + 1)'
        BY <2>1, <2>2, <3>2, <3>3, <3>4 DEF SenderAt, Address!Spelled
      <4> QED BY <2>1, <2>2, <3>2, <3>3, <4>1 DEF AddressInv, Address!Spelled, Address!Item, Trusty
    <3>5. CASE peer.address # sender /\ \E k \in 1..n : SenderAt(k)
      <4>1. Trusty(peer)
        BY <2>3, <3>5
      <4>2. PICK k \in 1..n : SenderAt(k)
        BY <3>5
      <4>3. /\ k \in 1..(n + 1) /\ forwarded'[k] \in Address!Spelled
            /\ forwarded'[k].address = sender
        BY <3>0, <3>3, <4>2 DEF SenderAt
      <4>4. ASSUME NEW i \in 1..(n + 1), i > k PROVE Trusty(forwarded'[i])
        <5>1. CASE i = n + 1 BY <3>3, <4>1, <5>1
        <5>2. CASE i # n + 1
          <6>1. i \in 1..n BY <5>2
          <6> QED BY <3>0, <3>3, <4>2, <4>4, <6>1 DEF SenderAt
        <5> QED BY <5>1, <5>2
      <4>5. SenderAt(k)'
        BY <2>1, <3>3, <4>3, <4>4 DEF SenderAt, Address!Spelled, Trusty
      <4> QED BY <2>1, <2>2, <3>2, <3>3, <4>5 DEF AddressInv, Address!Spelled, Address!Item, Trusty
    <3>6. CASE peer.address # sender /\ ~\E k \in 1..n : SenderAt(k)
      <4>1. hops > 0 /\ Trusty(peer)
        BY <3>6 DEF AddressInv
      <4>2. n < hops /\ \A i \in 1..n : Trusty(forwarded[i])
        BY <2>6, <3>0, <3>6, <4>1 DEF AddressInv
      <4>3. \A i \in 1..Len(forwarded') : Trusty(forwarded'[i])
        BY <3>2, <3>3, <4>1, <4>2
      <4> QED BY <2>1, <2>2, <3>2, <3>3, <4>2, <4>3
              DEF AddressInv, Address!Spelled, Address!Item, Trusty
    <3> QED BY <3>4, <3>5, <3>6
  <2> QED BY <1>2, <2>4, <2>5, <2>6
<1> QED BY <1>1, <1>2 DEF Address!Next

\* The greatest number of a set is the one Max chooses.
LEMMA GreatestIsMax ==
    ASSUME NEW S \in SUBSET Int, NEW k \in S, \A i \in S : k >= i
    PROVE  Address!Max(S) = k
<1>1. PICK m : m = Address!Max(S)
  OBVIOUS
<1>2. m \in S /\ \A i \in S : m >= i
  BY <1>1, Zenon DEF Address!Max
<1>3. m >= k /\ k >= m /\ m \in Int /\ k \in Int
  BY <1>2
<1> QED BY <1>1, <1>3

\* The last untrusted address of a chain of sender and proxies is the sender's.
LEMMA SenderIsLast ==
    ASSUME AddressInv, sender \notin Proxy, NEW k, SenderAt(k)
    PROVE  Address!LastUntrusted([i \in DOMAIN forwarded |-> Address!Unmap(forwarded[i])]) = sender
<1> DEFINE chain == [i \in DOMAIN forwarded |-> Address!Unmap(forwarded[i])]
           untrusted == {i \in DOMAIN chain : ~Address!ipInPrefixes(chain[i])}
<1>1. DOMAIN chain = 1..Len(forwarded) /\ Len(forwarded) \in Nat
  BY DEF AddressInv
<1>2. \A i \in 1..Len(forwarded) : chain[i] = forwarded[i].address
  BY <1>1 DEF Address!Unmap
<1>3. k \in 1..Len(forwarded) /\ chain[k] = sender
  BY <1>1, <1>2 DEF SenderAt
<1>4. \A i \in 1..Len(forwarded) : i > k => chain[i] \in Proxy
  BY <1>2 DEF SenderAt, Trusty
<1> HIDE DEF chain
<1>5. k \in untrusted /\ untrusted \subseteq Int /\ \A i \in untrusted : k >= i
  BY <1>1, <1>3, <1>4 DEF Address!ipInPrefixes
<1>6. Address!Max(untrusted) = k
  <2> HIDE DEF untrusted
  <2> QED BY <1>5, GreatestIsMax
<1>7. untrusted # {}
  BY <1>5
<1> HIDE DEF untrusted
<1>8. Address!LastUntrusted(chain) = chain[Address!Max(untrusted)]
  BY <1>7 DEF Address!LastUntrusted, untrusted
<1> QED BY <1>3, <1>6, <1>8 DEF chain

\* The chain decides the address under which the request is counted.
LEMMA AddressCounted == ASSUME AddressInv PROVE Address!CountedAsItself
<1> SUFFICES ASSUME sender \notin Proxy
             PROVE  /\ Address!clientIP \in {sender} \cup Proxy
                    /\ hops = 0 \/ (/\ Len(forwarded) >= hops
                                    /\ \A i \in DOMAIN forwarded : Address!Parses(forwarded[i]))
                          => Address!clientIP = sender
  BY DEF Address!CountedAsItself
<1> DEFINE chain == [i \in DOMAIN forwarded |-> Address!Unmap(forwarded[i])]
           allParse == \A i \in DOMAIN forwarded : Address!Parses(forwarded[i])
<1>1. Address!parseRemoteIP = peer.address /\ peer.address # Garbled
  BY PartsAssumption DEF AddressInv, Address!parseRemoteIP, Address!Parses, Address!Unmap,
                         Address!Spelled
<1>2. CASE hops = 0
  <2>1. peer.address = sender
    BY <1>2 DEF AddressInv
  <2>2. Address!clientIP = sender
    BY <1>1, <2>1 DEF Address!clientIP, Address!ipInPrefixes
  <2> QED BY <2>2
<1>3. CASE hops > 0
  <2>1. peer.address \in Proxy
    BY <1>3 DEF AddressInv, Trusty
  <2>2. forwarded = Address!Missing =>
          Address!clientIP = IF Address!Parses(realIP) THEN Address!Unmap(realIP)
                                                       ELSE peer.address
    BY <1>1, <2>1 DEF Address!clientIP, Address!ipInPrefixes
  <2>3. forwarded # Address!Missing =>
          Address!clientIP = IF allParse THEN Address!LastUntrusted(chain) ELSE peer.address
    BY <1>1, <2>1 DEF Address!clientIP, Address!ipInPrefixes
  <2>4. DOMAIN forwarded = 1..Len(forwarded) /\ Len(forwarded) \in Nat /\ Len(forwarded) > 0
    BY DEF AddressInv
  <2>5. CASE \E k \in 1..Len(forwarded) : SenderAt(k)
    <3>1. PICK k \in 1..Len(forwarded) : SenderAt(k)
      BY <2>5
    <3>2. forwarded # Address!Missing
      <4> SUFFICES ASSUME forwarded = Address!Missing PROVE FALSE OBVIOUS
      <4>1. Len(forwarded) = 1 /\ forwarded[1] = Blank BY DEF Address!Missing
      <4>2. k = 1 BY <3>1, <4>1
      <4>3. Blank \in Address!Spelled BY <3>1, <4>1, <4>2 DEF SenderAt
      <4> QED BY <4>3, PartsAssumption DEF Address!Spelled
    <3>3. Address!LastUntrusted(chain) = sender
      BY <3>1, SenderIsLast
    <3> HIDE DEF chain, allParse
    <3> QED BY <2>1, <2>3, <3>2, <3>3, <1>3 DEF allParse, AddressInv
  <2>6. CASE /\ forwarded = Address!Missing
             /\ realIP \in Address!Spelled /\ realIP.address \in {sender} \cup Proxy
    <3>1. Address!clientIP = realIP.address
      BY <2>2, <2>6 DEF Address!Parses, Address!Unmap
    <3>2. ~allParse
      <4>1. 1 \in DOMAIN forwarded /\ forwarded[1] = Blank
        BY <2>4, <2>6 DEF Address!Missing
      <4> QED BY <4>1, PartsAssumption DEF Address!Parses, Address!Spelled
    <3> QED BY <1>3, <2>6, <3>1, <3>2
  <2>7. CASE /\ Len(forwarded) < hops
             /\ \A i \in 1..Len(forwarded) : Trusty(forwarded[i])
    <3>1. forwarded # Address!Missing
      BY <2>4, <2>7, PartsAssumption DEF Trusty, Address!Missing, Address!Spelled
    <3>2. DOMAIN chain = DOMAIN forwarded /\ \A i \in DOMAIN chain : chain[i] \in Proxy
      BY <2>4, <2>7 DEF Address!Unmap, Trusty
    <3> HIDE DEF chain
    <3>3. Address!LastUntrusted(chain) = chain[1]
      BY <3>2 DEF Address!LastUntrusted, Address!ipInPrefixes
    <3>4. chain[1] \in Proxy
      BY <2>4, <3>2
    <3>5. ~(Len(forwarded) >= hops)
      BY <2>4, <2>7 DEF AddressInv
    <3> HIDE DEF allParse
    <3> QED BY <1>3, <2>1, <2>3, <3>1, <3>3, <3>4, <3>5
  <2> QED BY <1>3, <2>5, <2>6, <2>7 DEF AddressInv
<1> QED BY <1>2, <1>3 DEF AddressInv

\* Whatever a client outside the trusted networks writes into its headers, and
\* through however many trusted proxies it comes, clientIP counts it under its
\* own address or one of ours, and under its own when every proxy appended.
THEOREM CountedAsItselfHolds == PartsSpec => []CountedAsItself
<1> DEFINE Inv == part = "address" => AddressInv
<1>1. PartsInit => Inv
  BY PartBeginning, AddressBeginning
<1>2. Inv /\ [PartsNext]_partsVars => Inv'
  BY PartStep, AddressStep
<1>3. Inv => CountedAsItself
  BY AddressCounted DEF CountedAsItself
<1> QED BY <1>1, <1>2, <1>3, PTL DEF PartsSpec

-----------------------------------------------------------------------------
(* DeviceMatchLoop: lists of rows of any length.                           *)

Row == [status : {"active", "revoked"}, signals : Presented]
Acc == [matched : Nat, activeCount : Nat, bestScore : Int, revoked : BOOLEAN]

\* f holds the loop's variables after each of its turns over the list.
Scan(f, list) ==
    f = [i \in 0..Len(list) |->
            IF i = 0 THEN Match!Start
            ELSE Match!Iteration(f[i - 1], list[i], i, presented)]

Score(row) == Match!ScoreDevice(row.signals, presented)

\* What the loop's variables mean after the whole list: the best score is that
\* of the row matched so far and bounds the others, and is below every score
\* that matches as long as none has.
Decided(acc, list) ==
    /\ acc \in Acc
    /\ acc.revoked <=> Match!AnyRefuses(list, presented)
    /\ ~acc.revoked =>
          /\ acc.activeCount = Cardinality(Match!ActiveRows(list))
          /\ acc.matched = 0 => acc.bestScore = -1 /\ Match!Candidates(list, presented) = {}
          /\ acc.matched # 0 =>
                /\ acc.matched \in Match!Candidates(list, presented)
                /\ acc.bestScore = Score(list[acc.matched])
                /\ \A e \in Match!Candidates(list, presented) : Score(list[e]) <= acc.bestScore

\* The loop has a run over the list, and every run decides by the definitions.
MatchInv ==
    /\ devices \in Seq(Row)
    /\ \E f : Scan(f, devices)
    /\ \A f : Scan(f, devices) => Decided(f[Len(devices)], devices)

\* A score is a number.
LEMMA ScoreIsNat == ASSUME NEW row PROVE Score(row) \in Nat
BY DEF Score, Match!ScoreDevice, Match!Points

\* One turn of the loop, told by the definitions.
LEMMA OneTurn ==
    ASSUME NEW acc \in Acc, NEW row \in Row, NEW index \in Nat
    PROVE  LET next == Match!Iteration(acc, row, index, presented)
               better == Match!Eligible(row, presented) /\ Score(row) > acc.bestScore
           IN  /\ next \in Acc
               /\ next.revoked <=> acc.revoked \/ Match!Refuses(row, presented)
               /\ ~next.revoked =>
                     /\ next.activeCount = acc.activeCount
                                           + (IF row.status = "active" THEN 1 ELSE 0)
                     /\ next.matched = IF better THEN index ELSE acc.matched
                     /\ next.bestScore = IF better THEN Score(row) ELSE acc.bestScore
<1> DEFINE next == Match!Iteration(acc, row, index, presented)
           counted == [acc EXCEPT !.activeCount = @ + (IF row.status = "active" THEN 1 ELSE 0)]
           score == Score(row)
<1>1. score \in Nat
  BY ScoreIsNat
<1>2. row.status \in {"active", "revoked"}
  BY DEF Row
<1>3. /\ counted \in Acc /\ counted.revoked = acc.revoked
      /\ counted.activeCount = acc.activeCount + (IF row.status = "active" THEN 1 ELSE 0)
      /\ counted.matched = acc.matched /\ counted.bestScore = acc.bestScore
  BY DEF Acc
<1>4. next = IF acc.revoked THEN acc
             ELSE IF row.status = "revoked" /\ row.signals.tpm = presented.tpm
             THEN [counted EXCEPT !.revoked = TRUE, !.matched = 0]
             ELSE IF score < 70 THEN counted
             ELSE IF row.status = "revoked"
             THEN [counted EXCEPT !.revoked = TRUE, !.matched = 0]
             ELSE IF row.status = "active" /\ score > acc.bestScore
             THEN [counted EXCEPT !.matched = index, !.bestScore = score]
             ELSE counted
  BY DEF Match!Iteration, Score, Match!deviceMatchThreshold
<1>5. /\ Match!Refuses(row, presented) <=>
            row.status = "revoked" /\ (row.signals.tpm = presented.tpm \/ score >= 70)
      /\ Match!Eligible(row, presented) <=> row.status = "active" /\ score >= 70
  BY DEF Match!Refuses, Match!Eligible, Score, Match!deviceMatchThreshold
<1> HIDE DEF counted, score, next
<1>6. [counted EXCEPT !.revoked = TRUE, !.matched = 0] \in Acc
      /\ [counted EXCEPT !.revoked = TRUE, !.matched = 0].revoked
  BY <1>3 DEF Acc
<1>7. PICK chosen : chosen = [counted EXCEPT !.matched = index, !.bestScore = score]
  OBVIOUS
<1>8. /\ chosen \in Acc /\ chosen.revoked = counted.revoked /\ chosen.matched = index
      /\ chosen.bestScore = score /\ chosen.activeCount = counted.activeCount
  <2>1. counted \in Acc /\ score \in Int
    BY <1>1, <1>3
  <2>2. chosen \in Acc
    BY <1>7, <2>1 DEF Acc
  <2>3. chosen.revoked = counted.revoked /\ chosen.activeCount = counted.activeCount
    BY <1>7, <2>1 DEF Acc
  <2>4. chosen.matched = index /\ chosen.bestScore = score
    BY <1>7, <2>1 DEF Acc
  <2> QED BY <2>2, <2>3, <2>4
<1>9. next \in Acc
  BY <1>3, <1>4, <1>6, <1>7, <1>8
<1>10. next.revoked <=> acc.revoked \/ Match!Refuses(row, presented)
  BY <1>1, <1>2, <1>3, <1>4, <1>5, <1>6, <1>7, <1>8
<1>11. ASSUME ~next.revoked
       PROVE  /\ next.activeCount = counted.activeCount
              /\ next.matched = IF Match!Eligible(row, presented) /\ score > acc.bestScore
                                THEN index ELSE acc.matched
              /\ next.bestScore = IF Match!Eligible(row, presented) /\ score > acc.bestScore
                                  THEN score ELSE acc.bestScore
  BY <1>1, <1>2, <1>3, <1>4, <1>5, <1>6, <1>7, <1>8, <1>11
<1> QED BY <1>3, <1>9, <1>10, <1>11 DEF next, score

\* A run over a longer list is a run over the shorter one and one turn more.
LEMMA ScanExtends ==
    ASSUME NEW list \in Seq(Row), NEW row \in Row
    PROVE  LET n == Len(list)
               longer == Append(list, row)
           IN  /\ \A f : Scan(f, longer) =>
                     /\ \E g : Scan(g, list) /\ g[n] = f[n]
                     /\ f[n + 1] = Match!Iteration(f[n], row, n + 1, presented)
               /\ (\E g : Scan(g, list)) => \E f : Scan(f, longer)
<1> DEFINE n == Len(list)
           longer == Append(list, row)
           Turn(f, l, i) == IF i = 0 THEN Match!Start
                            ELSE Match!Iteration(f[i - 1], l[i], i, presented)
<1>1. /\ n \in Nat /\ Len(longer) = n + 1 /\ longer[n + 1] = row
      /\ \A i \in 1..n : longer[i] = list[i]
  BY AppendProperties
<1>2. \A f, l : Scan(f, l) <=> f = [i \in 0..Len(l) |-> Turn(f, l, i)]
  BY DEF Scan
<1> HIDE DEF n, longer
<1>3. ASSUME NEW f, Scan(f, longer)
      PROVE  /\ \E g : Scan(g, list) /\ g[n] = f[n]
             /\ f[n + 1] = Match!Iteration(f[n], row, n + 1, presented)
  <2> DEFINE g == [i \in 0..n |-> f[i]]
  <2>1. f = [i \in 0..(n + 1) |-> Turn(f, longer, i)]
    BY <1>1, <1>2, <1>3
  <2>2. \A i \in 0..(n + 1) : f[i] = Turn(f, longer, i)
    BY <2>1
  <2>3. \A i \in 0..n : f[i] = Turn(g, list, i)
    <3> SUFFICES ASSUME NEW i \in 0..n PROVE f[i] = Turn(g, list, i)
      OBVIOUS
    <3>1. f[i] = Turn(f, longer, i)
      BY <1>1, <2>2
    <3>2. CASE i = 0
      BY <3>1, <3>2
    <3>3. CASE i # 0
      <4>1. i \in 1..n /\ i - 1 \in 0..n
        BY <1>1, <3>3
      <4>2. longer[i] = list[i] /\ g[i - 1] = f[i - 1]
        BY <1>1, <4>1
      <4> QED BY <3>1, <3>3, <4>2
    <3> QED BY <3>2, <3>3
  <2>4. g = [i \in 0..Len(list) |-> Turn(g, list, i)]
    BY <2>3 DEF n
  <2>5. g[n] = f[n]
    BY <1>1
  <2>6. n + 1 \in 0..(n + 1) /\ n + 1 # 0 /\ n + 1 - 1 = n
    BY <1>1
  <2>7. f[n + 1] = Match!Iteration(f[n], row, n + 1, presented)
    BY <1>1, <2>2, <2>6
  <2> HIDE DEF g
  <2> QED BY <1>2, <2>4, <2>5, <2>7
<1>4. ASSUME NEW g, Scan(g, list) PROVE \E f : Scan(f, longer)
  <2> DEFINE last == Match!Iteration(g[n], row, n + 1, presented)
             f == [i \in 0..(n + 1) |-> IF i = n + 1 THEN last ELSE g[i]]
  <2>1. g = [i \in 0..n |-> Turn(g, list, i)]
    BY <1>2, <1>4 DEF n
  <2>2. \A i \in 0..n : g[i] = Turn(g, list, i)
    BY <2>1
  <2>3. \A i \in 0..(n + 1) : f[i] = Turn(f, longer, i)
    <3> SUFFICES ASSUME NEW i \in 0..(n + 1) PROVE f[i] = Turn(f, longer, i)
      OBVIOUS
    <3>1. CASE i = n + 1
      <4>1. f[i] = last /\ f[i - 1] = g[n] /\ longer[i] = row /\ i # 0
        BY <1>1, <3>1
      <4> HIDE DEF f
      <4> QED BY <3>1, <4>1
    <3>2. CASE i = 0
      BY <1>1, <2>2, <3>2
    <3>3. CASE i \in 1..n
      <4>1. f[i] = g[i] /\ f[i - 1] = g[i - 1] /\ longer[i] = list[i] /\ i # 0
        BY <1>1, <3>3
      <4>2. g[i] = Turn(g, list, i)
        BY <1>1, <2>2, <3>3
      <4> HIDE DEF f
      <4> QED BY <4>1, <4>2
    <3> QED BY <1>1, <3>1, <3>2, <3>3
  <2>4. f = [i \in 0..(n + 1) |-> Turn(f, longer, i)]
    BY <2>3
  <2> HIDE DEF f
  <2> QED BY <1>1, <1>2, <2>4
<1> QED BY <1>3, <1>4 DEF n, longer

\* One row more in the list.
LEMMA DecidedExtends ==
    ASSUME NEW list \in Seq(Row), NEW row \in Row, NEW acc, Decided(acc, list)
    PROVE  Decided(Match!Iteration(acc, row, Len(list) + 1, presented), Append(list, row))
<1> DEFINE n == Len(list)
           longer == Append(list, row)
           next == Match!Iteration(acc, row, n + 1, presented)
           better == Match!Eligible(row, presented) /\ Score(row) > acc.bestScore
<1>1. /\ n \in Nat /\ Len(longer) = n + 1 /\ longer[n + 1] = row
      /\ \A i \in 1..n : longer[i] = list[i]
      /\ DOMAIN list = 1..n /\ DOMAIN longer = 1..(n + 1)
  BY AppendProperties
<1>2. 1..(n + 1) = (1..n) \cup {n + 1} /\ n + 1 \notin 1..n
  BY <1>1
<1>3. acc \in Acc /\ Score(row) \in Nat
  BY ScoreIsNat DEF Decided
<1>4. /\ next \in Acc
      /\ next.revoked <=> acc.revoked \/ Match!Refuses(row, presented)
      /\ ~next.revoked =>
            /\ next.activeCount = acc.activeCount + (IF row.status = "active" THEN 1 ELSE 0)
            /\ next.matched = IF better THEN n + 1 ELSE acc.matched
            /\ next.bestScore = IF better THEN Score(row) ELSE acc.bestScore
  BY <1>1, <1>3, OneTurn
<1> HIDE DEF n, longer, next
<1>5. Match!AnyRefuses(longer, presented) <=>
        Match!AnyRefuses(list, presented) \/ Match!Refuses(row, presented)
  BY <1>1, <1>2 DEF Match!AnyRefuses
<1>6. Match!ActiveRows(longer) =
        Match!ActiveRows(list) \cup (IF row.status = "active" THEN {n + 1} ELSE {})
  BY <1>1, <1>2 DEF Match!ActiveRows
<1>7. Match!Candidates(longer, presented) =
        Match!Candidates(list, presented)
            \cup (IF Match!Eligible(row, presented) THEN {n + 1} ELSE {})
  BY <1>1, <1>2 DEF Match!Candidates
<1>8. Cardinality(Match!ActiveRows(longer)) =
        Cardinality(Match!ActiveRows(list)) + (IF row.status = "active" THEN 1 ELSE 0)
  <2>1. IsFiniteSet(Match!ActiveRows(list)) /\ n + 1 \notin Match!ActiveRows(list)
    <3>1. Match!ActiveRows(list) \in SUBSET (1..n)
      BY <1>1 DEF Match!ActiveRows
    <3>2. IsFiniteSet(1..n)
      BY <1>1, FS_Interval
    <3> QED BY <1>2, <3>1, <3>2, FS_Subset
  <2>2. Cardinality(Match!ActiveRows(list)) \in Nat
    BY <2>1, FS_CardinalityType
  <2>3. CASE row.status = "active"
    BY <1>6, <2>1, <2>3, FS_AddElement
  <2>4. CASE row.status # "active"
    BY <1>6, <2>2, <2>4
  <2> QED BY <2>3, <2>4
<1>9. next.revoked <=> Match!AnyRefuses(longer, presented)
  BY <1>4, <1>5 DEF Decided
<1>10. ASSUME ~next.revoked
       PROVE  /\ next.activeCount = Cardinality(Match!ActiveRows(longer))
              /\ next.matched = 0 =>
                    next.bestScore = -1 /\ Match!Candidates(longer, presented) = {}
              /\ next.matched # 0 =>
                    /\ next.matched \in Match!Candidates(longer, presented)
                    /\ next.bestScore = Score(longer[next.matched])
                    /\ \A e \in Match!Candidates(longer, presented) :
                          Score(longer[e]) <= next.bestScore
  <2>1. /\ ~acc.revoked /\ acc.activeCount = Cardinality(Match!ActiveRows(list))
        /\ acc.matched = 0 => acc.bestScore = -1 /\ Match!Candidates(list, presented) = {}
        /\ acc.matched # 0 =>
              /\ acc.matched \in Match!Candidates(list, presented)
              /\ acc.bestScore = Score(list[acc.matched])
              /\ \A e \in Match!Candidates(list, presented) : Score(list[e]) <= acc.bestScore
    BY <1>4, <1>10 DEF Decided
  <2>2. \A e \in Match!Candidates(list, presented) : e \in 1..n /\ longer[e] = list[e]
    BY <1>1 DEF Match!Candidates
  <2>3. acc.bestScore \in Int /\ acc.matched \in Nat
    BY <1>3 DEF Acc
  <2>4. next.activeCount = Cardinality(Match!ActiveRows(longer))
    BY <1>4, <1>8, <1>10, <2>1
  <2>5. CASE better
    <3>1. next.matched = n + 1 /\ next.bestScore = Score(row) /\ n + 1 # 0
      BY <1>1, <1>4, <1>10, <2>5
    <3>2. n + 1 \in Match!Candidates(longer, presented)
      BY <1>7, <2>5
    <3>3. \A e \in Match!Candidates(list, presented) : Score(list[e]) <= acc.bestScore
      BY <2>1
    <3>4. \A e \in Match!Candidates(longer, presented) : Score(longer[e]) <= Score(row)
      <4> SUFFICES ASSUME NEW e \in Match!Candidates(longer, presented)
                   PROVE  Score(longer[e]) <= Score(row)
        OBVIOUS
      <4>1. CASE e = n + 1
        BY <1>1, <1>3, <4>1
      <4>2. CASE e \in Match!Candidates(list, presented)
        <5>1. Score(longer[e]) \in Nat /\ Score(longer[e]) <= acc.bestScore
          BY <2>2, <3>3, <4>2, ScoreIsNat
        <5> QED BY <1>3, <2>3, <2>5, <5>1
      <4> QED BY <1>7, <4>1, <4>2
    <3> QED BY <1>1, <2>4, <3>1, <3>2, <3>4
  <2>6. CASE ~better
    <3>1. next.matched = acc.matched /\ next.bestScore = acc.bestScore
      BY <1>4, <1>10, <2>6
    <3>2. CASE acc.matched = 0
      <4>1. ~Match!Eligible(row, presented)
        BY <1>3, <2>1, <2>6, <3>2
      <4> QED BY <1>7, <2>1, <2>4, <3>1, <3>2, <4>1
    <3>3. CASE acc.matched # 0
      <4>1. \A e \in Match!Candidates(longer, presented) : Score(longer[e]) <= acc.bestScore
        <5> SUFFICES ASSUME NEW e \in Match!Candidates(longer, presented)
                     PROVE  Score(longer[e]) <= acc.bestScore
          OBVIOUS
        <5>1. CASE e \in Match!Candidates(list, presented)
          BY <2>1, <2>2, <3>3, <5>1
        <5>2. CASE e = n + 1 /\ Match!Eligible(row, presented)
          BY <1>1, <1>3, <2>3, <2>6, <5>2
        <5> QED BY <1>7, <5>1, <5>2
      <4>2. acc.matched \in Match!Candidates(longer, presented)
            /\ acc.bestScore = Score(longer[acc.matched])
        BY <1>7, <2>1, <2>2, <3>3
      <4> QED BY <2>4, <3>1, <3>3, <4>1, <4>2
    <3> QED BY <3>2, <3>3
  <2> QED BY <2>5, <2>6
<1> QED BY <1>4, <1>9, <1>10 DEF Decided, next, longer, n

\* Over an empty list the loop decides as the definitions do.
LEMMA MatchBeginning == ASSUME Match!Init PROVE MatchInv
<1>1. devices = <<>> /\ devices \in Seq(Row) /\ Len(devices) = 0
  BY DEF Match!Init
<1>2. \A f : Scan(f, devices) <=> f = [i \in {0} |-> Match!Start]
  <2>1. 0..Len(devices) = {0}
    BY <1>1
  <2> QED BY <2>1 DEF Scan
<1>3. Decided(Match!Start, devices)
  <2>1. Match!Start \in Acc
    BY DEF Match!Start, Acc
  <2>2. DOMAIN devices = {}
    BY <1>1
  <2>3. Match!ActiveRows(devices) = {} /\ Match!Candidates(devices, presented) = {}
        /\ ~Match!AnyRefuses(devices, presented)
    BY <2>2 DEF Match!ActiveRows, Match!Candidates, Match!AnyRefuses
  <2>4. Cardinality({}) = 0
    BY FS_EmptySet
  <2> QED BY <2>1, <2>3, <2>4 DEF Decided, Match!Start
<1> QED BY <1>1, <1>2, <1>3 DEF MatchInv

\* One row more: the loop takes one turn more, and still decides as they do.
LEMMA MatchStep == ASSUME MatchInv, [Match!Next]_(Match!vars) PROVE MatchInv'
<1>1. CASE UNCHANGED Match!vars
  <2>1. UNCHANGED <<devices, presented>>
    BY <1>1 DEF Match!vars
  <2>2. \A f : (Scan(f, devices))' <=> Scan(f, devices)
    BY <2>1 DEF Scan
  <2>3. \A acc : Decided(acc, devices)' <=> Decided(acc, devices)
    BY <2>1 DEF Decided, Score, Match!AnyRefuses, Match!Candidates, Match!ActiveRows
  <2> QED BY <2>1, <2>2, <2>3 DEF MatchInv
<1>2. CASE Match!Next
  <2>1. PICK row \in Row : devices' = Append(devices, row) /\ UNCHANGED presented
    BY <1>2 DEF Match!Next, Match!AddRow, Row
  <2>2. devices \in Seq(Row) /\ devices' \in Seq(Row) /\ Len(devices') = Len(devices) + 1
    BY <2>1, AppendProperties DEF MatchInv
  <2>3. PICK longer : longer = Append(devices, row)
    OBVIOUS
  <2>4. \A f : (Scan(f, devices))' <=> Scan(f, longer)
    BY <2>1, <2>3 DEF Scan
  <2>5. \A acc : Decided(acc, devices)' <=> Decided(acc, longer)
    BY <2>1, <2>3 DEF Decided, Score, Match!AnyRefuses, Match!Candidates, Match!ActiveRows
  <2>6. \E f : Scan(f, longer)
    BY <2>2, <2>3, ScanExtends DEF MatchInv
  <2>7. ASSUME NEW f, Scan(f, longer) PROVE Decided(f[Len(devices) + 1], longer)
    <3>1. /\ \E g : Scan(g, devices) /\ g[Len(devices)] = f[Len(devices)]
          /\ f[Len(devices) + 1]
                = Match!Iteration(f[Len(devices)], row, Len(devices) + 1, presented)
      BY <2>2, <2>3, <2>7, ScanExtends
    <3>2. Decided(f[Len(devices)], devices)
      BY <3>1 DEF MatchInv
    <3> QED BY <2>2, <2>3, <3>1, <3>2, DecidedExtends
  <2> QED BY <2>2, <2>4, <2>5, <2>6, <2>7 DEF MatchInv
<1> QED BY <1>1, <1>2

\* matchDevice returns the last turn of a run over the list.
LEMMA MatchResult ==
    ASSUME MatchInv
    PROVE  Decided(Match!matchDevice(devices, presented), devices)
<1> DEFINE scan == CHOOSE f : Scan(f, devices)
<1>1. Scan(scan, devices)
  BY DEF MatchInv
<1>2. Match!matchDevice(devices, presented) = scan[Len(devices)]
  BY DEF Match!matchDevice, Scan
<1> HIDE DEF scan
<1> QED BY <1>1, <1>2 DEF MatchInv

\* What the loop returns is what LoopDecidesByDefinition asks of it.
LEMMA MatchDecides == ASSUME MatchInv PROVE Match!LoopDecidesByDefinition
<1> DEFINE verdict == Match!matchDevice(devices, presented)
           candidates == Match!Candidates(devices, presented)
           best == Match!BestMatches(devices, presented)
<1>1. Decided(verdict, devices)
  BY MatchResult
<1>2. best = {d \in candidates : \A e \in candidates : Score(devices[e]) <= Score(devices[d])}
  BY DEF Match!BestMatches, Score
<1> HIDE DEF verdict, candidates, best
<1>3. ASSUME ~verdict.revoked, verdict.matched = 0 PROVE best = {}
  BY <1>1, <1>2, <1>3 DEF Decided, candidates
<1>4. ASSUME ~verdict.revoked, verdict.matched # 0 PROVE verdict.matched \in best
  BY <1>1, <1>2, <1>4 DEF Decided, candidates
<1>5. /\ verdict.revoked <=> Match!AnyRefuses(devices, presented)
      /\ ~verdict.revoked => verdict.activeCount = Cardinality(Match!ActiveRows(devices))
  BY <1>1 DEF Decided
<1>6. ~verdict.revoked => (verdict.matched = 0 <=> best = {})
  BY <1>3, <1>4
<1>7. /\ verdict.revoked <=> Match!AnyRefuses(devices, presented)
      /\ ~verdict.revoked =>
            /\ verdict.matched = 0 <=> best = {}
            /\ verdict.matched # 0 => verdict.matched \in best
            /\ verdict.activeCount = Cardinality(Match!ActiveRows(devices))
  BY <1>4, <1>5, <1>6
<1>8. Cardinality(Match!ActiveRows(devices)) = Match!Cardinality(Match!ActiveRows(devices))
  BY DEF Cardinality, Match!Cardinality
<1> QED BY <1>7, <1>8 DEF Match!LoopDecidesByDefinition, verdict, best

\* The loop of matchDevice refuses exactly when some row refuses, and otherwise
\* returns a best eligible row, or none, and the number of active rows, over
\* lists of any length.
THEOREM LoopDecidesByDefinitionHolds == PartsSpec => []LoopDecidesByDefinition
<1> DEFINE Inv == part = "match" => MatchInv
<1>1. PartsInit => Inv
  BY PartBeginning, MatchBeginning
<1>2. Inv /\ [PartsNext]_partsVars => Inv'
  BY PartStep, MatchStep
<1>3. Inv => LoopDecidesByDefinition
  BY MatchDecides DEF LoopDecidesByDefinition
<1> QED BY <1>1, <1>2, <1>3, PTL DEF PartsSpec

-----------------------------------------------------------------------------
(* Induction: what the proofs below take from the library's well-founded    *)
(* relations.                                                              *)

\* Every set of numbers that is not empty has a least element.
LEMMA LeastNumber ==
    ASSUME NEW T, T \subseteq Nat, T # {}
    PROVE  \E n \in T : \A m \in T : n <= m
<1> DEFINE R == OpToRel(<, Nat)
<1>1. IsWellFoundedOn(R, Nat) BY NatLessThanWellFounded
<1>2. \A m, n \in Nat : <<m, n>> \in R <=> m < n BY DEF OpToRel
<1> HIDE DEF R
<1>3. PICK n \in T : \A m \in T : <<m, n>> \notin R BY <1>1, WFMin
<1>4. \A m \in T : ~(m < n) /\ m \in Nat /\ n \in Nat BY <1>2, <1>3
<1>5. \A m \in T : n <= m BY <1>4
<1> QED BY <1>5

\* Induction over the natural numbers, for a set.
LEMMA SetInduction ==
    ASSUME NEW S, 0 \in S, \A n \in Nat : n \in S => n + 1 \in S
    PROVE  \A n \in Nat : n \in S
<1> SUFFICES ASSUME Nat \ S # {} PROVE FALSE OBVIOUS
<1>1. PICK n \in Nat \ S : \A m \in Nat \ S : n <= m BY LeastNumber
<1>2. n # 0 /\ n - 1 \in Nat /\ n - 1 \in S BY <1>1
<1> QED BY <1>2

-----------------------------------------------------------------------------
(* CompactToken: texts of any length over any digits, signatures of any    *)
(* size.                                                                   *)

\* What occurs in a token: digits, Dot and Junk.
Char == 0..65

IsDigit(c) == Compact!base64UrlValue(c) >= 0

\* f holds the digits kept of the first n characters.
Keeps(f, s, n) ==
    f = [i \in 0..n |-> IF i = 0 THEN <<>>
                        ELSE IF IsDigit(s[i]) THEN Append(f[i - 1], s[i])
                        ELSE f[i - 1]]

\* The recursion of DigitsOf defines a function, for every length.
LEMMA KeepsExists == ASSUME NEW s PROVE \A n \in Nat : \E f : Keeps(f, s, n)
<1> DEFINE S == {n \in Nat : \E f : Keeps(f, s, n)}
<1>1. 0 \in S
  <2>1. Keeps([i \in 0..0 |-> <<>>], s, 0) BY DEF Keeps
  <2> QED BY <2>1
<1>2. ASSUME NEW n \in Nat, n \in S PROVE n + 1 \in S
  <2>1. PICK f : Keeps(f, s, n) BY <1>2
  <2> DEFINE last == IF IsDigit(s[n + 1]) THEN Append(f[n], s[n + 1]) ELSE f[n]
             g == [i \in 0..(n + 1) |-> IF i <= n THEN f[i] ELSE last]
  <2>2. g[n + 1] = last /\ \A i \in 0..n : g[i] = f[i] OBVIOUS
  <2>3. \A i \in 0..n : f[i] = IF i = 0 THEN <<>>
                               ELSE IF IsDigit(s[i]) THEN Append(f[i - 1], s[i])
                               ELSE f[i - 1]
    BY <2>1 DEF Keeps
  <2>4. \A i \in 0..(n + 1) : g[i] = IF i = 0 THEN <<>>
                                     ELSE IF IsDigit(s[i]) THEN Append(g[i - 1], s[i])
                                     ELSE g[i - 1]
    <3> SUFFICES ASSUME NEW i \in 0..(n + 1)
                 PROVE  g[i] = IF i = 0 THEN <<>>
                               ELSE IF IsDigit(s[i]) THEN Append(g[i - 1], s[i])
                               ELSE g[i - 1]
      OBVIOUS
    <3>1. CASE i = n + 1 BY <2>2, <3>1
    <3>2. CASE i \in 0..n /\ i = 0 BY <2>2, <2>3, <3>2
    <3>3. CASE i \in 0..n /\ i # 0
      <4>1. i - 1 \in 0..n BY <3>3
      <4> QED BY <2>2, <2>3, <3>3, <4>1
    <3> QED BY <3>1, <3>2, <3>3
  <2>5. Keeps(g, s, n + 1) BY <2>4 DEF Keeps
  <2> QED BY <2>5
<1> HIDE DEF S
<1>3. \A n \in Nat : n \in S BY <1>1, <1>2, SetInduction
<1> QED BY <1>3 DEF S

\* Nothing is lost of a text of digits, and the rest of any other is shorter.
LEMMA KeptDigits ==
    ASSUME NEW s \in Seq(Char)
    PROVE  /\ Compact!DigitsOf(s) \in Seq(0..63)
           /\ Len(Compact!DigitsOf(s)) <= Len(s)
           /\ (\A i \in 1..Len(s) : IsDigit(s[i])) => Compact!DigitsOf(s) = s
           /\ (\E i \in 1..Len(s) : ~IsDigit(s[i])) => Len(Compact!DigitsOf(s)) < Len(s)
<1> DEFINE f == CHOOSE g : Keeps(g, s, Len(s))
<1>1. Len(s) \in Nat /\ \A i \in 1..Len(s) : s[i] \in Char OBVIOUS
<1>2. Keeps(f, s, Len(s)) BY <1>1, KeepsExists
<1>3. Compact!DigitsOf(s) = f[Len(s)] BY DEF Compact!DigitsOf, Keeps, IsDigit
<1> HIDE DEF f
<1> DEFINE All(n) == \A i \in 1..n : IsDigit(s[i])
           Good(n) == /\ f[n] \in Seq(0..63) /\ Len(f[n]) <= n
                      /\ All(n) => Len(f[n]) = n /\ \A i \in 1..n : f[n][i] = s[i]
                      /\ ~All(n) => Len(f[n]) < n
           S == {n \in Nat : n <= Len(s) => Good(n)}
<1>4. \A n \in 0..Len(s) : f[n] = IF n = 0 THEN <<>>
                                  ELSE IF IsDigit(s[n]) THEN Append(f[n - 1], s[n])
                                  ELSE f[n - 1]
  BY <1>2 DEF Keeps
<1>5. 0 \in S
  <2>1. f[0] = <<>> BY <1>1, <1>4
  <2>2. f[0] \in Seq(0..63) /\ Len(f[0]) = 0 BY <2>1
  <2>3. All(0) BY <1>1
  <2>4. \A i \in 1..0 : f[0][i] = s[i] OBVIOUS
  <2>5. Good(0) BY <2>2, <2>3, <2>4
  <2> QED BY <2>5
<1>6. ASSUME NEW n \in Nat, n \in S PROVE n + 1 \in S
  <2> SUFFICES ASSUME n + 1 <= Len(s) PROVE Good(n + 1) OBVIOUS
  <2>1. Good(n) BY <1>1, <1>6
  <2>2. n + 1 \in 0..Len(s) /\ n + 1 \in 1..Len(s) /\ (n + 1) - 1 = n BY <1>1
  <2>3. f[n + 1] = IF IsDigit(s[n + 1]) THEN Append(f[n], s[n + 1]) ELSE f[n]
    BY <1>4, <2>2
  <2>4. All(n + 1) <=> All(n) /\ IsDigit(s[n + 1]) OBVIOUS
  <2> HIDE DEF All
  <2>5. CASE ~IsDigit(s[n + 1]) BY <2>1, <2>3, <2>4, <2>5
  <2>6. CASE IsDigit(s[n + 1])
    <3>1. s[n + 1] \in 0..63
      BY <1>1, <2>2, <2>6 DEF IsDigit, Compact!base64UrlValue, Char
    <3>2. /\ f[n + 1] \in Seq(0..63) /\ Len(f[n + 1]) = Len(f[n]) + 1
          /\ \A i \in 1..Len(f[n]) : f[n + 1][i] = f[n][i]
          /\ f[n + 1][Len(f[n]) + 1] = s[n + 1]
      BY <2>1, <2>3, <2>6, <3>1, AppendProperties
    <3>3. CASE All(n)
      <4>1. Len(f[n]) = n /\ \A i \in 1..n : f[n][i] = s[i] BY <2>1, <3>3
      <4>2. \A i \in 1..(n + 1) : f[n + 1][i] = s[i] BY <3>2, <4>1
      <4> QED BY <2>4, <2>6, <3>2, <3>3, <4>1, <4>2
    <3>4. CASE ~All(n)
      <4>1. Len(f[n]) < n BY <2>1, <3>4
      <4>2. Len(f[n]) \in Nat BY <2>1
      <4> QED BY <2>4, <3>2, <3>4, <4>1, <4>2
    <3> QED BY <3>3, <3>4
  <2> QED BY <2>5, <2>6
<1>7. Good(Len(s))
  <2> HIDE DEF Good
  <2>1. \A n \in Nat : n \in S
    <3> HIDE DEF S
    <3> QED BY <1>5, <1>6, SetInduction
  <2> QED BY <1>1, <2>1
<1>8. All(Len(s)) => f[Len(s)] = s
  <2> SUFFICES ASSUME All(Len(s)) PROVE f[Len(s)] = s OBVIOUS
  <2>1. \A i \in 1..Len(s) : f[Len(s)][i] = s[i] BY <1>7
  <2>2. f[Len(s)] \in Seq(Char) /\ Len(f[Len(s)]) = Len(s)
    BY <1>7, SeqMonotonic DEF Char
  <2> QED BY <2>1, <2>2, SeqEqual
<1> QED BY <1>3, <1>7, <1>8

-----------------------------------------------------------------------------
\* The bits that n digits give in whole bytes.
Bits(n) == 8 * ((6 * n) \div 8)

\* Four digits fill three bytes; of the digits left over, one fills none, two fill
\* one byte and leave four bits, three fill two and leave two bits.
LEMMA BitCounts ==
    ASSUME NEW n \in Nat
    PROVE  /\ Bits(n) \in Nat /\ Bits(n) <= 6 * n
           /\ n % 4 = 0 => Bits(n) = 6 * n /\ (Bits(n) + 5) \div 6 = n
           /\ n % 4 = 1 => Bits(n) = 6 * n - 6 /\ (Bits(n) + 5) \div 6 = n - 1
           /\ n % 4 = 2 => Bits(n) = 6 * n - 4 /\ (Bits(n) + 5) \div 6 = n
           /\ n % 4 = 3 => Bits(n) = 6 * n - 2 /\ (Bits(n) + 5) \div 6 = n
           /\ n % 4 \in {0, 1, 2, 3}
<1>1. PICK k \in Nat, r \in {0, 1, 2, 3} : n = 4 * k + r /\ n % 4 = r
  <2>1. n = 4 * (n \div 4) + (n % 4) /\ n \div 4 \in Nat /\ n % 4 \in {0, 1, 2, 3}
    OBVIOUS
  <2> QED BY <2>1
<1>2. 6 * n = 24 * k + 6 * r BY <1>1
<1>3. CASE r = 0 BY <1>1, <1>2, <1>3 DEF Bits
<1>4. CASE r = 1 BY <1>1, <1>2, <1>4 DEF Bits
<1>5. CASE r = 2 BY <1>1, <1>2, <1>5 DEF Bits
<1>6. CASE r = 3 BY <1>1, <1>2, <1>6 DEF Bits
<1> QED BY <1>1, <1>3, <1>4, <1>5, <1>6

\* Bit k of the digit d, the highest first.
Bit(d, k) == (d \div 2^(5 - k)) % 2

\* Every number is even or odd.
LEMMA Half == ASSUME NEW x \in Nat PROVE \E y \in Nat, a \in {0, 1} : x = 2 * y + a
<1>1. x = 2 * (x \div 2) + (x % 2) OBVIOUS
<1>2. x \div 2 \in Nat OBVIOUS
<1>3. x % 2 \in {0, 1} OBVIOUS
<1> QED BY <1>1, <1>2, <1>3

\* A bit is a number.
LEMMA BitIsInt == ASSUME NEW d \in 0..63, NEW k \in 0..5 PROVE Bit(d, k) \in Int
BY DEF Bit

\* A digit is its six bits, and its first bits alone if the others are zero.
LEMMA Sextet ==
    ASSUME NEW d \in 0..63
    PROVE  /\ 32 * Bit(d, 0) + 16 * Bit(d, 1) + 8 * Bit(d, 2)
              + 4 * Bit(d, 3) + 2 * Bit(d, 4) + Bit(d, 5) = d
           /\ 32 * Bit(d, 0) + 16 * Bit(d, 1) = d <=> d % 16 = 0
           /\ 32 * Bit(d, 0) + 16 * Bit(d, 1) + 8 * Bit(d, 2) + 4 * Bit(d, 3) = d
              <=> d % 4 = 0
<1>0. d \in Nat OBVIOUS
<1>1. PICK y1 \in Nat, a5 \in {0, 1} : d = 2 * y1 + a5 BY <1>0, Half
<1>2. PICK y2 \in Nat, a4 \in {0, 1} : y1 = 2 * y2 + a4 BY Half
<1>3. PICK y3 \in Nat, a3 \in {0, 1} : y2 = 2 * y3 + a3 BY Half
<1>4. PICK y4 \in Nat, a2 \in {0, 1} : y3 = 2 * y4 + a2 BY Half
<1>5. PICK y5 \in Nat, a1 \in {0, 1} : y4 = 2 * y5 + a1 BY Half
<1>6. /\ d = 4 * y2 + 2 * a4 + a5 /\ d = 8 * y3 + 4 * a3 + 2 * a4 + a5
      /\ d = 16 * y4 + 8 * a2 + 4 * a3 + 2 * a4 + a5
      /\ d = 32 * y5 + 16 * a1 + 8 * a2 + 4 * a3 + 2 * a4 + a5
      /\ y5 \in {0, 1}
  BY <1>1, <1>2, <1>3, <1>4, <1>5
<1>7. d \div 2 = y1 /\ d % 2 = a5 BY <1>1
<1>8. d \div 4 = y2 /\ d % 4 = 2 * a4 + a5 BY <1>6
<1>9. d \div 8 = y3 BY <1>6
<1>10. d \div 16 = y4 /\ d % 16 = 8 * a2 + 4 * a3 + 2 * a4 + a5 BY <1>6
<1>11. d \div 32 = y5 BY <1>6
<1>12. 2^5 = 32 /\ 2^4 = 16 /\ 2^3 = 8 /\ 2^2 = 4 /\ 2^1 = 2 /\ 2^0 = 1 OBVIOUS
<1>13. /\ Bit(d, 0) = y5 % 2 /\ Bit(d, 1) = y4 % 2 /\ Bit(d, 2) = y3 % 2
       /\ Bit(d, 3) = y2 % 2 /\ Bit(d, 4) = y1 % 2 /\ Bit(d, 5) = d % 2
  BY <1>7, <1>8, <1>9, <1>10, <1>11, <1>12 DEF Bit
<1>14. /\ y5 % 2 = y5 /\ y4 % 2 = a1 /\ y3 % 2 = a2 /\ y2 % 2 = a3 /\ y1 % 2 = a4
  BY <1>2, <1>3, <1>4, <1>5, <1>6
<1>15. /\ Bit(d, 0) = y5 /\ Bit(d, 1) = a1 /\ Bit(d, 2) = a2
       /\ Bit(d, 3) = a3 /\ Bit(d, 4) = a4 /\ Bit(d, 5) = a5
  BY <1>7, <1>13, <1>14, Zenon
<1>16. 32 * y5 + 16 * a1 + 8 * a2 + 4 * a3 + 2 * a4 + a5 = d BY <1>6
<1>17. 32 * y5 + 16 * a1 = d <=> d % 16 = 0 BY <1>6, <1>10
<1>18. 32 * y5 + 16 * a1 + 8 * a2 + 4 * a3 = d <=> d % 4 = 0 BY <1>6, <1>8
<1> QED BY <1>15, <1>16, <1>17, <1>18, Zenon

\* What fromBase64 gives for a text with the digits d: their bits, digit by
\* digit, as far as they fill bytes.
LEMMA BitsOfDigits ==
    ASSUME NEW s, NEW d \in Seq(0..63), Compact!DigitsOf(s) = d
    PROVE  /\ Len(Compact!fromBase64(s)) = Bits(Len(d))
           /\ Compact!fromBase64(s) = <<>> <=> Bits(Len(d)) = 0
           /\ \A i \in 1..Len(d), k \in 0..5 :
                 6 * i - 5 + k <= Bits(Len(d)) =>
                     Compact!fromBase64(s)[6 * i - 5 + k] = Bit(d[i], k)
<1> DEFINE n == Len(d)
           f == [b \in 1..Bits(n) |-> (d[((b - 1) \div 6) + 1] \div 2^(5 - ((b - 1) % 6))) % 2]
<1>1. n \in Nat /\ Bits(n) \in Nat BY BitCounts
<1>2. Compact!fromBase64(s) = f BY DEF Compact!fromBase64, Bits
<1>3. Len(f) = Bits(n) BY <1>1
<1>4. f = <<>> <=> Bits(n) = 0 BY <1>1, <1>3
<1>5. ASSUME NEW i \in 1..n, NEW k \in 0..5, 6 * i - 5 + k <= Bits(n)
      PROVE  f[6 * i - 5 + k] = Bit(d[i], k)
  <2>1. 6 * i - 5 + k \in 1..Bits(n) BY <1>1, <1>5
  <2>2. ((6 * i - 5 + k) - 1) \div 6 = i - 1 /\ ((6 * i - 5 + k) - 1) % 6 = k BY <1>5
  <2>3. (((6 * i - 5 + k) - 1) \div 6) + 1 = i BY <1>5, <2>2
  <2> HIDE DEF n
  <2> QED BY <2>1, <2>2, <2>3 DEF Bit
<1> QED BY <1>2, <1>3, <1>4, <1>5

\* The digit that toBase64 writes at place i.
Weighed(bits, i) ==
    LET bit(b) == IF b <= Len(bits) THEN bits[b] ELSE 0
    IN  32 * bit(6 * i - 5) + 16 * bit(6 * i - 4) + 8 * bit(6 * i - 3)
        + 4 * bit(6 * i - 2) + 2 * bit(6 * i - 1) + bit(6 * i)

\* toBase64 writes as many digits as the bits need.
LEMMA ToBase64 ==
    ASSUME NEW bits, Len(bits) \in Nat
    PROVE  /\ Compact!toBase64(bits) = [i \in 1..((Len(bits) + 5) \div 6) |-> Weighed(bits, i)]
           /\ Len(Compact!toBase64(bits)) = (Len(bits) + 5) \div 6
<1>1. (Len(bits) + 5) \div 6 \in Nat OBVIOUS
<1>2. Compact!toBase64(bits) = [i \in 1..((Len(bits) + 5) \div 6) |-> Weighed(bits, i)]
  BY DEF Compact!toBase64, Weighed
<1> QED BY <1>1, <1>2

\* Encoding the bits of a text of digits gives back every digit but the last,
\* and the last one if the bits that were dropped are zero.
LEMMA DigitsBack ==
    ASSUME NEW s \in Seq(0..63), Compact!DigitsOf(s) = s, NEW i \in 1..Len(s)
    PROVE  LET n == Len(s)
               w == Weighed(Compact!fromBase64(s), i)
           IN  /\ i < n /\ n % 4 # 1 => w = s[i]
               /\ i = n /\ n % 4 = 0 => w = s[i]
               /\ i = n /\ n % 4 = 2 => (w = s[i] <=> s[i] % 16 = 0)
               /\ i = n /\ n % 4 = 3 => (w = s[i] <=> s[i] % 4 = 0)
<1> DEFINE n == Len(s)  bits == Compact!fromBase64(s)  c == Bits(n)
           bitAt(b) == IF b <= Len(bits) THEN bits[b] ELSE 0
<1>1. n \in Nat /\ i \in Nat /\ i >= 1 /\ i <= n /\ s[i] \in 0..63
  <2>1. n \in Nat /\ s[i] \in 0..63 BY LenProperties, ElementOfSeq
  <2> QED BY <2>1
<1>2. /\ c \in Nat /\ n % 4 \in {0, 1, 2, 3}
      /\ n % 4 = 0 => c = 6 * n
      /\ n % 4 = 2 => c = 6 * n - 4
      /\ n % 4 = 3 => c = 6 * n - 2
  BY <1>1, BitCounts
<1>3. Len(bits) = c BY BitsOfDigits
<1>4. \A k \in 0..5 : 6 * i - 5 + k <= c => bitAt(6 * i - 5 + k) = Bit(s[i], k)
  BY <1>3, BitsOfDigits
<1>5. \A k \in 0..5 : ~(6 * i - 5 + k <= c) => bitAt(6 * i - 5 + k) = 0
  BY <1>3
<1>6. /\ 6 * i - 5 + 0 = 6 * i - 5 /\ 6 * i - 5 + 1 = 6 * i - 4 /\ 6 * i - 5 + 2 = 6 * i - 3
      /\ 6 * i - 5 + 3 = 6 * i - 2 /\ 6 * i - 5 + 4 = 6 * i - 1 /\ 6 * i - 5 + 5 = 6 * i
  BY <1>1
<1>7. Weighed(bits, i) = 32 * bitAt(6 * i - 5) + 16 * bitAt(6 * i - 4) + 8 * bitAt(6 * i - 3)
                         + 4 * bitAt(6 * i - 2) + 2 * bitAt(6 * i - 1) + bitAt(6 * i)
  BY DEF Weighed
<1>13. \A k \in 0..5 : Bit(s[i], k) \in Int BY <1>1, BitIsInt
<1> HIDE DEF bitAt, bits, c, n
<1>8. ASSUME 6 * i <= c PROVE Weighed(bits, i) = s[i]
  <2>1. /\ bitAt(6 * i - 5) = Bit(s[i], 0) /\ bitAt(6 * i - 4) = Bit(s[i], 1)
        /\ bitAt(6 * i - 3) = Bit(s[i], 2) /\ bitAt(6 * i - 2) = Bit(s[i], 3)
        /\ bitAt(6 * i - 1) = Bit(s[i], 4) /\ bitAt(6 * i) = Bit(s[i], 5)
    <3>1. \A k \in 0..5 : 6 * i - 5 + k <= c BY <1>1, <1>2, <1>8
    <3>2. \A k \in 0..5 : bitAt(6 * i - 5 + k) = Bit(s[i], k) BY <1>4, <3>1
    <3> QED BY <1>6, <3>2
  <2> QED BY <1>1, <1>7, <2>1, Sextet, Zenon
<1>9. ASSUME i = n, n % 4 = 2 PROVE Weighed(bits, i) = s[i] <=> s[i] % 16 = 0
  <2>1. 6 * i - 4 <= c /\ 6 * i - 5 <= c /\ ~(6 * i - 3 <= c)
    BY <1>1, <1>2, <1>9
  <2>2. ~(6 * i - 2 <= c) /\ ~(6 * i - 1 <= c) /\ ~(6 * i <= c)
    BY <1>1, <1>2, <1>9
  <2>3. bitAt(6 * i - 5) = Bit(s[i], 0) /\ bitAt(6 * i - 4) = Bit(s[i], 1)
    BY <1>4, <1>6, <2>1
  <2>4. bitAt(6 * i - 3) = 0 /\ bitAt(6 * i - 2) = 0 /\ bitAt(6 * i - 1) = 0 /\ bitAt(6 * i) = 0
    BY <1>5, <1>6, <2>1, <2>2
  <2>5. Bit(s[i], 0) \in Int /\ Bit(s[i], 1) \in Int BY <1>13
  <2>6. Weighed(bits, i) = 32 * Bit(s[i], 0) + 16 * Bit(s[i], 1)
    BY <1>7, <2>3, <2>4, <2>5
  <2> QED BY <1>1, <2>6, Sextet, Zenon
<1>10. ASSUME i = n, n % 4 = 3 PROVE Weighed(bits, i) = s[i] <=> s[i] % 4 = 0
  <2>1. 6 * i - 4 <= c /\ 6 * i - 5 <= c /\ 6 * i - 3 <= c /\ 6 * i - 2 <= c
    BY <1>1, <1>2, <1>10
  <2>2. ~(6 * i - 1 <= c) /\ ~(6 * i <= c)
    BY <1>1, <1>2, <1>10
  <2>3. /\ bitAt(6 * i - 5) = Bit(s[i], 0) /\ bitAt(6 * i - 4) = Bit(s[i], 1)
        /\ bitAt(6 * i - 3) = Bit(s[i], 2) /\ bitAt(6 * i - 2) = Bit(s[i], 3)
    BY <1>4, <1>6, <2>1
  <2>4. bitAt(6 * i - 1) = 0 /\ bitAt(6 * i) = 0
    BY <1>5, <1>6, <2>1, <2>2
  <2>5. /\ Bit(s[i], 0) \in Int /\ Bit(s[i], 1) \in Int
        /\ Bit(s[i], 2) \in Int /\ Bit(s[i], 3) \in Int
    BY <1>13
  <2>6. Weighed(bits, i) = 32 * Bit(s[i], 0) + 16 * Bit(s[i], 1) + 8 * Bit(s[i], 2)
                           + 4 * Bit(s[i], 3)
    <3>1. \A a, b, e, f \in Int : 32 * a + 16 * b + 8 * e + 4 * f + 2 * 0 + 0
                                  = 32 * a + 16 * b + 8 * e + 4 * f
      OBVIOUS
    <3>2. Weighed(bits, i) = 32 * Bit(s[i], 0) + 16 * Bit(s[i], 1) + 8 * Bit(s[i], 2)
                             + 4 * Bit(s[i], 3) + 2 * 0 + 0
      BY <1>7, <2>3, <2>4, Zenon
    <3> QED BY <2>5, <3>1, <3>2
  <2> QED BY <1>1, <2>6, Sextet, Zenon
<1>11. i < n /\ n % 4 # 1 => 6 * i <= c BY <1>1, <1>2
<1>12. i = n /\ n % 4 = 0 => 6 * i <= c BY <1>1, <1>2
<1> QED BY <1>8, <1>9, <1>10, <1>11, <1>12 DEF bits, n

\* One segment: decoding and encoding again gives it back exactly when its
\* characters are right.
LEMMA SegmentsAgree ==
    ASSUME NEW s \in Seq(Char)
    PROVE  Compact!canonicalBase64UrlSegment(s) <=> Compact!decodeCanonicalBase64Url(s)
<1> DEFINE n == Len(s)  d == Compact!DigitsOf(s)  bits == Compact!fromBase64(s)
           back == Compact!toBase64(bits)
<1>1. n \in Nat /\ DOMAIN s = 1..n /\ (s # <<>> <=> n # 0) /\ \A i \in 1..n : s[i] \in Char
  OBVIOUS
<1>2. d \in Seq(0..63) /\ Len(d) \in Nat /\ Len(d) <= n BY KeptDigits
<1>3. Len(bits) = Bits(Len(d)) /\ (bits = <<>> <=> Bits(Len(d)) = 0) BY <1>2, BitsOfDigits
<1>4. /\ Bits(Len(d)) \in Nat
      /\ back = [i \in 1..((Bits(Len(d)) + 5) \div 6) |-> Weighed(bits, i)]
      /\ Len(back) = (Bits(Len(d)) + 5) \div 6
  BY <1>2, <1>3, BitCounts, ToBase64
<1>5. CASE \E i \in 1..n : ~IsDigit(s[i])
  <2>1. ~Compact!canonicalBase64UrlSegment(s)
    BY <1>1, <1>5 DEF Compact!canonicalBase64UrlSegment, IsDigit
  <2>2. Len(d) < n BY <1>5, KeptDigits
  <2>3. Len(back) <= Len(d)
    <3>1. PICK m \in Nat : m = Len(d) BY <1>2
    <3>2. (Bits(m) + 5) \div 6 = m \/ (Bits(m) + 5) \div 6 = m - 1 BY BitCounts
    <3> QED BY <1>4, <3>1, <3>2
  <2>4. back # s BY <1>1, <1>2, <2>2, <2>3
  <2> QED BY <2>1, <2>4 DEF Compact!decodeCanonicalBase64Url
<1>6. CASE \A i \in 1..n : IsDigit(s[i])
  <2>1. d = s /\ s \in Seq(0..63) BY <1>2, <1>6, KeptDigits
  <2>2. /\ Bits(n) \in Nat
        /\ n % 4 = 0 => Bits(n) = 6 * n /\ (Bits(n) + 5) \div 6 = n
        /\ n % 4 = 1 => (Bits(n) + 5) \div 6 = n - 1
        /\ n % 4 = 2 => Bits(n) = 6 * n - 4 /\ (Bits(n) + 5) \div 6 = n
        /\ n % 4 = 3 => Bits(n) = 6 * n - 2 /\ (Bits(n) + 5) \div 6 = n
        /\ n % 4 \in {0, 1, 2, 3}
    BY <1>1, BitCounts
  <2>3. \A i \in 1..n : /\ s[i] \in 0..63
                        /\ Compact!base64UrlValue(s[i]) = s[i]
    BY <1>1, <2>1 DEF Compact!base64UrlValue
  <2>4. CASE n = 0
    BY <1>1, <2>4 DEF Compact!canonicalBase64UrlSegment, Compact!decodeCanonicalBase64Url
  <2>5. CASE n % 4 = 1
    <3>1. Len(back) = n - 1 BY <1>4, <2>1, <2>2, <2>5
    <3>2. back # s BY <1>1, <3>1
    <3> QED BY <2>5, <3>2
         DEF Compact!canonicalBase64UrlSegment, Compact!decodeCanonicalBase64Url
  <2>6. CASE n # 0 /\ n % 4 # 1
    <3>1. bits # <<>> BY <1>1, <1>3, <2>1, <2>2, <2>6
    <3>2. back = [i \in 1..n |-> Weighed(bits, i)] BY <1>4, <2>1, <2>2, <2>6
    <3>3. s = [i \in 1..n |-> s[i]] OBVIOUS
    <3>4. back = s <=> \A i \in 1..n : Weighed(bits, i) = s[i]
      <4> HIDE DEF back, bits
      <4>1. ASSUME back = s, NEW i \in 1..n PROVE Weighed(bits, i) = s[i]
        <5>1. back[i] = Weighed(bits, i) BY <3>2
        <5> QED BY <4>1, <5>1
      <4>2. ASSUME \A i \in 1..n : Weighed(bits, i) = s[i] PROVE back = s
        BY <3>2, <3>3, <4>2
      <4> QED BY <4>1, <4>2
    <3>5. \A i \in 1..n : i < n => Weighed(bits, i) = s[i]
      BY <1>1, <2>1, <2>6, DigitsBack
    <3>6. n \in 1..n BY <1>1, <2>6
    <3>7. /\ n % 4 = 0 => Weighed(bits, n) = s[n]
          /\ n % 4 = 2 => (Weighed(bits, n) = s[n] <=> s[n] % 16 = 0)
          /\ n % 4 = 3 => (Weighed(bits, n) = s[n] <=> s[n] % 4 = 0)
      BY <2>1, <3>6, DigitsBack
    <3>8. back = s <=> Weighed(bits, n) = s[n]
      <4> HIDE DEF back, bits
      <4> HIDE DEF n
      <4>1. \A i \in 1..n : i < n \/ i = n BY <1>1
      <4> QED BY <3>4, <3>5, <3>6, <4>1
    <3>9. Compact!decodeCanonicalBase64Url(s) <=> Weighed(bits, n) = s[n]
      BY <1>1, <2>6, <3>1, <3>8 DEF Compact!decodeCanonicalBase64Url
    <3>10. Compact!canonicalBase64UrlSegment(s) <=>
              (n % 4 = 2 => s[n] % 16 = 0) /\ (n % 4 = 3 => s[n] % 4 = 0)
      BY <1>1, <1>6, <2>3, <2>6, <3>6 DEF Compact!canonicalBase64UrlSegment, IsDigit
    <3> HIDE DEF bits, n
    <3> QED BY <2>2, <2>6, <3>7, <3>9, <3>10
  <2> QED BY <2>4, <2>5, <2>6
<1> QED BY <1>5, <1>6

\* The size of the decoded signature that the verifier asks for is the length of
\* the encoded one that the proof builder asks for.
LEMMA SignatureSizes ==
    ASSUME NEW s \in Seq(Char), Compact!decodeCanonicalBase64Url(s)
    PROVE  Len(Compact!fromBase64(s)) = 8 * SignatureBytes <=> Len(s) = Compact!SignatureLength
<1>1. Compact!canonicalBase64UrlSegment(s) BY SegmentsAgree
<1>2. DOMAIN s = 1..Len(s) /\ Len(s) \in Nat /\ SignatureBytes \in Nat
  BY PartsAssumption
<1>3. \A i \in 1..Len(s) : IsDigit(s[i])
  BY <1>1, <1>2 DEF Compact!canonicalBase64UrlSegment, IsDigit
<1>4. Compact!DigitsOf(s) = s /\ s \in Seq(0..63) BY <1>3, KeptDigits
<1>5. Len(Compact!fromBase64(s)) = Bits(Len(s)) BY <1>4, BitsOfDigits
<1>6. PICK n \in Nat, b \in Nat : n = Len(s) /\ b = SignatureBytes BY <1>2
<1>7. n % 4 # 1 BY <1>1, <1>6 DEF Compact!canonicalBase64UrlSegment
<1>8. (8 * ((6 * n) \div 8) = 8 * b) <=> (n = (8 * b + 5) \div 6)
  <2>1. PICK k \in Nat, r \in {0, 2, 3} : n = 4 * k + r
    <3>1. n = 4 * (n \div 4) + (n % 4) /\ n \div 4 \in Nat /\ n % 4 \in {0, 1, 2, 3}
      OBVIOUS
    <3> QED BY <1>7, <3>1
  <2>2. PICK j \in Nat, q \in {0, 1, 2} : b = 3 * j + q
    <3>1. b = 3 * (b \div 3) + (b % 3) /\ b \div 3 \in Nat /\ b % 3 \in {0, 1, 2}
      OBVIOUS
    <3> QED BY <3>1
  <2>3. (6 * n) \div 8 = 3 * k + (IF r = 0 THEN 0 ELSE r - 1) BY <2>1
  <2>4. (8 * b + 5) \div 6 = 4 * j + (IF q = 0 THEN 0 ELSE q + 1) BY <2>2
  <2> QED BY <2>1, <2>2, <2>3, <2>4
<1> QED BY <1>5, <1>6, <1>8 DEF Bits, Compact!SignatureLength

\* The two readers take the same texts.
LEMMA ReadersAgree ==
    ASSUME NEW whole \in Seq(Char)
    PROVE  Compact!validCompactAccessToken(whole) <=> Compact!VerifierTakes(whole)
<1> DEFINE header(f) == SubSeq(whole, 1, f - 1)
           payload(f, g) == SubSeq(whole, f + 1, g - 1)
           signature(g) == SubSeq(whole, g + 1, Len(whole))
<1>1. /\ Len(whole) \in Nat /\ DOMAIN whole = 1..Len(whole)
      /\ \A i \in 1..Len(whole) : whole[i] \in Char
  OBVIOUS
<1>2. ASSUME NEW f \in Compact!Dots(whole), NEW g \in Compact!Dots(whole), f < g
      PROVE  /\ f \in 1..Len(whole) /\ g \in 1..Len(whole)
             /\ header(f) \in Seq(Char) /\ payload(f, g) \in Seq(Char) /\ signature(g) \in Seq(Char)
             /\ Len(header(f)) = f - 1 /\ Len(payload(f, g)) = g - f - 1
             /\ Len(signature(g)) = Len(whole) - g
  <2>1. f \in 1..Len(whole) /\ g \in 1..Len(whole) BY <1>1 DEF Compact!Dots
  <2>2. ASSUME NEW a \in Int, NEW b \in Int, 1 <= a, a <= b + 1, b <= Len(whole)
        PROVE  SubSeq(whole, a, b) \in Seq(Char) /\ Len(SubSeq(whole, a, b)) = b - a + 1
    <3>1. \A i \in a..b : whole[i] \in Char BY <1>1, <2>2
    <3> QED BY <1>1, <2>2, <3>1, SubSeqProperties
  <2>3. header(f) \in Seq(Char) /\ Len(header(f)) = f - 1 BY <1>1, <2>1, <2>2
  <2>4. payload(f, g) \in Seq(Char) /\ Len(payload(f, g)) = g - f - 1
    BY <1>1, <1>2, <2>1, <2>2
  <2>5. signature(g) \in Seq(Char) /\ Len(signature(g)) = Len(whole) - g
    <3>1. /\ g + 1 \in Int /\ Len(whole) \in Int /\ g \in Int
          /\ 1 <= g + 1 /\ g + 1 <= Len(whole) + 1 /\ Len(whole) <= Len(whole)
      BY <1>1, <2>1
    <3>2. /\ SubSeq(whole, g + 1, Len(whole)) \in Seq(Char)
          /\ Len(SubSeq(whole, g + 1, Len(whole))) = Len(whole) - (g + 1) + 1
      BY ONLY <2>2, <3>1
    <3>3. Len(whole) - (g + 1) + 1 = Len(whole) - g BY <3>1
    <3> QED BY <3>2, <3>3
  <2> QED BY <2>1, <2>3, <2>4, <2>5
<1>3. ASSUME NEW f \in Compact!Dots(whole), NEW g \in Compact!Dots(whole), f < g
      PROVE  /\ f > 1 /\ g > f + 1 /\ g < Len(whole)
             /\ Len(whole) - g = Compact!SignatureLength
             /\ Compact!canonicalBase64UrlSegment(header(f))
             /\ Compact!canonicalBase64UrlSegment(payload(f, g))
             /\ Compact!canonicalBase64UrlSegment(signature(g))
             <=>
             /\ Compact!decodeCanonicalBase64Url(header(f))
             /\ Compact!decodeCanonicalBase64Url(payload(f, g))
             /\ Compact!decodeCanonicalBase64Url(signature(g))
             /\ Len(Compact!fromBase64(signature(g))) = 8 * SignatureBytes
  <2>1. /\ f \in 1..Len(whole) /\ g \in 1..Len(whole)
        /\ header(f) \in Seq(Char) /\ payload(f, g) \in Seq(Char) /\ signature(g) \in Seq(Char)
        /\ Len(header(f)) = f - 1 /\ Len(payload(f, g)) = g - f - 1
        /\ Len(signature(g)) = Len(whole) - g
    BY <1>2, <1>3
  <2> HIDE DEF header, payload, signature
  <2>2. /\ Compact!canonicalBase64UrlSegment(header(f))
           <=> Compact!decodeCanonicalBase64Url(header(f))
        /\ Compact!canonicalBase64UrlSegment(payload(f, g))
           <=> Compact!decodeCanonicalBase64Url(payload(f, g))
        /\ Compact!canonicalBase64UrlSegment(signature(g))
           <=> Compact!decodeCanonicalBase64Url(signature(g))
    BY <2>1, SegmentsAgree
  <2>3. Compact!decodeCanonicalBase64Url(signature(g)) =>
           (Len(Compact!fromBase64(signature(g))) = 8 * SignatureBytes
            <=> Len(whole) - g = Compact!SignatureLength)
    BY <2>1, SignatureSizes
  <2>4. /\ Compact!decodeCanonicalBase64Url(header(f)) => f > 1
        /\ Compact!decodeCanonicalBase64Url(payload(f, g)) => g > f + 1
        /\ Compact!decodeCanonicalBase64Url(signature(g)) => g < Len(whole)
    <3>1. \A x \in Seq(Char) : Compact!decodeCanonicalBase64Url(x) => Len(x) > 0
      BY DEF Compact!decodeCanonicalBase64Url
    <3>2. /\ Compact!decodeCanonicalBase64Url(header(f)) => f - 1 > 0
          /\ Compact!decodeCanonicalBase64Url(payload(f, g)) => g - f - 1 > 0
          /\ Compact!decodeCanonicalBase64Url(signature(g)) => Len(whole) - g > 0
      BY <2>1, <3>1
    <3> QED BY <1>1, <2>1, <3>2
  <2> QED BY <2>2, <2>3, <2>4, Zenon
<1>4. ASSUME NEW f \in Compact!Dots(whole), NEW g \in Compact!Dots(whole), f > 1, g > f + 1
      PROVE  f < g
  BY <1>1, <1>4 DEF Compact!Dots
<1>5. ASSUME Compact!validCompactAccessToken(whole) PROVE Compact!VerifierTakes(whole)
  <2>1. PICK f \in Compact!Dots(whole), g \in Compact!Dots(whole) :
           /\ Compact!Dots(whole) = {f, g}
           /\ f > 1 /\ g > f + 1 /\ g < Len(whole)
           /\ Len(whole) - g = Compact!SignatureLength
           /\ Compact!canonicalBase64UrlSegment(header(f))
           /\ Compact!canonicalBase64UrlSegment(payload(f, g))
           /\ Compact!canonicalBase64UrlSegment(signature(g))
    BY <1>5 DEF Compact!validCompactAccessToken
  <2>2. f < g BY <1>4, <2>1
  <2> QED BY <1>3, <2>1, <2>2 DEF Compact!VerifierTakes
<1>6. ASSUME Compact!VerifierTakes(whole) PROVE Compact!validCompactAccessToken(whole)
  <2>1. PICK f \in Compact!Dots(whole), g \in Compact!Dots(whole) :
           /\ Compact!Dots(whole) = {f, g} /\ f < g
           /\ Compact!decodeCanonicalBase64Url(header(f))
           /\ Compact!decodeCanonicalBase64Url(payload(f, g))
           /\ Compact!decodeCanonicalBase64Url(signature(g))
           /\ Len(Compact!fromBase64(signature(g))) = 8 * SignatureBytes
    BY <1>6 DEF Compact!VerifierTakes
  <2> QED BY <1>3, <2>1 DEF Compact!validCompactAccessToken
<1> QED BY <1>5, <1>6

\* The two readers agree on texts of any length over any digits.
THEOREM TokensAgreeHolds == PartsSpec => []TokensAgree
<1> DEFINE Inv == part = "compact" => compact \in Seq(Char)
<1>1. PartsInit => Inv
  BY PartBeginning DEF PartsInit, Compact!Init
<1>2. Inv /\ [PartsNext]_partsVars => Inv'
  <2> SUFFICES ASSUME Inv, [PartsNext]_partsVars, part' = "compact"
               PROVE  compact' \in Seq(Char)
    OBVIOUS
  <2>1. part = "compact" /\ [Compact!Extend]_compact BY PartStep
  <2>2. Digits \cup {Compact!Dot, Compact!Junk} \subseteq Char
    BY PartsAssumption DEF Char, Compact!Dot, Compact!Junk
  <2> QED BY <2>1, <2>2, AppendProperties DEF Compact!Extend
<1>3. Inv => TokensAgree
  BY ReadersAgree DEF TokensAgree, Compact!TokensAgree
<1> QED BY <1>1, <1>2, <1>3, PTL DEF PartsSpec

-----------------------------------------------------------------------------
(* Fingerprint: signals of any length over any characters but the          *)
(* separator, and any number of disks.  Three loops are unrolled (Without, *)
(* Join and the ordering of a set), then the text that is hashed is cut at *)
(* its separators: the fields before the disks from the left, those behind *)
(* from the right, and the serials between them at every separator.        *)

\* f begins with base and takes a turn for each number up to n.
Unrolls(f, X, base, n, turn) ==
    f \in [0..n -> X] /\ f[0] = base /\ \A i \in 1..n : f[i] = turn[i][f[i - 1]]

\* A recursion over the first n numbers that stays in X defines a function.
LEMMA Unrolled ==
    ASSUME NEW X, NEW base \in X, NEW n \in Nat, NEW turn \in [1..n -> [X -> X]]
    PROVE  \E f : Unrolls(f, X, base, n, turn)
<1> DEFINE Runs(f, k) == f[0] = base /\ \A i \in 1..k : f[i] = turn[i][f[i - 1]]
           S == {k \in Nat : k <= n => \E f \in [0..k -> X] : Runs(f, k)}
<1>1. 0 \in S
  <2>1. Runs([i \in 0..0 |-> base], 0) OBVIOUS
  <2>2. [i \in 0..0 |-> base] \in [0..0 -> X] OBVIOUS
  <2> QED BY <2>1, <2>2
<1>2. ASSUME NEW k \in Nat, k \in S PROVE k + 1 \in S
  <2> SUFFICES ASSUME k + 1 <= n PROVE \E f \in [0..(k + 1) -> X] : Runs(f, k + 1)
    OBVIOUS
  <2>1. PICK f \in [0..k -> X] : Runs(f, k) BY <1>2
  <2> DEFINE g == [i \in 0..(k + 1) |-> IF i <= k THEN f[i] ELSE turn[k + 1][f[k]]]
  <2>2. /\ \A i \in 0..k : g[i] = f[i]
        /\ g[k + 1] = turn[k + 1][g[k]]
    OBVIOUS
  <2>3. turn[k + 1] \in [X -> X] /\ f[k] \in X OBVIOUS
  <2>4. g \in [0..(k + 1) -> X] BY <2>3
  <2> HIDE DEF g
  <2>5. g[0] = base BY <2>1, <2>2
  <2>6. ASSUME NEW i \in 1..(k + 1) PROVE g[i] = turn[i][g[i - 1]]
    <3>1. CASE i = k + 1 BY <2>2, <3>1
    <3>2. CASE i \in 1..k
      <4>1. i \in 0..k /\ i - 1 \in 0..k BY <3>2
      <4> QED BY <2>1, <2>2, <3>2, <4>1
    <3> QED BY <3>1, <3>2
  <2> QED BY <2>4, <2>5, <2>6
<1>3. n \in S
  <2> HIDE DEF S
  <2> QED BY <1>1, <1>2, SetInduction
<1> QED BY <1>3 DEF Unrolls

\* The run of Without over a list.
WithoutRun(f, list, unwanted) ==
    /\ f[0] = <<>>
    /\ \A i \in 1..Len(list) :
          f[i] = IF list[i] \in unwanted THEN f[i - 1] ELSE Append(f[i - 1], list[i])

\* Without has a run over every list.
LEMMA WithoutRuns ==
    ASSUME NEW A, NEW list \in Seq(A), NEW unwanted
    PROVE  \E f \in [0..Len(list) -> Seq(A)] :
              /\ WithoutRun(f, list, unwanted)
              /\ Machine!Without(list, unwanted) = f[Len(list)]
<1> DEFINE n == Len(list)
           turn == [i \in 1..n |-> [x \in Seq(A) |->
                       IF list[i] \in unwanted THEN x ELSE Append(x, list[i])]]
           Rule(f) == f = [i \in 0..n |-> IF i = 0 THEN <<>>
                              ELSE IF list[i] \in unwanted THEN f[i - 1]
                              ELSE Append(f[i - 1], list[i])]
           kept == CHOOSE f : Rule(f)
<1>1. n \in Nat /\ \A i \in 1..n : list[i] \in A OBVIOUS
<1>2. \A i \in 1..n, x \in Seq(A) : Append(x, list[i]) \in Seq(A) BY <1>1, AppendProperties
<1>3. turn \in [1..n -> [Seq(A) -> Seq(A)]] BY <1>2
<1>4. \A i \in 1..n, x \in Seq(A) :
          turn[i][x] = IF list[i] \in unwanted THEN x ELSE Append(x, list[i])
  OBVIOUS
<1>5. Machine!Without(list, unwanted) = kept[n] BY DEF Machine!Without
<1> HIDE DEF turn
<1>6. PICK f \in [0..n -> Seq(A)] :
         f[0] = <<>> /\ \A i \in 1..n : f[i] = turn[i][f[i - 1]]
  <2>1. <<>> \in Seq(A) /\ n \in Nat BY <1>1, EmptySeq
  <2> HIDE DEF n
  <2>2. \E f : Unrolls(f, Seq(A), <<>>, n, turn) BY <1>3, <2>1, Unrolled, Zenon
  <2> QED BY <2>2 DEF Unrolls
<1>7. Rule(f)
  <2>1. \A i \in 1..n : i # 0 /\ i - 1 \in 0..n /\ f[i - 1] \in Seq(A)
    <3>1. \A i \in 1..n : i # 0 /\ i - 1 \in 0..n BY <1>1
    <3> HIDE DEF n
    <3> QED BY <1>6, <3>1
  <2>2. \A i \in 1..n : f[i] = IF list[i] \in unwanted THEN f[i - 1]
                               ELSE Append(f[i - 1], list[i])
    BY <1>4, <1>6, <2>1
  <2>3. \A i \in 0..n : f[i] = IF i = 0 THEN <<>>
                               ELSE IF list[i] \in unwanted THEN f[i - 1]
                               ELSE Append(f[i - 1], list[i])
    <3>1. \A i \in 0..n : i = 0 \/ i \in 1..n BY <1>1
    <3> HIDE DEF n
    <3> QED BY <1>6, <2>2, <3>1
  <2>4. f = [i \in 0..n |-> f[i]] OBVIOUS
  <2> HIDE DEF n
  <2> QED BY <2>3, <2>4
<1>8. Rule(kept)
  <2> HIDE DEF Rule
  <2> QED BY <1>7
<1> HIDE DEF kept
<1>9. kept \in [0..n -> Seq(A)]
  <2> DEFINE S == {k \in Nat : k <= n => kept[k] \in Seq(A)}
  <2>1. 0 \in S
    <3>1. kept[0] = <<>> BY <1>1, <1>8
    <3> QED BY <3>1, EmptySeq
  <2>2. ASSUME NEW k \in Nat, k \in S PROVE k + 1 \in S
    <3> SUFFICES ASSUME k + 1 <= n PROVE kept[k + 1] \in Seq(A) OBVIOUS
    <3>1. kept[k] \in Seq(A) /\ k + 1 \in 1..n BY <1>1, <2>2
    <3>2. kept[k + 1] = IF list[k + 1] \in unwanted THEN kept[k]
                        ELSE Append(kept[k], list[k + 1])
      <4>1. k + 1 \in 0..n /\ k + 1 # 0 /\ (k + 1) - 1 = k BY <1>1
      <4> HIDE DEF n
      <4> QED BY <1>8, <4>1
    <3> QED BY <1>2, <3>1, <3>2
  <2>3. \A k \in Nat : k \in S
    <3> HIDE DEF S
    <3> QED BY <2>1, <2>2, SetInduction
  <2>4. \A k \in 0..n : kept[k] \in Seq(A) BY <1>1, <2>3
  <2>5. kept = [i \in 0..n |-> kept[i]]
    <3> HIDE DEF n
    <3> QED BY <1>8
  <2> HIDE DEF n
  <2> QED BY <2>4, <2>5
<1>10. WithoutRun(kept, list, unwanted)
  <2>1. kept[0] = <<>> BY <1>1, <1>8
  <2>2. \A i \in 1..n : kept[i] = IF list[i] \in unwanted THEN kept[i - 1]
                                  ELSE Append(kept[i - 1], list[i])
    <3>1. \A i \in 1..n : i \in 0..n /\ i # 0 BY <1>1
    <3> HIDE DEF n
    <3> QED BY <1>8, <3>1
  <2> QED BY <2>1, <2>2 DEF WithoutRun
<1> QED BY <1>5, <1>9, <1>10

\* What is left holds nothing unwanted, and is all if nothing was unwanted.
LEMMA WithoutKeeps ==
    ASSUME NEW A, NEW list \in Seq(A), NEW unwanted
    PROVE  /\ Machine!Without(list, unwanted) \in Seq(A \ unwanted)
           /\ (\A i \in 1..Len(list) : list[i] \notin unwanted)
                 => Machine!Without(list, unwanted) = list
<1> DEFINE n == Len(list)
<1>1. n \in Nat /\ \A i \in 1..n : list[i] \in A OBVIOUS
<1>2. PICK f \in [0..n -> Seq(A)] :
         WithoutRun(f, list, unwanted) /\ Machine!Without(list, unwanted) = f[n]
  BY WithoutRuns
<1>3. /\ f[0] = <<>>
      /\ \A i \in 1..n : f[i] = IF list[i] \in unwanted THEN f[i - 1]
                                ELSE Append(f[i - 1], list[i])
  BY <1>2 DEF WithoutRun
<1> DEFINE Good(k) == /\ f[k] \in Seq(A \ unwanted)
                      /\ (\A i \in 1..k : list[i] \notin unwanted)
                            => Len(f[k]) = k /\ \A i \in 1..k : f[k][i] = list[i]
           S == {k \in Nat : k <= n => Good(k)}
<1>4. 0 \in S
  <2>1. f[0] \in Seq(A \ unwanted) /\ Len(f[0]) = 0 BY <1>3
  <2> QED BY <2>1
<1>5. ASSUME NEW k \in Nat, k \in S PROVE k + 1 \in S
  <2> SUFFICES ASSUME k + 1 <= n PROVE Good(k + 1) OBVIOUS
  <2>1. Good(k) /\ k + 1 \in 1..n BY <1>1, <1>5
  <2>2. f[k + 1] = IF list[k + 1] \in unwanted THEN f[k] ELSE Append(f[k], list[k + 1])
    <3>1. (k + 1) - 1 = k OBVIOUS
    <3> QED BY <1>3, <2>1, <3>1
  <2>3. CASE list[k + 1] \in unwanted
    <3>1. ~\A i \in 1..(k + 1) : list[i] \notin unwanted BY <2>3
    <3> QED BY <2>1, <2>2, <2>3, <3>1
  <2>4. CASE list[k + 1] \notin unwanted
    <3>1. list[k + 1] \in A \ unwanted BY <1>1, <2>1, <2>4
    <3>2. /\ f[k + 1] \in Seq(A \ unwanted) /\ Len(f[k + 1]) = Len(f[k]) + 1
          /\ \A i \in 1..Len(f[k]) : f[k + 1][i] = f[k][i]
          /\ f[k + 1][Len(f[k]) + 1] = list[k + 1]
      BY <2>1, <2>2, <2>4, <3>1, AppendProperties
    <3>3. ASSUME \A i \in 1..(k + 1) : list[i] \notin unwanted
          PROVE  Len(f[k + 1]) = k + 1 /\ \A i \in 1..(k + 1) : f[k + 1][i] = list[i]
      <4>1. Len(f[k]) = k /\ \A i \in 1..k : f[k][i] = list[i] BY <2>1, <3>3
      <4> QED BY <3>2, <4>1
    <3> QED BY <3>2, <3>3
  <2> QED BY <2>3, <2>4
<1>6. Good(n)
  <2>1. \A k \in Nat : k \in S
    <3> HIDE DEF S
    <3> QED BY <1>4, <1>5, SetInduction
  <2> HIDE DEF Good
  <2> QED BY <1>1, <2>1
<1>7. ASSUME \A i \in 1..n : list[i] \notin unwanted PROVE f[n] = list
  <2>1. f[n] \in Seq(A) /\ Len(f[n]) = n /\ \A i \in 1..n : f[n][i] = list[i]
    BY <1>1, <1>6, <1>7
  <2> QED BY <2>1, SeqEqual
<1> QED BY <1>2, <1>6, <1>7

\* What normalised and joined texts are written in.
Written == Character \cup {"A", "B", "|"}

\* Characters that normalisation leaves as they are.
Normal == {c \in Written : Machine!Upper(c) = c /\ c \notin Machine!Removed}

\* Normalisation gives normal characters, the separator only if it was there,
\* and leaves a normal text as it is.
LEMMA Normalised ==
    ASSUME NEW s
    PROVE  /\ s \in Seq(Character)
                 => Machine!normalizeHardwareValue(s) \in Seq(Normal \ {"|"})
           /\ s \in Seq(Normal) => Machine!normalizeHardwareValue(s) = s
           /\ "|" \in Normal
<1> DEFINE upper == [i \in DOMAIN s |-> Machine!Upper(s[i])]
<1>1. Machine!normalizeHardwareValue(s) = Machine!Without(upper, Machine!Removed)
  BY DEF Machine!normalizeHardwareValue
<1>0. \A c : Machine!Upper(c) = IF c = "a" THEN "A" ELSE IF c = "b" THEN "B" ELSE c
  BY DEF Machine!Upper
<1>2. \A c \in Character : /\ Machine!Upper(c) \in Written \ {"|"}
                           /\ Machine!Upper(Machine!Upper(c)) = Machine!Upper(c)
  BY <1>0, FingerprintAssumption DEF Written
<1>3. ASSUME s \in Seq(Character)
      PROVE  Machine!normalizeHardwareValue(s) \in Seq(Normal \ {"|"})
  <2> DEFINE A == {c \in Written \ {"|"} : Machine!Upper(c) = c}
  <2>1. Len(s) \in Nat /\ DOMAIN s = 1..Len(s) /\ \A i \in 1..Len(s) : s[i] \in Character
    BY <1>3
  <2>2. \A i \in 1..Len(s) : Machine!Upper(s[i]) \in A BY <1>2, <2>1
  <2>3. upper \in Seq(A)
    <3> HIDE DEF A
    <3> QED BY <2>1, <2>2
  <2>4. Machine!Without(upper, Machine!Removed) \in Seq(A \ Machine!Removed)
    <3> HIDE DEF A, upper
    <3> QED BY <2>3, WithoutKeeps
  <2>5. A \ Machine!Removed \subseteq Normal \ {"|"} BY DEF Normal
  <2> HIDE DEF A, upper
  <2> QED BY <1>1, <2>4, <2>5, SeqMonotonic
<1>4. ASSUME s \in Seq(Normal) PROVE Machine!normalizeHardwareValue(s) = s
  <2>1. Len(s) \in Nat /\ DOMAIN s = 1..Len(s) /\ \A i \in 1..Len(s) : s[i] \in Normal
    BY <1>4
  <2>2. upper = s
    <3>1. \A i \in 1..Len(s) : Machine!Upper(s[i]) = s[i] BY <2>1 DEF Normal
    <3>2. s = [i \in 1..Len(s) |-> s[i]] BY <1>4
    <3> QED BY <2>1, <3>1, <3>2
  <2>3. \A i \in 1..Len(s) : s[i] \notin Machine!Removed BY <2>1 DEF Normal
  <2> HIDE DEF upper
  <2> QED BY <1>1, <1>4, <2>2, <2>3, WithoutKeeps
<1>5. "|" \in Normal BY <1>0 DEF Normal, Machine!Removed, Written
<1> QED BY <1>3, <1>4, <1>5

-----------------------------------------------------------------------------
\* A list of n numbers in ascending order.
Ascends(s, n) == s \in [1..n -> Nat] /\ \A i, j \in 1..n : i < j => s[i] < s[j]

\* An ascending list that takes its numbers from another one is no longer, and
\* nowhere below it.
LEMMA AscendsAbove ==
    ASSUME NEW m \in Nat, NEW n \in Nat, NEW g, NEW h, Ascends(g, m), Ascends(h, n),
           \A i \in 1..m : \E j \in 1..n : g[i] = h[j]
    PROVE  m <= n /\ \A i \in 1..m : h[i] <= g[i]
<1> DEFINE Good(k) == \A j \in 1..n : g[k] = h[j] => k <= j
           S == {k \in Nat : k \in 1..m => Good(k)}
<1>1. 0 \in S OBVIOUS
<1>2. ASSUME NEW k \in Nat, k \in S PROVE k + 1 \in S
  <2> SUFFICES ASSUME k + 1 \in 1..m, NEW j \in 1..n, g[k + 1] = h[j] PROVE k + 1 <= j
    OBVIOUS
  <2>1. CASE k = 0 BY <2>1
  <2>2. CASE k # 0
    <3>1. k \in 1..m BY <2>2
    <3>2. PICK i \in 1..n : g[k] = h[i] BY <3>1
    <3>3. k <= i BY <1>2, <3>1, <3>2
    <3>4. g[k] < g[k + 1] BY <3>1 DEF Ascends
    <3>5. h[i] < h[j] BY <3>2, <3>4
    <3>6. h[i] \in Nat /\ h[j] \in Nat /\ (j < i => h[j] < h[i]) BY DEF Ascends
    <3>7. i # j BY <3>5, <3>6
    <3>8. ~(j < i) BY <3>5, <3>6
    <3> QED BY <3>3, <3>7, <3>8
  <2> QED BY <2>1, <2>2
<1>3. \A k \in 1..m : Good(k)
  <2>1. \A k \in Nat : k \in S
    <3> HIDE DEF S
    <3> QED BY <1>1, <1>2, SetInduction
  <2> HIDE DEF Good
  <2> QED BY <2>1
<1>4. ASSUME NEW k \in 1..m PROVE k <= n /\ h[k] <= g[k]
  <2>1. PICK j \in 1..n : g[k] = h[j] OBVIOUS
  <2>2. k <= j BY <1>3, <2>1
  <2>3. k \in 1..n BY <2>2
  <2>4. k < j => h[k] < h[j] BY <2>3 DEF Ascends
  <2>5. h[k] \in Nat /\ h[j] \in Nat BY <2>3 DEF Ascends
  <2>6. k = j \/ k < j BY <2>2
  <2> QED BY <2>1, <2>3, <2>4, <2>5, <2>6
<1>5. m <= n
  <2>1. CASE m = 0 BY <2>1
  <2>2. CASE m # 0
    <3>1. m \in 1..m BY <2>2
    <3> QED BY <1>4, <3>1
  <2> QED BY <2>1, <2>2
<1> QED BY <1>4, <1>5

\* Numbers are put in order in one way only.
LEMMA OneAscent ==
    ASSUME NEW m \in Nat, NEW n \in Nat, NEW g, NEW h, Ascends(g, m), Ascends(h, n),
           \A i \in 1..m : \E j \in 1..n : g[i] = h[j],
           \A i \in 1..n : \E j \in 1..m : h[i] = g[j]
    PROVE  m = n /\ g = h
<1>1. m <= n /\ \A i \in 1..m : h[i] <= g[i] BY AscendsAbove
<1>2. n <= m /\ \A i \in 1..n : g[i] <= h[i] BY AscendsAbove
<1>3. m = n BY <1>1, <1>2
<1>4. \A i \in 1..n : g[i] \in Nat /\ h[i] \in Nat BY <1>3 DEF Ascends
<1>5. \A i \in 1..n : g[i] = h[i] BY <1>1, <1>2, <1>3, <1>4
<1>6. g = [i \in 1..n |-> g[i]] /\ h = [i \in 1..n |-> h[i]] BY <1>3 DEF Ascends
<1> QED BY <1>3, <1>5, <1>6

\* The list has the numbers of S in order.
InOrder(list, S) ==
    /\ Machine!Members(list) = S
    /\ \A i, j \in DOMAIN list : i < j => list[i] < list[j]

Enumerates(list, S) == list \in [1..Cardinality(S) -> S] /\ InOrder(list, S)

\* A set of numbers below n can be put in order.
LEMMA EnumerationExists ==
    \A n \in Nat : \A S \in SUBSET (0..(n - 1)) :
        IsFiniteSet(S) /\ Cardinality(S) \in Nat /\ \E list : Enumerates(list, S)
<1> DEFINE Good(S) == /\ IsFiniteSet(S) /\ Cardinality(S) \in Nat
                      /\ \E list : Enumerates(list, S)
           All(n) == \A S \in SUBSET (0..(n - 1)) : Good(S)
           T == {n \in Nat : All(n)}
<1>1. 0 \in T
  <2>1. ASSUME NEW S \in SUBSET (0..(0 - 1)) PROVE Good(S)
    <3>1. S = {} OBVIOUS
    <3>2. IsFiniteSet(S) /\ Cardinality(S) = 0 BY <3>1, FS_EmptySet
    <3>3. Enumerates([i \in {} |-> 0], S)
      <4>1. 1..0 = {} OBVIOUS
      <4> QED BY <3>1, <3>2, <4>1 DEF Enumerates, InOrder, Machine!Members
    <3> QED BY <3>2, <3>3
  <2> QED BY <2>1
<1>2. ASSUME NEW n \in Nat, n \in T PROVE n + 1 \in T
  <2>1. ASSUME NEW S \in SUBSET (0..n) PROVE Good(S)
    <3>1. CASE n \notin S
      <4>1. S \in SUBSET (0..(n - 1)) BY <3>1
      <4> QED BY <1>2, <4>1
    <3>2. CASE n \in S
      <4> DEFINE R == S \ {n}  c == Cardinality(R)
      <4>1. R \in SUBSET (0..(n - 1)) OBVIOUS
      <4>2. Good(R) BY <1>2, <4>1
      <4>3. PICK list : Enumerates(list, R) BY <4>2
      <4>4. IsFiniteSet(R) /\ c \in Nat /\ n \notin R /\ S = R \cup {n} BY <3>2, <4>2
      <4>5. IsFiniteSet(S) /\ Cardinality(S) = c + 1
        <5> HIDE DEF R, c
        <5>1. IsFiniteSet(R \cup {n}) /\ Cardinality(R \cup {n}) = Cardinality(R) + 1
          BY <4>4, FS_AddElement
        <5> QED BY <4>4, <5>1 DEF c
      <4> DEFINE more == [i \in 1..(c + 1) |-> IF i <= c THEN list[i] ELSE n]
      <4>6. list \in [1..c -> R] /\ Machine!Members(list) = R
            /\ \A i, j \in 1..c : i < j => list[i] < list[j]
        BY <4>3 DEF Enumerates, InOrder
      <4>7. \A i \in 1..c : list[i] \in R /\ list[i] \in Nat /\ list[i] < n
        <5>1. \A x \in R : x \in Nat /\ x < n BY <4>1
        <5> HIDE DEF R, c
        <5> QED BY <4>6, <5>1
      <4>8. /\ \A i \in 1..c : more[i] = list[i]
            /\ more[c + 1] = n /\ DOMAIN more = 1..(c + 1)
        BY <4>4
      <4>9. more \in [1..(c + 1) -> S] BY <3>2, <4>4, <4>7
      <4> HIDE DEF more, c
      <4>10. Machine!Members(more) = S
        <5>1. ASSUME NEW x \in S PROVE \E i \in 1..(c + 1) : more[i] = x
          <6>1. CASE x = n
            <7>1. c + 1 \in 1..(c + 1) BY <4>4
            <7> QED BY <4>8, <6>1, <7>1
          <6>2. CASE x # n
            <7>1. x \in Machine!Members(list) BY <4>6, <6>2
            <7>2. PICK i \in 1..c : list[i] = x BY <4>6, <7>1 DEF Machine!Members
            <7>3. i \in 1..(c + 1) BY <4>4
            <7> QED BY <4>8, <7>2, <7>3
          <6> QED BY <6>1, <6>2
        <5>2. \A i \in 1..(c + 1) : more[i] \in S BY <4>9
        <5> QED BY <4>8, <5>1, <5>2 DEF Machine!Members
      <4>11. ASSUME NEW i \in 1..(c + 1), NEW j \in 1..(c + 1), i < j
             PROVE  more[i] < more[j]
        <5>1. i \in 1..c BY <4>4, <4>11
        <5>2. CASE j = c + 1 BY <4>7, <4>8, <5>1, <5>2
        <5>3. CASE j # c + 1
          <6>1. j \in 1..c BY <4>4, <5>3
          <6> QED BY <4>6, <4>8, <4>11, <5>1, <6>1
        <5> QED BY <5>2, <5>3
      <4>12. Enumerates(more, S) BY <4>5, <4>8, <4>9, <4>10, <4>11 DEF Enumerates, InOrder
      <4> QED BY <4>4, <4>5, <4>12
    <3> QED BY <3>1, <3>2
  <2>2. (n + 1) - 1 = n OBVIOUS
  <2> QED BY <2>1, <2>2
<1>3. \A n \in Nat : n \in T
  <2> HIDE DEF T
  <2> QED BY <1>1, <1>2, SetInduction
<1> QED BY <1>3

\* Ordered puts disk numbers in order.
LEMMA OrderedIs ==
    ASSUME NEW S \in SUBSET (0..MaxDisk)
    PROVE  /\ Cardinality(S) \in Nat
           /\ Machine!Ordered(S) \in [1..Cardinality(S) -> S]
           /\ Ascends(Machine!Ordered(S), Cardinality(S))
           /\ \A d \in S : \E i \in 1..Cardinality(S) : Machine!Ordered(S)[i] = d
<1> DEFINE c == Cardinality(S)  o == Machine!Ordered(S)
<1>1. MaxDisk + 1 \in Nat /\ (MaxDisk + 1) - 1 = MaxDisk BY FingerprintAssumption
<1>2. c \in Nat /\ \E list : Enumerates(list, S) BY <1>1, EnumerationExists
<1>3. Enumerates(o, S)
  <2>1. o = CHOOSE list \in [1..c -> S] : InOrder(list, S)
    BY DEF Machine!Ordered, InOrder, Machine!Cardinality, Cardinality
  <2>2. \E list \in [1..c -> S] : InOrder(list, S) BY <1>2 DEF Enumerates
  <2> QED BY <2>1, <2>2 DEF Enumerates
<1>4. /\ o \in [1..c -> S] /\ Machine!Members(o) = S
      /\ \A i, j \in 1..c : i < j => o[i] < o[j]
  BY <1>3 DEF Enumerates, InOrder
<1>5. S \subseteq Nat BY FingerprintAssumption
<1> HIDE DEF o, c
<1>6. Ascends(o, c) BY <1>4, <1>5 DEF Ascends
<1>7. \A d \in S : \E i \in 1..c : o[i] = d BY <1>4 DEF Machine!Members
<1> QED BY <1>2, <1>4, <1>6, <1>7 DEF o, c

\* What the disks of S say, in order.
Spoken(S, say) == [i \in DOMAIN Machine!Ordered(S) |-> say[Machine!Ordered(S)[i]]]

\* Without the empty ones, it is what those disks say that have something to say.
DropsUnread(S, A, say) ==
    Machine!Without(Spoken(S, say), {<<>>}) = Spoken({d \in S : say[d] # <<>>}, say)

\* Dropping the empty serials from those of all disks leaves the serials of the
\* disks that have one, in their order.
LEMMA SerialsOfReadable ==
    ASSUME NEW S \in SUBSET (0..MaxDisk), NEW A, NEW say \in [0..MaxDisk -> A]
    PROVE  DropsUnread(S, A, say)
<1> DEFINE R == {d \in S : say[d] # <<>>}
           o == Machine!Ordered(S)  n == Cardinality(S)
           q == Machine!Ordered(R)  r == Cardinality(R)
           list == [i \in DOMAIN o |-> say[o[i]]]
<1>1. /\ n \in Nat /\ o \in [1..n -> S] /\ Ascends(o, n)
      /\ \A d \in S : \E i \in 1..n : o[i] = d
  BY OrderedIs
<1>2. /\ r \in Nat /\ q \in [1..r -> R] /\ Ascends(q, r)
      /\ \A d \in R : \E i \in 1..r : q[i] = d
  <2>1. R \in SUBSET (0..MaxDisk) OBVIOUS
  <2> HIDE DEF R
  <2> QED BY <2>1, OrderedIs
<1>3. \A d \in S : say[d] \in A OBVIOUS
<1> HIDE DEF o, n, q, r
<1>4. list \in Seq(A) /\ Len(list) = n /\ \A i \in 1..n : list[i] = say[o[i]]
  <2>1. DOMAIN o = 1..n /\ \A i \in 1..n : say[o[i]] \in A BY <1>1, <1>3
  <2>2. list = [i \in 1..n |-> say[o[i]]] BY <2>1
  <2> QED BY <1>1, <2>1, <2>2
<1> HIDE DEF list
<1>5. PICK f \in [0..n -> Seq(A)] :
         WithoutRun(f, list, {<<>>}) /\ Machine!Without(list, {<<>>}) = f[n]
  BY <1>4, WithoutRuns
<1>6. /\ f[0] = <<>>
      /\ \A i \in 1..n : f[i] = IF list[i] \in {<<>>} THEN f[i - 1]
                                ELSE Append(f[i - 1], list[i])
  BY <1>4, <1>5 DEF WithoutRun
<1> DEFINE From(k, m, g) ==
              /\ Ascends(g, m) /\ Len(f[k]) = m
              /\ \A i \in 1..m : f[k][i] = say[g[i]]
              /\ \A i \in 1..m : \E j \in 1..k : g[i] = o[j] /\ say[o[j]] # <<>>
              /\ \A j \in 1..k : say[o[j]] # <<>> => \E i \in 1..m : g[i] = o[j]
           T == {k \in Nat : k <= n => \E m \in Nat : \E g : From(k, m, g)}
<1>7. 0 \in T
  <2>1. Len(f[0]) = 0 BY <1>6
  <2>2. Ascends([i \in 1..0 |-> 0], 0) BY DEF Ascends
  <2>3. From(0, 0, [i \in 1..0 |-> 0]) BY <2>1, <2>2
  <2> QED BY <2>3
<1>8. ASSUME NEW k \in Nat, k \in T PROVE k + 1 \in T
  <2> SUFFICES ASSUME k + 1 <= n PROVE \E m \in Nat : \E g : From(k + 1, m, g)
    <3> HIDE DEF From
    <3> QED OBVIOUS
  <2>1. PICK m \in Nat : \E g : From(k, m, g) BY <1>1, <1>8
  <2>2. PICK g : From(k, m, g) BY <2>1
  <2>3. /\ k + 1 \in 1..n /\ k \in 0..n /\ (k + 1) - 1 = k
        /\ \A j \in 1..k : j \in 1..n /\ j \in 1..(k + 1) /\ j < k + 1
        /\ \A j \in 1..(k + 1) : j \in 1..k \/ j = k + 1
    BY <1>1
  <2>4. f[k + 1] = IF say[o[k + 1]] = <<>> THEN f[k] ELSE Append(f[k], say[o[k + 1]])
    BY <1>4, <1>6, <2>3
  <2>5. CASE say[o[k + 1]] = <<>>
    <3>1. f[k + 1] = f[k] BY <2>4, <2>5
    <3>2. From(k + 1, m, g) BY <2>2, <2>3, <2>5, <3>1
    <3> HIDE DEF From
    <3> QED BY <3>2
  <2>6. CASE say[o[k + 1]] # <<>>
    <3> DEFINE h == [i \in 1..(m + 1) |-> IF i <= m THEN g[i] ELSE o[k + 1]]
    <3>1. /\ \A i \in 1..m : h[i] = g[i] /\ i \in 1..(m + 1)
          /\ \A i \in 1..(m + 1) : i \in 1..m \/ i = m + 1
          /\ h[m + 1] = o[k + 1] /\ m + 1 \in 1..(m + 1)
      OBVIOUS
    <3>2. f[k] \in Seq(A) /\ say[o[k + 1]] \in A BY <1>1, <1>3, <1>5, <2>3
    <3>3. /\ Len(f[k + 1]) = m + 1
          /\ \A i \in 1..m : f[k + 1][i] = f[k][i]
          /\ f[k + 1][m + 1] = say[o[k + 1]]
      BY <2>2, <2>4, <2>6, <3>2, AppendProperties
    <3>4. o[k + 1] \in Nat /\ \A i \in 1..m : g[i] \in Nat /\ g[i] < o[k + 1]
      <4>1. o[k + 1] \in Nat /\ \A j \in 1..k : o[j] < o[k + 1] BY <1>1, <2>3 DEF Ascends
      <4>2. \A i \in 1..m : g[i] \in Nat BY <2>2 DEF Ascends
      <4>3. \A i \in 1..m : \E j \in 1..k : g[i] = o[j] BY <2>2
      <4> QED BY <4>1, <4>2, <4>3
    <3>5. Ascends(h, m + 1)
      <4>1. h \in [1..(m + 1) -> Nat] BY <3>4
      <4>2. ASSUME NEW i \in 1..(m + 1), NEW j \in 1..(m + 1), i < j PROVE h[i] < h[j]
        <5>1. i \in 1..m BY <4>2
        <5>2. CASE j = m + 1 BY <3>1, <3>4, <5>1, <5>2
        <5>3. CASE j \in 1..m BY <2>2, <3>1, <4>2, <5>1, <5>3 DEF Ascends
        <5> QED BY <3>1, <5>2, <5>3
      <4> HIDE DEF h
      <4> QED BY <4>1, <4>2 DEF Ascends
    <3> HIDE DEF h
    <3>6. \A i \in 1..(m + 1) : f[k + 1][i] = say[h[i]] BY <2>2, <3>1, <3>3
    <3>7. \A i \in 1..(m + 1) : \E j \in 1..(k + 1) : h[i] = o[j] /\ say[o[j]] # <<>>
      <4> SUFFICES ASSUME NEW i \in 1..(m + 1)
                   PROVE  \E j \in 1..(k + 1) : h[i] = o[j] /\ say[o[j]] # <<>>
        OBVIOUS
      <4>1. CASE i = m + 1
        <5>1. k + 1 \in 1..(k + 1) OBVIOUS
        <5> QED BY <2>6, <3>1, <4>1, <5>1
      <4>2. CASE i \in 1..m
        <5>1. PICK j \in 1..k : g[i] = o[j] /\ say[o[j]] # <<>> BY <2>2, <4>2
        <5> QED BY <2>3, <3>1, <4>2, <5>1
      <4> QED BY <3>1, <4>1, <4>2
    <3>8. \A j \in 1..(k + 1) : say[o[j]] # <<>> => \E i \in 1..(m + 1) : h[i] = o[j]
      <4> SUFFICES ASSUME NEW j \in 1..(k + 1), say[o[j]] # <<>>
                   PROVE  \E i \in 1..(m + 1) : h[i] = o[j]
        OBVIOUS
      <4>1. CASE j = k + 1 BY <3>1, <4>1
      <4>2. CASE j \in 1..k
        <5>1. PICK i \in 1..m : g[i] = o[j] BY <2>2, <4>2
        <5> QED BY <3>1, <5>1
      <4> QED BY <2>3, <4>1, <4>2
    <3>9. From(k + 1, m + 1, h) BY <3>3, <3>5, <3>6, <3>7, <3>8
    <3>10. m + 1 \in Nat OBVIOUS
    <3> HIDE DEF From
    <3> QED BY <3>9, <3>10
  <2> QED BY <2>5, <2>6
<1>9. PICK m \in Nat : \E g : From(n, m, g)
  <2>1. \A k \in Nat : k \in T
    <3> HIDE DEF T
    <3> QED BY <1>7, <1>8, SetInduction
  <2>2. n <= n BY <1>1
  <2> HIDE DEF From
  <2> QED BY <1>1, <2>1, <2>2
<1>10. PICK g : From(n, m, g) BY <1>9
<1>11. \A i \in 1..m : \E j \in 1..r : g[i] = q[j]
  <2>1. \A i \in 1..m : g[i] \in R BY <1>1, <1>10
  <2> HIDE DEF R
  <2> QED BY <1>2, <2>1
<1>12. \A i \in 1..r : \E j \in 1..m : q[i] = g[j]
  <2>1. \A i \in 1..r : q[i] \in S /\ say[q[i]] # <<>> BY <1>2
  <2>2. \A i \in 1..r : \E j \in 1..n : o[j] = q[i] BY <1>1, <2>1
  <2>3. \A j \in 1..n : say[o[j]] # <<>> => \E i \in 1..m : g[i] = o[j] BY <1>10
  <2> HIDE DEF From
  <2> QED BY <2>1, <2>2, <2>3
<1>13. m = r /\ g = q
  <2>1. r \in Nat /\ Ascends(q, r) BY <1>2
  <2>2. m \in Nat /\ Ascends(g, m) BY <1>10
  <2> QED BY ONLY <2>1, <2>2, <1>11, <1>12, OneAscent
<1>14. f[n] = [i \in 1..m |-> say[g[i]]]
  <2>1. f[n] \in Seq(A) /\ Len(f[n]) = m BY <1>1, <1>5, <1>10
  <2>2. f[n] = [i \in 1..m |-> f[n][i]]
    <3>1. PICK x : x = f[n] OBVIOUS
    <3>2. x \in Seq(A) /\ Len(x) = m BY <2>1, <3>1
    <3>3. x = [i \in 1..m |-> x[i]] BY ONLY <3>2
    <3> QED BY <3>1, <3>3
  <2>3. \A i \in 1..m : f[n][i] = say[g[i]] BY <1>10
  <2> QED BY <2>2, <2>3
<1>15. DOMAIN q = 1..m BY <1>2, <1>13
<1>16. Machine!Without(list, {<<>>}) = [i \in DOMAIN q |-> say[q[i]]]
  BY <1>5, <1>13, <1>14, <1>15
<1> QED BY <1>16 DEF list, o, q, R, Spoken, DropsUnread

-----------------------------------------------------------------------------
\* One text behind the other.
Cat(p, q) == p \o q

\* Texts over A stay texts over A, and it does not matter which are joined first.
LEMMA CatProperties ==
    ASSUME NEW A
    PROVE  /\ \A p, q \in Seq(A) : Cat(p, q) \in Seq(A)
           /\ \A p, q, r \in Seq(A) : Cat(Cat(p, q), r) = Cat(p, Cat(q, r))
BY ConcatAssociative DEF Cat

\* Two texts with a mark between them.
Around(a, c, b) == Cat(Cat(a, <<c>>), b)

\* What stands where in s when it is a, the mark and b.
Marked(s, a, c, b) ==
    /\ Len(a) \in Nat /\ Len(b) \in Nat /\ Len(s) = Len(a) + 1 + Len(b)
    /\ \A i \in 1..Len(a) : s[i] = a[i]
    /\ s[Len(a) + 1] = c
    /\ \A i \in 1..Len(b) : s[Len(a) + 1 + i] = b[i]

\* Around puts the mark between the texts.
LEMMA AroundMark ==
    ASSUME NEW A, NEW c \in A, NEW a \in Seq(A), NEW b \in Seq(A)
    PROVE  Around(a, c, b) \in Seq(A) /\ Marked(Around(a, c, b), a, c, b)
<1> DEFINE m == a \o <<c>>  s == m \o b
<1>0. Len(a) \in Nat /\ Len(b) \in Nat OBVIOUS
<1>1. <<c>> \in Seq(A) /\ Len(<<c>>) = 1 /\ <<c>>[1] = c OBVIOUS
<1>2. /\ m \in Seq(A) /\ Len(m) = Len(a) + 1
      /\ \A i \in 1..(Len(a) + 1) : m[i] = IF i <= Len(a) THEN a[i] ELSE <<c>>[i - Len(a)]
  BY <1>1, ConcatProperties
<1>3. m[Len(a) + 1] = c
  <2>1. Len(a) + 1 \in 1..(Len(a) + 1) /\ ~(Len(a) + 1 <= Len(a))
        /\ (Len(a) + 1) - Len(a) = 1
    BY <1>0
  <2> HIDE DEF m
  <2> QED BY <1>1, <1>2, <2>1
<1> HIDE DEF m
<1>4. /\ s \in Seq(A) /\ Len(s) = Len(m) + Len(b)
      /\ \A i \in 1..(Len(m) + Len(b)) : s[i] = IF i <= Len(m) THEN m[i] ELSE b[i - Len(m)]
  <2>1. m \in Seq(A) /\ b \in Seq(A) BY <1>2
  <2> QED BY ONLY <2>1, ConcatProperties
<1>9. Around(a, c, b) = s BY DEF Around, Cat, s, m
<1> HIDE DEF s
<1>5. Len(s) = Len(a) + 1 + Len(b) BY <1>2, <1>4
<1>6. \A i \in 1..Len(a) : s[i] = a[i] BY <1>0, <1>2, <1>4
<1>7. s[Len(a) + 1] = c BY <1>0, <1>2, <1>3, <1>4
<1>8. ASSUME NEW i \in 1..Len(b) PROVE s[Len(a) + 1 + i] = b[i]
  <2>1. /\ Len(a) + 1 + i \in 1..(Len(m) + Len(b)) /\ ~(Len(a) + 1 + i <= Len(m))
        /\ (Len(a) + 1 + i) - Len(m) = i
    BY <1>0, <1>2
  <2> QED BY <1>4, <2>1
<1> QED BY <1>0, <1>4, <1>5, <1>6, <1>7, <1>8, <1>9 DEF Marked

\* Two texts that are equal and marked at the same place agree on both sides.
LEMMA CutAtMark ==
    ASSUME NEW A, NEW c, NEW a \in Seq(A), NEW b \in Seq(A),
           NEW x \in Seq(A), NEW y \in Seq(A), NEW s, Marked(s, a, c, b), Marked(s, x, c, y),
           Len(a) = Len(x)
    PROVE  a = x /\ b = y
<1>1. Len(b) = Len(y) BY DEF Marked
<1>2. \A i \in 1..Len(a) : a[i] = x[i] BY DEF Marked
<1>3. \A i \in 1..Len(b) : b[i] = y[i] BY <1>1 DEF Marked
<1> QED BY <1>1, <1>2, <1>3, SeqEqual

\* Texts without the mark.
Clean(A, c) == Seq(A \ {c})

\* A text is cut at its first mark in one way.
LEMMA CutFirst ==
    ASSUME NEW A, NEW c \in A, NEW a \in Clean(A, c), NEW x \in Clean(A, c),
           NEW b \in Seq(A), NEW y \in Seq(A), Around(a, c, b) = Around(x, c, y)
    PROVE  a = x /\ b = y
<1> DEFINE s == Around(a, c, b)
<1>1. a \in Seq(A) /\ x \in Seq(A)
  <2>1. A \ {c} \subseteq A OBVIOUS
  <2> QED BY <2>1, SeqMonotonic DEF Clean
<1>2. Marked(s, a, c, b) /\ Marked(s, x, c, y) BY <1>1, AroundMark
<1>3. (\A i \in 1..Len(a) : a[i] # c) /\ \A i \in 1..Len(x) : x[i] # c BY DEF Clean
<1> HIDE DEF s
<1>4. ~(Len(a) < Len(x))
  <2> SUFFICES ASSUME Len(a) < Len(x) PROVE FALSE OBVIOUS
  <2>1. Len(a) + 1 \in 1..Len(x) BY <1>2 DEF Marked
  <2> QED BY <1>2, <1>3, <2>1 DEF Marked
<1>5. ~(Len(x) < Len(a))
  <2> SUFFICES ASSUME Len(x) < Len(a) PROVE FALSE OBVIOUS
  <2>1. Len(x) + 1 \in 1..Len(a) BY <1>2 DEF Marked
  <2> QED BY <1>2, <1>3, <2>1 DEF Marked
<1>6. Len(a) = Len(x) BY <1>2, <1>4, <1>5 DEF Marked
<1> QED BY <1>1, <1>2, <1>6, CutAtMark

\* And at its last one.
LEMMA CutLast ==
    ASSUME NEW A, NEW c \in A, NEW a \in Seq(A), NEW x \in Seq(A),
           NEW b \in Clean(A, c), NEW y \in Clean(A, c), Around(a, c, b) = Around(x, c, y)
    PROVE  a = x /\ b = y
<1> DEFINE s == Around(a, c, b)
<1>1. b \in Seq(A) /\ y \in Seq(A)
  <2>1. A \ {c} \subseteq A OBVIOUS
  <2> QED BY <2>1, SeqMonotonic DEF Clean
<1>2. Marked(s, a, c, b) /\ Marked(s, x, c, y) BY <1>1, AroundMark
<1>3. (\A i \in 1..Len(b) : b[i] # c) /\ \A i \in 1..Len(y) : y[i] # c BY DEF Clean
<1> HIDE DEF s
<1>4. ~(Len(a) < Len(x))
  <2> SUFFICES ASSUME Len(a) < Len(x) PROVE FALSE OBVIOUS
  <2>1. PICK i : i = Len(x) - Len(a) OBVIOUS
  <2>2. i \in 1..Len(b) /\ Len(a) + 1 + i = Len(x) + 1 BY <1>2, <2>1 DEF Marked
  <2>3. s[Len(a) + 1 + i] = b[i] /\ s[Len(x) + 1] = c BY <1>2, <2>2 DEF Marked
  <2> QED BY <1>3, <2>2, <2>3
<1>5. ~(Len(x) < Len(a))
  <2> SUFFICES ASSUME Len(x) < Len(a) PROVE FALSE OBVIOUS
  <2>1. PICK i : i = Len(a) - Len(x) OBVIOUS
  <2>2. i \in 1..Len(y) /\ Len(x) + 1 + i = Len(a) + 1 BY <1>2, <2>1 DEF Marked
  <2>3. s[Len(x) + 1 + i] = y[i] /\ s[Len(a) + 1] = c BY <1>2, <2>2 DEF Marked
  <2> QED BY <1>3, <2>2, <2>3
<1>6. Len(a) = Len(x) BY <1>2, <1>4, <1>5 DEF Marked
<1> QED BY <1>1, <1>2, <1>6, CutAtMark

-----------------------------------------------------------------------------
\* The run of Join over a list.
JoinRun(f, list) ==
    /\ f[0] = <<>>
    /\ \A i \in 1..Len(list) :
          f[i] = IF i = 1 THEN list[1] ELSE f[i - 1] \o <<"|">> \o list[i]

\* Join has a run over every list of texts.
LEMMA JoinRuns ==
    ASSUME NEW A, "|" \in A, NEW list \in Seq(Seq(A))
    PROVE  \E f \in [0..Len(list) -> Seq(A)] :
              JoinRun(f, list) /\ Machine!Join(list) = f[Len(list)]
<1> DEFINE n == Len(list)
           turn == [i \in 1..n |-> [x \in Seq(A) |->
                       IF i = 1 THEN list[1] ELSE x \o <<"|">> \o list[i]]]
           Rule(f) == f = [i \in 0..n |-> IF i = 0 THEN <<>>
                              ELSE IF i = 1 THEN list[1]
                              ELSE f[i - 1] \o <<"|">> \o list[i]]
           joined == CHOOSE f : Rule(f)
<1>1. n \in Nat /\ \A i \in 1..n : list[i] \in Seq(A) OBVIOUS
<1>2. ASSUME NEW i \in 1..n, NEW x \in Seq(A) PROVE x \o <<"|">> \o list[i] \in Seq(A)
  BY <1>1, AroundMark DEF Around, Cat
<1>3. turn \in [1..n -> [Seq(A) -> Seq(A)]]
  <2>1. \A i \in 1..n, x \in Seq(A) :
           (IF i = 1 THEN list[1] ELSE x \o <<"|">> \o list[i]) \in Seq(A)
    BY <1>1, <1>2
  <2> HIDE DEF n
  <2> QED BY <2>1
<1>4. \A i \in 1..n, x \in Seq(A) :
          turn[i][x] = IF i = 1 THEN list[1] ELSE x \o <<"|">> \o list[i]
  OBVIOUS
<1>5. Machine!Join(list) = joined[n] BY DEF Machine!Join
<1> HIDE DEF turn
<1>6. PICK f \in [0..n -> Seq(A)] :
         f[0] = <<>> /\ \A i \in 1..n : f[i] = turn[i][f[i - 1]]
  <2>1. <<>> \in Seq(A) /\ n \in Nat BY <1>1, EmptySeq
  <2> HIDE DEF n
  <2>2. \E f : Unrolls(f, Seq(A), <<>>, n, turn) BY <1>3, <2>1, Unrolled, Zenon
  <2> QED BY <2>2 DEF Unrolls
<1>7. Rule(f)
  <2>1. \A i \in 1..n : i # 0 /\ i - 1 \in 0..n BY <1>1
  <2>2. \A i \in 0..n : i = 0 \/ i \in 1..n BY <1>1
  <2> HIDE DEF n
  <2>3. \A i \in 1..n : f[i] = IF i = 1 THEN list[1] ELSE f[i - 1] \o <<"|">> \o list[i]
    BY <1>4, <1>6, <2>1
  <2>4. \A i \in 0..n : f[i] = IF i = 0 THEN <<>>
                               ELSE IF i = 1 THEN list[1]
                               ELSE f[i - 1] \o <<"|">> \o list[i]
    BY <1>6, <2>1, <2>2, <2>3
  <2>5. f = [i \in 0..n |-> f[i]] OBVIOUS
  <2> QED BY <2>4, <2>5
<1>8. Rule(joined)
  <2> HIDE DEF Rule
  <2> QED BY <1>7
<1> HIDE DEF joined
<1>9. JoinRun(joined, list)
  <2>1. joined[0] = <<>> BY <1>1, <1>8
  <2>2. \A i \in 1..n : joined[i] = IF i = 1 THEN list[1]
                                    ELSE joined[i - 1] \o <<"|">> \o list[i]
    <3>1. \A i \in 1..n : i \in 0..n /\ i # 0 BY <1>1
    <3> HIDE DEF n
    <3> QED BY <1>8, <3>1
  <2> QED BY <2>1, <2>2 DEF JoinRun
<1>10. joined \in [0..n -> Seq(A)]
  <2> DEFINE S == {k \in Nat : k <= n => joined[k] \in Seq(A)}
  <2>1. 0 \in S
    <3>1. joined[0] = <<>> BY <1>9 DEF JoinRun
    <3> QED BY <3>1, EmptySeq
  <2>2. ASSUME NEW k \in Nat, k \in S PROVE k + 1 \in S
    <3> SUFFICES ASSUME k + 1 <= n PROVE joined[k + 1] \in Seq(A) OBVIOUS
    <3>1. joined[k] \in Seq(A) /\ k + 1 \in 1..n /\ (k + 1) - 1 = k BY <1>1, <2>2
    <3>2. joined[k + 1] = IF k + 1 = 1 THEN list[1]
                          ELSE joined[k] \o <<"|">> \o list[k + 1]
      BY <1>9, <3>1 DEF JoinRun
    <3> QED BY <1>1, <1>2, <3>1, <3>2
  <2>3. \A k \in Nat : k \in S
    <3> HIDE DEF S
    <3> QED BY <2>1, <2>2, SetInduction
  <2>4. \A k \in 0..n : joined[k] \in Seq(A) BY <1>1, <2>3
  <2>5. joined = [i \in 0..n |-> joined[i]]
    <3> HIDE DEF n
    <3> QED BY <1>8
  <2> HIDE DEF n
  <2> QED BY <2>4, <2>5
<1> QED BY <1>5, <1>9, <1>10

\* Texts over A that are not empty and hold no separator.
Word(A) == Seq(A \ {"|"}) \ {<<>>}

\* The texts a run of Join goes through: none of them is empty but the first,
\* and those of two words and more hold a separator.
LEMMA JoinShape ==
    ASSUME NEW A, "|" \in A, NEW list \in Seq(Word(A)),
           NEW f \in [0..Len(list) -> Seq(A)], JoinRun(f, list)
    PROVE  \A i \in 1..Len(list) :
              /\ list[i] \in Word(A) /\ f[i] # <<>>
              /\ i = 1 => f[i] = list[i]
              /\ i > 1 => /\ f[i] = f[i - 1] \o <<"|">> \o list[i]
                          /\ f[i] \notin Seq(A \ {"|"})
<1> SUFFICES ASSUME NEW i \in 1..Len(list)
             PROVE  /\ list[i] \in Word(A) /\ f[i] # <<>>
                    /\ i = 1 => f[i] = list[i]
                    /\ i > 1 => /\ f[i] = f[i - 1] \o <<"|">> \o list[i]
                                /\ f[i] \notin Seq(A \ {"|"})
  OBVIOUS
<1>1. Len(list) \in Nat /\ i \in Nat /\ i >= 1 /\ list[i] \in Word(A) OBVIOUS
<1>2. f[i] = IF i = 1 THEN list[1] ELSE f[i - 1] \o <<"|">> \o list[i]
  BY DEF JoinRun
<1>3. CASE i = 1 BY <1>1, <1>2, <1>3 DEF Word
<1>4. CASE i > 1
  <2>1. f[i - 1] \in Seq(A)
    <3>1. i - 1 \in 0..Len(list) BY <1>1
    <3> QED BY <3>1
  <2>2. list[i] \in Seq(A)
    <3>1. A \ {"|"} \subseteq A OBVIOUS
    <3> QED BY <1>1, <3>1, SeqMonotonic DEF Word
  <2>0. i # 1 BY <1>1, <1>4
  <2>3. f[i] = f[i - 1] \o <<"|">> \o list[i] BY <1>2, <2>0, Zenon
  <2> DEFINE k == Len(f[i - 1])
  <2>4. Len(f[i]) = k + 1 + Len(list[i]) /\ f[i][k + 1] = "|"
    <3>1. f[i] = Around(f[i - 1], "|", list[i]) BY <2>3 DEF Around, Cat
    <3>2. Marked(f[i], f[i - 1], "|", list[i]) BY <2>1, <2>2, <3>1, AroundMark
    <3> QED BY <3>2 DEF Marked
  <2>5. k \in Nat /\ Len(list[i]) \in Nat BY <2>1, <2>2
  <2> HIDE DEF k
  <2>6. Len(f[i]) \in Nat /\ Len(f[i]) # 0 /\ k + 1 \in 1..Len(f[i])
    <3>1. \A a, b \in Nat : a + 1 + b \in Nat /\ a + 1 + b # 0 /\ a + 1 \in 1..(a + 1 + b)
      OBVIOUS
    <3> QED BY <2>4, <2>5, <3>1
  <2>7. f[i] \notin Seq(A \ {"|"}) BY <2>4, <2>6
  <2>8. f[i] # <<>> BY <2>6
  <2>9. ~(i = 1) /\ list[i] \in Word(A) BY <1>1, <2>0
  <2> QED BY <2>3, <2>7, <2>8, <2>9, Zenon
<1>5. i = 1 \/ i > 1 BY <1>1
<1> QED BY <1>3, <1>4, <1>5, Zenon

\* A joined text tells which words were joined.
LEMMA JoinOnce ==
    ASSUME NEW A, "|" \in A, NEW s \in Seq(Word(A)), NEW t \in Seq(Word(A)),
           Machine!Join(s) = Machine!Join(t)
    PROVE  s = t
<1> DEFINE m == Len(s)  n == Len(t)
<1>1. m \in Nat /\ n \in Nat OBVIOUS
<1>2. s \in Seq(Seq(A)) /\ t \in Seq(Seq(A)) /\ Seq(A \ {"|"}) \subseteq Seq(A)
  <2>1. A \ {"|"} \subseteq A OBVIOUS
  <2>2. Seq(A \ {"|"}) \subseteq Seq(A) BY <2>1, SeqMonotonic
  <2>3. Word(A) \subseteq Seq(A) BY <2>2 DEF Word
  <2> QED BY <2>2, <2>3, SeqMonotonic
<1>3. PICK f \in [0..m -> Seq(A)] : JoinRun(f, s) /\ Machine!Join(s) = f[m]
  BY <1>2, JoinRuns
<1>4. PICK g \in [0..n -> Seq(A)] : JoinRun(g, t) /\ Machine!Join(t) = g[n]
  BY <1>2, JoinRuns
<1>5. \A i \in 1..m : /\ s[i] \in Word(A) /\ f[i] # <<>>
                      /\ i = 1 => f[i] = s[i]
                      /\ i > 1 => /\ f[i] = f[i - 1] \o <<"|">> \o s[i]
                                  /\ f[i] \notin Seq(A \ {"|"})
  BY <1>3, JoinShape
<1>6. \A i \in 1..n : /\ t[i] \in Word(A) /\ g[i] # <<>>
                      /\ i = 1 => g[i] = t[i]
                      /\ i > 1 => /\ g[i] = g[i - 1] \o <<"|">> \o t[i]
                                  /\ g[i] \notin Seq(A \ {"|"})
  BY <1>4, JoinShape
<1>7. f[0] = <<>> /\ g[0] = <<>> BY <1>3, <1>4 DEF JoinRun
<1> HIDE DEF m, n
<1> DEFINE Same(i, j) == i = j /\ \A k \in 1..i : s[k] = t[k]
           T == {i \in Nat : i <= m => \A j \in 0..n : f[i] = g[j] => Same(i, j)}
<1>8. 0 \in T
  <2>1. ASSUME NEW j \in 0..n, f[0] = g[j] PROVE Same(0, j)
    <3>1. j = 0
      <4>1. j \notin 1..n BY <1>6, <1>7, <2>1
      <4> QED BY <1>1, <4>1
    <3> QED BY <3>1
  <2> QED BY <2>1
<1>9. ASSUME NEW i \in Nat, i \in T PROVE i + 1 \in T
  <2> SUFFICES ASSUME i + 1 <= m, NEW j \in 0..n, f[i + 1] = g[j] PROVE Same(i + 1, j)
    OBVIOUS
  <2>1. i + 1 \in 1..m /\ (i + 1) - 1 = i BY <1>1
  <2>2. j \in 1..n
    <3>1. j # 0 BY <1>5, <1>7, <2>1
    <3> QED BY <1>1, <3>1
  <2>3. CASE i = 0
    <3>1. f[1] = s[1] /\ s[1] \in Seq(A \ {"|"})
      <4>1. 1 \in 1..m BY <2>1, <2>3
      <4> QED BY <1>5, <4>1 DEF Word
    <3>2. g[j] \in Seq(A \ {"|"}) BY <2>3, <3>1
    <3>3. j = 1
      <4>1. ~(j > 1) BY <1>6, <2>2, <3>2
      <4> QED BY <1>1, <2>2, <4>1
    <3>4. s[1] = t[1]
      <4>1. g[1] = t[1] BY <1>6, <2>2, <3>3
      <4>2. f[1] = g[1] BY <2>3, <3>3
      <4> QED BY <3>1, <4>1, <4>2
    <3> QED BY <2>3, <3>3, <3>4
  <2>4. CASE i > 0
    <3>1. f[i + 1] = f[i] \o <<"|">> \o s[i + 1] /\ f[i + 1] \notin Seq(A \ {"|"})
      <4>1. i + 1 > 1 BY <2>4
      <4> QED BY <1>5, <2>1, <4>1
    <3>2. j > 1
      <4>1. j # 1
        <5> SUFFICES ASSUME j = 1 PROVE FALSE OBVIOUS
        <5>1. g[j] \in Seq(A \ {"|"}) BY <1>6, <2>2 DEF Word
        <5> QED BY <3>1, <5>1
      <4> QED BY <1>1, <2>2, <4>1
    <3>3. g[j] = g[j - 1] \o <<"|">> \o t[j] BY <1>6, <2>2, <3>2
    <3>4. /\ f[i] \in Seq(A) /\ g[j - 1] \in Seq(A) /\ j - 1 \in 0..n
          /\ s[i + 1] \in Seq(A \ {"|"}) /\ t[j] \in Seq(A \ {"|"})
      <4>1. i \in 0..m /\ j - 1 \in 0..n BY <1>1, <2>1, <2>2
      <4>2. s[i + 1] \in Word(A) /\ t[j] \in Word(A) BY <1>5, <1>6, <2>1, <2>2
      <4> QED BY <4>1, <4>2 DEF Word
    <3>5. f[i] \o <<"|">> \o s[i + 1] = g[j - 1] \o <<"|">> \o t[j] BY <3>1, <3>3
    <3>6. f[i] = g[j - 1] /\ s[i + 1] = t[j]
      <4>1. "|" \in A OBVIOUS
      <4>2. PICK c, a, x, b, y : c = "|" /\ a = f[i] /\ x = g[j - 1] /\ b = s[i + 1] /\ y = t[j]
        OBVIOUS
      <4>3. /\ c \in A /\ a \in Seq(A) /\ x \in Seq(A) /\ b \in Clean(A, c) /\ y \in Clean(A, c)
            /\ Around(a, c, b) = Around(x, c, y)
        BY <3>4, <3>5, <4>1, <4>2 DEF Around, Cat, Clean
      <4>4. a = x /\ b = y BY ONLY <4>3, CutLast
      <4> QED BY <4>2, <4>4
    <3>7. i = j - 1 /\ \A k \in 1..i : s[k] = t[k]
      <4>1. i <= m BY <1>1, <2>1
      <4> QED BY <1>9, <3>4, <3>6, <4>1
    <3>8. j = i + 1 BY <2>2, <3>7
    <3>9. \A k \in 1..(i + 1) : k \in 1..i \/ k = i + 1 OBVIOUS
    <3> QED BY <3>6, <3>7, <3>8, <3>9
  <2> QED BY <2>3, <2>4
<1>10. Same(m, n)
  <2>1. \A i \in Nat : i \in T
    <3> HIDE DEF T
    <3> QED BY <1>8, <1>9, SetInduction
  <2>2. m <= m /\ n \in 0..n BY <1>1
  <2>3. f[m] = g[n] BY <1>3, <1>4
  <2> HIDE DEF Same
  <2> QED BY <1>1, <2>1, <2>2, <2>3
<1>11. Len(s) = Len(t) /\ \A k \in 1..Len(s) : s[k] = t[k] BY <1>10 DEF m, n
<1> QED BY <1>2, <1>11, SeqEqual

\* A joined text is written in what the words are written in.
LEMMA JoinWritten ==
    ASSUME NEW A, "|" \in A, NEW list \in Seq(Seq(A))
    PROVE  Machine!Join(list) \in Seq(A)
<1>1. Len(list) \in 0..Len(list) OBVIOUS
<1> QED BY <1>1, JoinRuns

\* Six texts, each with the mark behind it.
Six(c, u, b, i, d, g, t) ==
    LET ended(x) == Cat(x, <<c>>)
    IN  Cat(Cat(Cat(Cat(Cat(ended(u), ended(b)), ended(i)), ended(d)), ended(g)), ended(t))

\* The same but for the last mark, told from both ends.
FromEnds(c, u, b, i, d, g, t) ==
    Around(Around(Around(u, c, Around(b, c, Around(i, c, d))), c, g), c, t)

\* The two are the same text.
Told(A, c, u, b, i, d, g, t) ==
    Six(c, u, b, i, d, g, t) = Cat(FromEnds(c, u, b, i, d, g, t), <<c>>)

\* Six texts with their marks can be told from both ends.
LEMMA SixFromEnds ==
    ASSUME NEW A, NEW c \in A, NEW u \in Seq(A), NEW b \in Seq(A), NEW i \in Seq(A),
           NEW d \in Seq(A), NEW g \in Seq(A), NEW t \in Seq(A)
    PROVE  Told(A, c, u, b, i, d, g, t)
<1> DEFINE m == <<c>>  U == Cat(u, m)  B == Cat(b, m)  I == Cat(i, m)
           id == Around(i, c, d)  bid == Around(b, c, id)  left == Around(u, c, bid)
           V == Cat(Cat(U, B), I)  lg == Around(left, c, g)
<1>1. m \in Seq(A) OBVIOUS
<1>2. \A p, q \in Seq(A) : Cat(p, q) \in Seq(A) BY CatProperties
<1>3. \A p, q, r \in Seq(A) : Cat(Cat(p, q), r) = Cat(p, Cat(q, r)) BY CatProperties
<1>4. \A p, q : Around(p, c, q) = Cat(Cat(p, m), q) BY DEF Around
<1>5. Six(c, u, b, i, d, g, t) = Cat(Cat(Cat(V, Cat(d, m)), Cat(g, m)), Cat(t, m)) BY DEF Six
<1> HIDE DEF m
<1>6. U \in Seq(A) /\ B \in Seq(A) /\ I \in Seq(A) BY <1>1, <1>2
<1>7. /\ id = Cat(I, d) /\ id \in Seq(A) /\ bid = Cat(B, id) /\ bid \in Seq(A)
      /\ left = Cat(U, bid) /\ left \in Seq(A)
      /\ lg = Cat(Cat(left, m), g) /\ lg \in Seq(A) /\ Cat(left, m) \in Seq(A)
  BY <1>1, <1>2, <1>4, <1>6
<1>8. V \in Seq(A) /\ Cat(U, B) \in Seq(A) BY <1>2, <1>6
<1>9. left = Cat(V, d)
  <2> HIDE DEF U, B, I, id, bid, left
  <2>1. Cat(V, d) = Cat(Cat(U, B), Cat(I, d)) BY <1>3, <1>6, <1>8
  <2>2. Cat(Cat(U, B), id) = Cat(U, Cat(B, id)) BY <1>3, <1>6, <1>7
  <2> QED BY <1>7, <2>1, <2>2
<1> HIDE DEF U, B, I, id, bid, left, V, lg
<1>10. Cat(V, Cat(d, m)) = Cat(left, m) BY <1>1, <1>3, <1>8, <1>9
<1>11. Cat(Cat(left, m), Cat(g, m)) = Cat(lg, m) BY <1>1, <1>3, <1>7
<1>12. Cat(lg, m) \in Seq(A) BY <1>1, <1>2, <1>7
<1>13. Cat(Cat(lg, m), Cat(t, m)) = Cat(Cat(Cat(lg, m), t), m) BY <1>1, <1>3, <1>12
<1>14. Six(c, u, b, i, d, g, t) = Cat(Around(lg, c, t), m)
  BY <1>4, <1>5, <1>10, <1>11, <1>13
<1> QED BY <1>14 DEF m, lg, left, bid, id, FromEnds, Told

\* Six texts are, one by one, six others.
SixAlike(A, c, u, b, i, d, g, t, u2, b2, i2, d2, g2, t2) ==
    u = u2 /\ b = b2 /\ i = i2 /\ d = d2 /\ g = g2 /\ t = t2

\* Nothing slides from one of six texts into the next if only the fourth may hold
\* the mark.
LEMMA SixApart ==
    ASSUME NEW A, NEW c \in A,
           NEW u \in Clean(A, c), NEW b \in Clean(A, c), NEW i \in Clean(A, c),
           NEW d \in Seq(A), NEW g \in Clean(A, c), NEW t \in Clean(A, c),
           NEW u2 \in Clean(A, c), NEW b2 \in Clean(A, c), NEW i2 \in Clean(A, c),
           NEW d2 \in Seq(A), NEW g2 \in Clean(A, c), NEW t2 \in Clean(A, c),
           Six(c, u, b, i, d, g, t) = Six(c, u2, b2, i2, d2, g2, t2)
    PROVE  SixAlike(A, c, u, b, i, d, g, t, u2, b2, i2, d2, g2, t2)
<1> DEFINE p == Around(i, c, d)  q == Around(b, c, p)  r == Around(u, c, q)
           s == Around(r, c, g)  w == Around(s, c, t)
           p2 == Around(i2, c, d2)  q2 == Around(b2, c, p2)  r2 == Around(u2, c, q2)
           s2 == Around(r2, c, g2)  w2 == Around(s2, c, t2)
<1>1. Clean(A, c) \subseteq Seq(A)
  <2>1. A \ {c} \subseteq A OBVIOUS
  <2> QED BY <2>1, SeqMonotonic DEF Clean
<1>2. /\ u \in Seq(A) /\ b \in Seq(A) /\ i \in Seq(A) /\ g \in Seq(A) /\ t \in Seq(A)
      /\ u2 \in Seq(A) /\ b2 \in Seq(A) /\ i2 \in Seq(A) /\ g2 \in Seq(A) /\ t2 \in Seq(A)
      /\ d \in Seq(A) /\ d2 \in Seq(A) /\ c \in A
  BY <1>1
<1>3. \A x, y \in Seq(A) : Around(x, c, y) \in Seq(A) BY AroundMark
<1>4. p \in Seq(A) /\ q \in Seq(A) /\ r \in Seq(A) /\ s \in Seq(A) /\ w \in Seq(A)
  BY <1>2, <1>3
<1>5. p2 \in Seq(A) /\ q2 \in Seq(A) /\ r2 \in Seq(A) /\ s2 \in Seq(A) /\ w2 \in Seq(A)
  BY <1>2, <1>3
<1>6. Cat(w, <<c>>) = Cat(w2, <<c>>)
  <2>1. w = FromEnds(c, u, b, i, d, g, t) /\ w2 = FromEnds(c, u2, b2, i2, d2, g2, t2)
    BY DEF FromEnds
  <2>2. Told(A, c, u, b, i, d, g, t)
    BY ONLY <1>2, SixFromEnds
  <2>3. Told(A, c, u2, b2, i2, d2, g2, t2)
    BY ONLY <1>2, SixFromEnds
  <2> HIDE DEF w, w2
  <2> QED BY <2>1, <2>2, <2>3 DEF Told
<1>7. ASSUME NEW x1 \in Seq(A), NEW x2 \in Seq(A), NEW y1 \in Clean(A, c), NEW y2 \in Clean(A, c),
             Around(x1, c, y1) = Around(x2, c, y2)
      PROVE  x1 = x2 /\ y1 = y2
  BY <1>7, CutLast
<1>8. ASSUME NEW x1 \in Clean(A, c), NEW x2 \in Clean(A, c), NEW y1 \in Seq(A), NEW y2 \in Seq(A),
             Around(x1, c, y1) = Around(x2, c, y2)
      PROVE  x1 = x2 /\ y1 = y2
  BY <1>8, CutFirst
<1> HIDE DEF w, w2
<1>9. w = w2
  <2>1. <<c>> \in Seq(A) OBVIOUS
  <2> QED BY <1>4, <1>5, <1>6, <2>1, ConcatSimplifications DEF Cat
<1>10. Around(s, c, t) = Around(s2, c, t2) BY <1>9 DEF w, w2
<1> HIDE DEF s, s2
<1>11. s = s2 /\ t = t2 BY <1>4, <1>5, <1>7, <1>10
<1>12. Around(r, c, g) = Around(r2, c, g2) BY <1>11 DEF s, s2
<1> HIDE DEF r, r2
<1>13. r = r2 /\ g = g2 BY <1>4, <1>5, <1>7, <1>12
<1>14. Around(u, c, q) = Around(u2, c, q2) BY <1>13 DEF r, r2
<1> HIDE DEF q, q2
<1>15. u = u2 /\ q = q2 BY <1>4, <1>5, <1>8, <1>14
<1>16. Around(b, c, p) = Around(b2, c, p2) BY <1>15 DEF q, q2
<1> HIDE DEF p, p2
<1>17. b = b2 /\ p = p2 BY <1>4, <1>5, <1>8, <1>16
<1>18. Around(i, c, d) = Around(i2, c, d2) BY <1>17 DEF p, p2
<1>19. i = i2 /\ d = d2 BY <1>2, <1>8, <1>18
<1> QED BY <1>11, <1>13, <1>15, <1>17, <1>19 DEF SixAlike

-----------------------------------------------------------------------------
\* A machine as the fingerprint sees it: texts without the separator.
IsMachine(m) ==
    /\ m.uuid \in Seq(Character) /\ m.board \in Seq(Character) /\ m.bios \in Seq(Character)
    /\ m.guid \in Seq(Character) /\ m.tpm \in Seq(Character)
    /\ m.disk \in [0..MaxDisk -> Seq(Character)]
    /\ m.extents \in Seq(0..MaxDisk)

\* The signal of the disks joins the serials that can be read, each a word.
LEMMA SignalOfDisks ==
    ASSUME NEW m, IsMachine(m)
    PROVE  /\ Machine!DiskSerials(m) \in Seq(Word(Normal))
           /\ Machine!serialSignal(m.extents, m.disk) = Machine!Join(Machine!DiskSerials(m))
<1> DEFINE S == Machine!Members(m.extents)
           say == [d \in 0..MaxDisk |-> Machine!normalizeHardwareValue(m.disk[d])]
           R == {d \in S : say[d] # <<>>}
           o == Machine!Ordered(S)  q == Machine!Ordered(R)
<1>1. S \in SUBSET (0..MaxDisk)
  <2>1. PICK list : list = m.extents OBVIOUS
  <2>2. list \in Seq(0..MaxDisk) BY <2>1 DEF IsMachine
  <2>3. \A i \in DOMAIN list : list[i] \in 0..MaxDisk
    <3>1. ASSUME NEW A, NEW s \in Seq(A) PROVE \A i \in DOMAIN s : s[i] \in A
      BY ElementOfSeq, LenProperties
    <3> QED BY <2>2, <3>1
  <2> QED BY <2>1, <2>3 DEF Machine!Members
<1>2. say \in [0..MaxDisk -> Seq(Normal \ {"|"})]
  <2>1. \A d \in 0..MaxDisk : m.disk[d] \in Seq(Character) BY DEF IsMachine
  <2> QED BY <2>1, Normalised
<1>3. R \in SUBSET (0..MaxDisk) BY <1>1
<1>4. R = Machine!Readable(m)
  <2>1. \A d \in S : say[d] = Machine!Said(m.disk[d]) BY <1>1 DEF Machine!Said
  <2> QED BY <2>1 DEF Machine!Readable
<1>5. DOMAIN o = 1..Cardinality(S) /\ \A i \in DOMAIN o : o[i] \in 0..MaxDisk
  <2> HIDE DEF S
  <2> QED BY <1>1, OrderedIs
<1>6. /\ Cardinality(R) \in Nat
      /\ DOMAIN q = 1..Cardinality(R) /\ \A i \in DOMAIN q : q[i] \in R
  <2> HIDE DEF R
  <2> QED BY <1>3, OrderedIs
<1>7. Machine!DiskSerials(m) = [i \in DOMAIN q |-> say[q[i]]]
  <2>1. \A i \in DOMAIN q : say[q[i]] = Machine!Said(m.disk[q[i]])
    BY <1>3, <1>6 DEF Machine!Said
  <2>2. q = Machine!Ordered(Machine!Readable(m)) BY <1>4
  <2> QED BY <2>1, <2>2 DEF Machine!DiskSerials
<1>8. Machine!DiskSerials(m) \in Seq(Word(Normal))
  <2>1. \A i \in 1..Cardinality(R) : say[q[i]] \in Word(Normal)
    BY <1>1, <1>2, <1>6 DEF Word
  <2> HIDE DEF say, q, R
  <2>2. [i \in 1..Cardinality(R) |-> say[q[i]]] \in Seq(Word(Normal)) BY <1>6, <2>1
  <2> QED BY <1>6, <1>7, <2>2
<1>9. Machine!serialSignal(m.extents, m.disk)
      = Machine!Join(Machine!Without([i \in DOMAIN o |-> say[o[i]]], {<<>>}))
  <2>1. \A i \in DOMAIN o : say[o[i]] = Machine!normalizeHardwareValue(m.disk[o[i]]) BY <1>5
  <2>2. [i \in DOMAIN o |-> say[o[i]]]
        = [i \in DOMAIN o |-> Machine!normalizeHardwareValue(m.disk[o[i]])]
    BY <2>1
  <2> QED BY <2>2 DEF Machine!serialSignal
<1>10. Machine!Without([i \in DOMAIN o |-> say[o[i]]], {<<>>}) = [i \in DOMAIN q |-> say[q[i]]]
  <2> HIDE DEF S, say
  <2>1. DropsUnread(S, Seq(Normal \ {"|"}), say) BY <1>1, <1>2, SerialsOfReadable
  <2> QED BY <2>1 DEF DropsUnread, Spoken
<1> QED BY <1>7, <1>8, <1>9, <1>10

\* The signals of a machine with d for those of its disks.
Whole(m, d) ==
    Six("|", Machine!Said(m.uuid), Machine!Said(m.board), Machine!Said(m.bios), d,
        Machine!Said(m.guid), Machine!Said(m.tpm))

\* What generate hashes for a machine is its six signals, the separator behind
\* each.
LEMMA GeneratedFrom ==
    ASSUME NEW m, IsMachine(m)
    PROVE  /\ Machine!generate(Machine!collect(m))
              = Whole(m, Machine!Join(Machine!DiskSerials(m)))
           /\ Machine!Join(Machine!DiskSerials(m)) \in Seq(Normal)
<1> DEFINE d == Machine!Join(Machine!DiskSerials(m))
<1>1. "|" \in Normal BY Normalised
<1>2. Machine!DiskSerials(m) \in Seq(Seq(Normal))
  <2>1. Normal \ {"|"} \subseteq Normal OBVIOUS
  <2>2. Word(Normal) \subseteq Seq(Normal) BY <2>1, SeqMonotonic DEF Word
  <2> QED BY <2>2, SignalOfDisks, SeqMonotonic
<1>3. d \in Seq(Normal) BY <1>1, <1>2, JoinWritten
<1>4. Machine!normalizeHardwareValue(d) = d BY <1>3, Normalised
<1>5. Machine!serialSignal(m.extents, m.disk) = d BY SignalOfDisks
<1>6. Machine!append(d) = Cat(d, <<"|">>) BY <1>4 DEF Machine!append, Cat
<1> HIDE DEF d
<1>7. \A v : Machine!append(v) = Cat(Machine!Said(v), <<"|">>)
  BY DEF Machine!append, Machine!Said, Cat
<1>8. LET e(v) == Machine!append(v)
      IN  Machine!generate(Machine!collect(m))
          = Cat(Cat(Cat(Cat(Cat(e(m.uuid), e(m.board)), e(m.bios)), e(d)), e(m.guid)), e(m.tpm))
  BY <1>5 DEF Machine!generate, Machine!collect, Cat
<1>9. Machine!generate(Machine!collect(m)) = Whole(m, d)
  BY <1>6, <1>7, <1>8 DEF Whole, Six
<1> QED BY <1>3, <1>9 DEF d

\* Equal fingerprints are those of equal signals.
LEMMA FingerprintTells ==
    ASSUME NEW m, NEW n, IsMachine(m), IsMachine(n)
    PROVE  Machine!generate(Machine!collect(m)) = Machine!generate(Machine!collect(n)) <=>
           /\ Machine!Signals(m) = Machine!Signals(n)
           /\ Machine!DiskSerials(m) = Machine!DiskSerials(n)
<1> DEFINE d == Machine!Join(Machine!DiskSerials(m))  e == Machine!Join(Machine!DiskSerials(n))
           Alike == /\ Machine!Said(m.uuid) = Machine!Said(n.uuid)
                    /\ Machine!Said(m.board) = Machine!Said(n.board)
                    /\ Machine!Said(m.bios) = Machine!Said(n.bios)
                    /\ Machine!Said(m.guid) = Machine!Said(n.guid)
                    /\ Machine!Said(m.tpm) = Machine!Said(n.tpm)
<1>1. "|" \in Normal BY Normalised
<1>2. Machine!Signals(m) = Machine!Signals(n) <=> Alike BY DEF Machine!Signals
<1>3. /\ Machine!generate(Machine!collect(m)) = Whole(m, d) /\ d \in Seq(Normal)
      /\ Machine!generate(Machine!collect(n)) = Whole(n, e) /\ e \in Seq(Normal)
  BY GeneratedFrom
<1>4. ASSUME NEW v \in Seq(Character) PROVE Machine!Said(v) \in Clean(Normal, "|")
  BY Normalised DEF Machine!Said, Clean
<1>5. ASSUME Whole(m, d) = Whole(n, e) PROVE Alike /\ d = e
  <2>1. PICK c : c = "|" OBVIOUS
  <2>2. /\ Machine!Said(m.uuid) \in Clean(Normal, c) /\ Machine!Said(n.uuid) \in Clean(Normal, c)
        /\ Machine!Said(m.board) \in Clean(Normal, c)
        /\ Machine!Said(n.board) \in Clean(Normal, c)
        /\ Machine!Said(m.bios) \in Clean(Normal, c) /\ Machine!Said(n.bios) \in Clean(Normal, c)
        /\ Machine!Said(m.guid) \in Clean(Normal, c) /\ Machine!Said(n.guid) \in Clean(Normal, c)
        /\ Machine!Said(m.tpm) \in Clean(Normal, c) /\ Machine!Said(n.tpm) \in Clean(Normal, c)
    BY <1>4, <2>1 DEF IsMachine
  <2>3. Six(c, Machine!Said(m.uuid), Machine!Said(m.board), Machine!Said(m.bios), d,
            Machine!Said(m.guid), Machine!Said(m.tpm))
        = Six(c, Machine!Said(n.uuid), Machine!Said(n.board), Machine!Said(n.bios), e,
              Machine!Said(n.guid), Machine!Said(n.tpm))
    BY <1>5, <2>1 DEF Whole
  <2>4. c \in Normal /\ d \in Seq(Normal) /\ e \in Seq(Normal) BY <1>1, <1>3, <2>1
  <2> HIDE DEF d, e
  <2>5. SixAlike(Normal, c, Machine!Said(m.uuid), Machine!Said(m.board), Machine!Said(m.bios), d,
                 Machine!Said(m.guid), Machine!Said(m.tpm),
                 Machine!Said(n.uuid), Machine!Said(n.board), Machine!Said(n.bios), e,
                 Machine!Said(n.guid), Machine!Said(n.tpm))
    BY ONLY <2>2, <2>3, <2>4, SixApart
  <2> QED BY <2>5 DEF SixAlike
<1>6. d = e => Machine!DiskSerials(m) = Machine!DiskSerials(n)
  BY <1>1, SignalOfDisks, JoinOnce
<1>7. ASSUME Alike, Machine!DiskSerials(m) = Machine!DiskSerials(n)
      PROVE  Whole(m, d) = Whole(n, e)
  BY <1>7 DEF Whole
<1> HIDE DEF d, e, Alike
<1> QED BY <1>2, <1>3, <1>5, <1>6, <1>7 DEF d, e

\* A machine of Fingerprint is one.
LEMMA MachinesAre ==
    ASSUME NEW V, V \subseteq Seq(Character), NEW m \in Machine!Machine(V)
    PROVE  IsMachine(m)
<1>1. Serial \subseteq Seq(Character) /\ DiskLists \subseteq Seq(0..MaxDisk)
  BY FingerprintAssumption
<1>2. m.disk \in [0..MaxDisk -> Serial] /\ m.extents \in DiskLists BY DEF Machine!Machine
<1>3. m.disk \in [0..MaxDisk -> Seq(Character)] BY <1>1, <1>2
<1> QED BY <1>1, <1>2, <1>3 DEF IsMachine, Machine!Machine

\* Two collections have the same fingerprint exactly when they agree in every
\* signal and on the serials that could be read, for signals and serials of any
\* length and any number of disks and extents.
THEOREM SameFingerprintSameMachineHolds == PartsSpec => []SameFingerprintSameMachine
<1> DEFINE Inv == part = "fingerprint" => IsMachine(one) /\ IsMachine(other)
<1>1. PartsInit => Inv
  <2> SUFFICES ASSUME PartsInit, part = "fingerprint" PROVE IsMachine(one) /\ IsMachine(other)
    OBVIOUS
  <2>1. Machine!Init BY PartBeginning
  <2>2. FirstText \subseteq Seq(Character) BY FingerprintAssumption
  <2> QED BY <2>1, <2>2, MachinesAre DEF Machine!Init
<1>2. Inv /\ [PartsNext]_partsVars => Inv'
  <2> SUFFICES ASSUME Inv, [PartsNext]_partsVars, part' = "fingerprint"
               PROVE  IsMachine(one') /\ IsMachine(other')
    BY DEF IsMachine
  <2>1. part = "fingerprint" /\ [Machine!Next]_(Machine!vars) BY PartStep
  <2>2. CASE Machine!Next
    <3>1. LaterText \subseteq Seq(Character) BY FingerprintAssumption
    <3> QED BY <2>1, <2>2, <3>1, MachinesAre DEF Machine!Next
  <2>3. CASE UNCHANGED Machine!vars BY <2>1, <2>3 DEF Machine!vars
  <2> QED BY <2>1, <2>2, <2>3
<1>3. Inv => SameFingerprintSameMachine
  BY FingerprintTells DEF SameFingerprintSameMachine, Machine!SameFingerprintSameMachine
<1> QED BY <1>1, <1>2, <1>3, PTL DEF PartsSpec

-----------------------------------------------------------------------------
(* SmbiosParser: tables of any length and any layout of the records.  The  *)
(* strings are counted on both sides (StringFound); the outer loop carries *)
(* the set of records it has seen, which at its end is the chain.          *)

\* Least gives the least number of a set that has one.
LEMMA LeastIs ==
    ASSUME NEW T, T \subseteq Nat, T # {}
    PROVE  Smbios!Least(T) \in T /\ \A y \in T : Smbios!Least(T) <= y
BY LeastNumber DEF Smbios!Least

\* Two zero bytes at an offset.
Pair(t, o) == Smbios!byteAt(t, o) = 0 /\ Smbios!byteAt(t, o + 1) = 0

\* e is the first of the pairs behind start, or there is none.
FirstPair(t, start, e) ==
    \/ e = -1 /\ \A o \in start..(Len(t) - 2) : ~Pair(t, o)
    \/ /\ e \in start..(Len(t) - 2) /\ e \in Nat /\ Pair(t, e)
       /\ \A o \in start..(Len(t) - 2) : Pair(t, o) => e <= o

\* findStringSetEnd finds it.
LEMMA SetEnd ==
    ASSUME NEW t \in Seq(Nat), NEW start \in Nat
    PROVE  FirstPair(t, start, Smbios!findStringSetEnd(t, start))
<1> DEFINE T == {o \in start..(Len(t) - 2) : Pair(t, o)}
<1>1. Len(t) \in Nat OBVIOUS
<1>2. Smbios!findStringSetEnd(t, start) = IF T = {} THEN -1 ELSE Smbios!Least(T)
  BY DEF Smbios!findStringSetEnd, Smbios!Size, Smbios!None, Pair
<1>3. CASE T = {} BY <1>2, <1>3 DEF FirstPair
<1>4. CASE T # {}
  <2>1. T \subseteq Nat BY <1>1
  <2>2. Smbios!Least(T) \in T /\ \A y \in T : Smbios!Least(T) <= y
    <3> HIDE DEF T
    <3> QED BY <1>4, <2>1, LeastIs
  <2> QED BY <1>2, <1>4, <2>1, <2>2 DEF FirstPair
<1> QED BY <1>3, <1>4

\* The records there are.
Records(t) == {r \in [from : 0..Len(t), to : 0..Len(t)] : Smbios!IsRecord(t, r)}

\* Where the record at an offset ends, what a turn of the loop asks of it, and the
\* record.
EndAt(t, a) == Smbios!findStringSetEnd(t, a + Smbios!byteAt(t, a + 1))
Fits(t, a) ==
    /\ a + RecordHeader <= Len(t)
    /\ Smbios!byteAt(t, a + 1) >= RecordHeader /\ Smbios!byteAt(t, a + 1) <= Len(t) - a
    /\ EndAt(t, a) # -1
RecordAt(t, a) == [from |-> a, to |-> EndAt(t, a) + 2]

\* Where there is room for a header its bytes are numbers.
LEMMA HeaderBytes ==
    ASSUME NEW t \in Seq(Nat), NEW a \in Nat, a + RecordHeader <= Len(t)
    PROVE  Smbios!byteAt(t, a) \in Nat /\ Smbios!byteAt(t, a + 1) \in Nat
<1>1. Len(t) \in Nat /\ \A i \in 1..Len(t) : t[i] \in Nat OBVIOUS
<1>2. a + 1 \in 1..Len(t) /\ a + 1 + 1 \in 1..Len(t) BY <1>1, SmbiosAssumption
<1> QED BY <1>1, <1>2 DEF Smbios!byteAt

\* A turn takes the record at its offset, if there is one, and it is the only one
\* there.
LEMMA RecordFound ==
    ASSUME NEW t \in Seq(Nat), NEW a \in Nat
    PROVE  /\ Fits(t, a) => /\ RecordAt(t, a) \in Records(t)
                            /\ EndAt(t, a) \in Nat /\ EndAt(t, a) + 2 <= Len(t)
                            /\ a + Smbios!byteAt(t, a + 1) <= EndAt(t, a)
           /\ \A r \in Records(t) : r.from = a => Fits(t, a) /\ r = RecordAt(t, a)
<1> DEFINE N == Len(t)  l == Smbios!byteAt(t, a + 1)  e == EndAt(t, a)
<1>1. N \in Nat OBVIOUS
<1>2. a + RecordHeader <= N => l \in Nat /\ FirstPair(t, a + l, e)
  <2> SUFFICES ASSUME a + RecordHeader <= N PROVE l \in Nat /\ FirstPair(t, a + l, e)
    OBVIOUS
  <2>1. l \in Nat BY HeaderBytes
  <2>2. a + l \in Nat BY <2>1
  <2> QED BY <2>1, <2>2, SetEnd DEF EndAt
<1>3. ASSUME Fits(t, a)
      PROVE  /\ RecordAt(t, a) \in Records(t) /\ e \in Nat /\ e + 2 <= N /\ a + l <= e
  <2>1. /\ l \in Nat /\ e \in (a + l)..(N - 2) /\ e \in Nat /\ Pair(t, e)
        /\ \A o \in (a + l)..(N - 2) : Pair(t, o) => e <= o
    BY <1>2, <1>3 DEF Fits, FirstPair
  <2> HIDE DEF l, e, N
  <2>2. e + 2 \in 0..N /\ a \in 0..N /\ a + l <= e BY <1>1, <1>3, <2>1 DEF Fits, N
  <2>3. RecordAt(t, a) = [from |-> a, to |-> e + 2] BY DEF RecordAt, e
  <2>4. e + 2 - 1 = e + 1 /\ e + 2 - 2 = e /\ e + 2 - 3 = e - 1 BY <2>1
  <2>5. \A o \in (a + l)..(e - 1) : ~Pair(t, o)
    <3> SUFFICES ASSUME NEW o \in (a + l)..(e - 1), Pair(t, o) PROVE FALSE OBVIOUS
    <3>1. o \in (a + l)..(N - 2) BY <1>1, <2>1
    <3> QED BY <2>1, <3>1
  <2>6. Smbios!IsRecord(t, [from |-> a, to |-> e + 2])
    <3>1. l >= RecordHeader /\ a + RecordHeader <= N BY <1>3 DEF Fits, l, N
    <3>2. a + l + 2 <= e + 2 BY <2>1, <2>2
    <3> QED BY <2>1, <2>4, <2>5, <3>1, <3>2 DEF Smbios!IsRecord, Smbios!Size, Pair, l, N
  <2> QED BY <2>1, <2>2, <2>3, <2>6 DEF Records, N, l
<1>4. ASSUME NEW r \in Records(t), r.from = a PROVE Fits(t, a) /\ r = RecordAt(t, a)
  <2>1. r = [from |-> a, to |-> r.to] /\ r.to \in 0..N /\ Smbios!IsRecord(t, r)
    BY <1>4 DEF Records
  <2>2. PICK z : z = r.to OBVIOUS
  <2>3. /\ a + RecordHeader <= N /\ l >= RecordHeader /\ a + l + 2 <= z
        /\ Smbios!byteAt(t, z - 1) = 0 /\ Smbios!byteAt(t, z - 2) = 0
        /\ \A o \in (a + l)..(z - 3) : ~Pair(t, o)
    BY <1>4, <2>1, <2>2 DEF Smbios!IsRecord, Smbios!Size, Pair
  <2>4. l \in Nat /\ FirstPair(t, a + l, e) BY <1>2, <2>3
  <2> HIDE DEF l, e, N
  <2>5. z \in 0..N /\ z - 2 \in (a + l)..(N - 2) /\ z - 2 + 1 = z - 1
    BY <1>1, <2>1, <2>2, <2>3, <2>4
  <2>6. Pair(t, z - 2) BY <2>3, <2>5 DEF Pair
  <2>7. /\ e \in (a + l)..(N - 2) /\ e \in Nat /\ Pair(t, e) /\ e <= z - 2
    BY <2>4, <2>5, <2>6 DEF FirstPair, N
  <2>8. ~(e <= z - 3)
    <3>1. e <= z - 3 => e \in (a + l)..(z - 3) BY <2>4, <2>5, <2>7
    <3> QED BY <2>3, <2>7, <3>1
  <2>9. e = z - 2 BY <2>5, <2>7, <2>8
  <2>10. e # -1 /\ l <= N - a /\ z = e + 2 BY <1>1, <2>3, <2>4, <2>5, <2>7, <2>9
  <2> QED BY <2>1, <2>2, <2>3, <2>10 DEF Fits, RecordAt, l, N, e
<1> QED BY <1>3, <1>4

\* Of records in order the last one is the one that was added last.
LEMMA LastAdded ==
    ASSUME NEW V, NEW r, r.from \in Nat, \A q \in V : q.from \in Nat /\ q.from < r.from
    PROVE  Smbios!LastOf(V \cup {r}) = r
<1>1. \A q \in V \cup {r} : q.from <= r.from OBVIOUS
<1>2. \A x \in V \cup {r} : (\A q \in V \cup {r} : q.from <= x.from) => x = r OBVIOUS
<1> QED BY <1>1, <1>2 DEF Smbios!LastOf

\* What the table says changes with the record that is added, if it is of the kind.
Adds(t, V, r) ==
    /\ Smbios!SystemUuid(t, V \cup {r}) =
          IF Smbios!byteAt(t, r.from) = 1
          THEN Smbios!formatUuid(Smbios!Text(t, r.from, r.from + Smbios!byteAt(t, r.from + 1)))
          ELSE Smbios!SystemUuid(t, V)
    /\ Smbios!MotherboardSerial(t, V \cup {r}) =
          IF Smbios!byteAt(t, r.from) = 2 /\ Smbios!byteAt(t, r.from + 1) > SerialAt
          THEN Smbios!RecordString(t, r, Smbios!byteAt(t, r.from + SerialAt))
          ELSE Smbios!MotherboardSerial(t, V)

\* A record that lies behind all others does so.
LEMMA OneMore ==
    ASSUME NEW t, NEW V, NEW r, r.from \in Nat, \A q \in V : q.from \in Nat /\ q.from < r.from
    PROVE  Adds(t, V, r)
<1> USE DEF Adds
<1> DEFINE A(W) == {q \in W : Smbios!byteAt(t, q.from) = 1}
           B(W) == {q \in W : /\ Smbios!byteAt(t, q.from) = 2
                              /\ Smbios!byteAt(t, q.from + 1) > SerialAt}
<1>1. ASSUME NEW W, W \subseteq V PROVE Smbios!LastOf(W \cup {r}) = r
  BY <1>1, LastAdded
<1>2. CASE Smbios!byteAt(t, r.from) = 1
  <2>1. A(V \cup {r}) = A(V) \cup {r} BY <1>2
  <2>2. Smbios!LastOf(A(V \cup {r})) = r BY <1>1, <2>1
  <2>3. A(V \cup {r}) # {} BY <2>1
  <2>4. Smbios!SystemUuid(t, V \cup {r})
        = Smbios!formatUuid(Smbios!Text(t, r.from, r.from + Smbios!byteAt(t, r.from + 1)))
    BY <2>2, <2>3 DEF Smbios!SystemUuid
  <2>5. B(V \cup {r}) = B(V) BY <1>2
  <2>6. Smbios!MotherboardSerial(t, V \cup {r}) = Smbios!MotherboardSerial(t, V)
    BY <2>5 DEF Smbios!MotherboardSerial
  <2>7. Smbios!byteAt(t, r.from) # 2 BY <1>2
  <2> QED BY <1>2, <2>4, <2>6, <2>7
<1>3. CASE Smbios!byteAt(t, r.from) # 1
  <2>1. A(V \cup {r}) = A(V) BY <1>3
  <2>2. Smbios!SystemUuid(t, V \cup {r}) = Smbios!SystemUuid(t, V)
    BY <2>1 DEF Smbios!SystemUuid
  <2>3. CASE r \in B({r})
    <3>1. B(V \cup {r}) = B(V) \cup {r} BY <2>3
    <3>2. Smbios!LastOf(B(V \cup {r})) = r BY <1>1, <3>1
    <3>3. B(V \cup {r}) # {} BY <3>1
    <3>4. Smbios!MotherboardSerial(t, V \cup {r})
          = Smbios!RecordString(t, r, Smbios!byteAt(t, r.from + SerialAt))
      BY <3>2, <3>3 DEF Smbios!MotherboardSerial
    <3> QED BY <1>3, <2>2, <2>3, <3>4
  <2>4. CASE r \notin B({r})
    <3>1. B(V \cup {r}) = B(V) BY <2>4
    <3> QED BY <1>3, <2>2, <2>4, <3>1 DEF Smbios!MotherboardSerial
  <2> QED BY <2>3, <2>4
<1> QED BY <1>2, <1>3

-----------------------------------------------------------------------------
\* Where strings start between start and last.
Starts(t, start, last) ==
    {start} \cup {o + 1 : o \in {z \in start..(last - 1) : Smbios!byteAt(t, z) = 0}}

\* The string starts up to an offset, counted.
Up(t, start, last, o) == {p \in Starts(t, start, last) : p <= o}

\* There are finitely many of them, and more with each start.
LEMMA StartsCounted ==
    ASSUME NEW t, NEW start \in Nat, NEW last \in Nat
    PROVE  /\ Starts(t, start, last) \subseteq Nat
           /\ IsFiniteSet(Starts(t, start, last))
           /\ Cardinality(Starts(t, start, last)) \in Nat
           /\ \A o : /\ IsFiniteSet(Up(t, start, last, o))
                     /\ Cardinality(Up(t, start, last, o)) \in Nat
                     /\ Cardinality(Up(t, start, last, o))
                           <= Cardinality(Starts(t, start, last))
<1> DEFINE T == Starts(t, start, last)
<1>1. T \subseteq Nat BY DEF Starts
<1>2. IsFiniteSet(T)
  <2>1. T \subseteq start..(start + last + 1) BY DEF Starts
  <2>2. IsFiniteSet(start..(start + last + 1)) BY FS_Interval
  <2> QED BY <2>1, <2>2, FS_Subset
<1>3. \A o : Up(t, start, last, o) \subseteq T BY DEF Up
<1> HIDE DEF T
<1>4. Cardinality(T) \in Nat BY <1>2, FS_CardinalityType
<1>5. ASSUME NEW o PROVE /\ IsFiniteSet(Up(t, start, last, o))
                         /\ Cardinality(Up(t, start, last, o)) \in Nat
                         /\ Cardinality(Up(t, start, last, o)) <= Cardinality(T)
  BY <1>2, <1>3, FS_Subset, FS_CardinalityType
<1> QED BY <1>1, <1>2, <1>4, <1>5 DEF T

\* The end of a string when a zero byte ends the last one: the first zero byte.
LEMMA StringEnds ==
    ASSUME NEW t, NEW last \in Nat, Smbios!byteAt(t, last) = 0,
           NEW from \in Nat, from <= last
    PROVE  LET to == Smbios!StringEnd(t, from, last)
           IN  /\ to \in from..last /\ Smbios!byteAt(t, to) = 0
               /\ \A o \in from..(to - 1) : Smbios!byteAt(t, o) # 0
               /\ to = Smbios!Least({o \in from..last : Smbios!byteAt(t, o) = 0})
<1> DEFINE Z == {o \in from..last : Smbios!byteAt(t, o) = 0}
           to == Smbios!StringEnd(t, from, last)  least == Smbios!Least(Z)
<1>1. Z \subseteq Nat /\ last \in Z OBVIOUS
<1>2. least \in Z /\ \A y \in Z : least <= y
  <2> HIDE DEF Z
  <2> QED BY <1>1, LeastIs
<1>3. /\ to \in Z \cup {last + 1} /\ \A y \in Z \cup {last + 1} : to <= y
  <2>1. Z \cup {last + 1} \subseteq Nat /\ Z \cup {last + 1} # {} BY <1>1
  <2>2. to = Smbios!Least(Z \cup {last + 1}) BY DEF Smbios!StringEnd
  <2> HIDE DEF Z
  <2> QED BY <2>1, <2>2, LeastIs
<1> HIDE DEF to, least
<1>4. to = least BY <1>1, <1>2, <1>3
<1>5. to \in from..last /\ Smbios!byteAt(t, to) = 0 BY <1>2, <1>4
<1>6. ASSUME NEW o \in from..(to - 1), Smbios!byteAt(t, o) = 0 PROVE FALSE
  <2>1. o \in Z BY <1>5, <1>6
  <2> QED BY <1>2, <1>4, <1>5, <2>1
<1> QED BY <1>4, <1>5, <1>6 DEF to, least

\* Where the next string starts.
NextStart(t, last, x) == IF x > last THEN x ELSE Smbios!StringEnd(t, x, last) + 1

\* The run of the loop of smbiosString.
StringRun(f, t, start, last, n) ==
    f[0] = start /\ \A k \in 1..n : f[k] = NextStart(t, last, f[k - 1])

\* smbiosString returns the string its run ends at, if it ends at one.
StringLoops(t, start, last, n) ==
    \E f \in [0..n -> Nat] :
        /\ StringRun(f, t, start, last, n)
        /\ Smbios!smbiosString(t, start, last, n + 1) =
              IF f[n] > last THEN <<>>
              ELSE Smbios!Text(t, f[n], Smbios!StringEnd(t, f[n], last))

\* smbiosString has a run for every number it is asked for.
LEMMA StringRuns ==
    ASSUME NEW t, NEW start \in Nat, NEW last \in Nat, Smbios!byteAt(t, last) = 0, NEW n \in Nat
    PROVE  StringLoops(t, start, last, n)
<1> DEFINE turn == [i \in 1..n |-> [x \in Nat |-> NextStart(t, last, x)]]
           Rule(f) == f = [k \in 0..n |-> IF k = 0 THEN start
                              ELSE NextStart(t, last, f[k - 1])]
           run == CHOOSE f : Rule(f)
<1>1. \A x \in Nat : NextStart(t, last, x) \in Nat
  <2> SUFFICES ASSUME NEW x \in Nat PROVE NextStart(t, last, x) \in Nat OBVIOUS
  <2>1. CASE x > last BY <2>1 DEF NextStart
  <2>2. CASE x <= last
    <3>1. Smbios!StringEnd(t, x, last) \in x..last BY <2>2, StringEnds
    <3> QED BY <2>2, <3>1 DEF NextStart
  <2> QED BY <2>1, <2>2
<1>2. turn \in [1..n -> [Nat -> Nat]] BY <1>1
<1>3. \A i \in 1..n, x \in Nat : turn[i][x] = NextStart(t, last, x) OBVIOUS
<1>4. Smbios!smbiosString(t, start, last, n + 1) =
         IF run[n] > last THEN <<>>
         ELSE Smbios!Text(t, run[n], Smbios!StringEnd(t, run[n], last))
  <2>1. n + 1 # 0 /\ (n + 1) - 1 = n OBVIOUS
  <2> QED BY <2>1 DEF Smbios!smbiosString, Smbios!Nothing, NextStart
<1> HIDE DEF turn
<1>5. PICK f \in [0..n -> Nat] : f[0] = start /\ \A i \in 1..n : f[i] = turn[i][f[i - 1]]
  <2>1. \E f : Unrolls(f, Nat, start, n, turn) BY <1>2, Unrolled, Zenon
  <2> QED BY <2>1 DEF Unrolls
<1>6. Rule(f)
  <2>1. \A i \in 1..n : i # 0 /\ i - 1 \in 0..n /\ f[i - 1] \in Nat OBVIOUS
  <2>2. \A i \in 1..n : f[i] = NextStart(t, last, f[i - 1]) BY <1>3, <1>5, <2>1
  <2>3. \A i \in 0..n : i = 0 \/ i \in 1..n OBVIOUS
  <2>4. \A i \in 0..n : f[i] = IF i = 0 THEN start ELSE NextStart(t, last, f[i - 1])
    BY <1>5, <2>2, <2>3
  <2>5. f = [i \in 0..n |-> f[i]] OBVIOUS
  <2> QED BY <2>4, <2>5
<1>7. Rule(run)
  <2> HIDE DEF Rule
  <2> QED BY <1>6
<1> HIDE DEF run
<1>8. run[0] = start /\ \A k \in 1..n : run[k] = NextStart(t, last, run[k - 1])
  <2>1. 0 \in 0..n /\ \A k \in 1..n : k \in 0..n /\ k # 0 OBVIOUS
  <2>2. \A k \in 0..n : run[k] = IF k = 0 THEN start ELSE NextStart(t, last, run[k - 1])
    BY <1>7
  <2> QED BY <2>1, <2>2
<1>9. \A k \in 0..n : run[k] \in Nat
  <2> DEFINE T == {k \in Nat : k <= n => run[k] \in Nat}
  <2>1. 0 \in T BY <1>8
  <2>2. ASSUME NEW k \in Nat, k \in T PROVE k + 1 \in T
    <3> SUFFICES ASSUME k + 1 <= n PROVE run[k + 1] \in Nat OBVIOUS
    <3>1. run[k] \in Nat /\ k + 1 \in 1..n /\ (k + 1) - 1 = k BY <2>2
    <3>2. run[k + 1] = NextStart(t, last, run[k]) BY <1>8, <3>1
    <3> QED BY <1>1, <3>1, <3>2
  <2>3. \A k \in Nat : k \in T
    <3> HIDE DEF T
    <3> QED BY <2>1, <2>2, SetInduction
  <2> QED BY <2>3
<1>10. run \in [0..n -> Nat]
  <2>1. run = [k \in 0..n |-> run[k]] BY <1>7
  <2> QED BY <1>9, <2>1
<1> QED BY <1>4, <1>8, <1>10 DEF StringRun, StringLoops

\* After k strings the loop stands at the start with k others before it, or there
\* are not that many.
Standing(t, start, last, k, x) ==
    \/ /\ x <= last /\ x \in Starts(t, start, last)
       /\ Cardinality(Up(t, start, last, x)) = k + 1
    \/ x > last /\ Cardinality(Starts(t, start, last)) <= k

\* The run counts the starts.
LEMMA StringsCounted ==
    ASSUME NEW t, NEW start \in Nat, NEW last \in Nat, start <= last,
           Smbios!byteAt(t, last) = 0, NEW n \in Nat,
           NEW f \in [0..n -> Nat], StringRun(f, t, start, last, n)
    PROVE  Standing(t, start, last, n, f[n])
<1> DEFINE Is(k) == Standing(t, start, last, k, f[k])
           T == {k \in Nat : k <= n => Is(k)}
           C == Starts(t, start, last)
           U(o) == Up(t, start, last, o)
<1>1. f[0] = start /\ \A k \in 1..n : f[k] = NextStart(t, last, f[k - 1]) BY DEF StringRun
<1>2. /\ C \subseteq Nat /\ IsFiniteSet(C) /\ Cardinality(C) \in Nat
      /\ \A o : IsFiniteSet(U(o)) /\ Cardinality(U(o)) \in Nat
  BY StartsCounted
<1>3. \A p : p \in C <=> \/ p = start
                         \/ \E z \in start..(last - 1) : Smbios!byteAt(t, z) = 0 /\ p = z + 1
  BY DEF Starts
<1>4. \A o, p : p \in U(o) <=> p \in C /\ p <= o BY DEF Up
<1> HIDE DEF C, U
<1>5. 0 \in T
  <2>1. U(start) = {start}
    <3>1. \A p \in C : start <= p BY <1>3
    <3>2. start \in C BY <1>3
    <3>3. ASSUME NEW p \in U(start) PROVE p = start
      <4>1. p \in C /\ p <= start BY <1>4, <3>3
      <4>2. p \in Nat /\ start <= p BY <1>2, <3>1, <4>1
      <4> QED BY <4>1, <4>2
    <3>4. start \in U(start) BY <1>4, <3>2
    <3> QED BY <3>3, <3>4
  <2>2. Cardinality(U(start)) = 1 BY <2>1, FS_Singleton
  <2> QED BY <1>1, <1>3, <2>2 DEF Standing, C, U
<1>6. ASSUME NEW k \in Nat, k \in T PROVE k + 1 \in T
  <2> SUFFICES ASSUME k + 1 <= n PROVE Is(k + 1) OBVIOUS
  <2>1. Is(k) /\ f[k] \in Nat /\ f[k + 1] = NextStart(t, last, f[k])
    <3>1. k + 1 \in 1..n /\ (k + 1) - 1 = k /\ k \in 0..n OBVIOUS
    <3> QED BY <1>1, <1>6, <3>1
  <2>2. CASE f[k] > last
    <3>1. Cardinality(C) <= k BY <2>1, <2>2 DEF Standing, C
    <3>2. Cardinality(C) <= k + 1 BY <1>2, <3>1
    <3> QED BY <2>1, <2>2, <3>2 DEF Standing, NextStart, C
  <2>3. CASE f[k] <= last
    <3> DEFINE x == f[k]  to == Smbios!StringEnd(t, x, last)
    <3>1. x \in C /\ Cardinality(U(x)) = k + 1 BY <2>1, <2>3 DEF Standing, C, U
    <3>2. /\ to \in x..last /\ Smbios!byteAt(t, to) = 0
          /\ \A o \in x..(to - 1) : Smbios!byteAt(t, o) # 0
      BY <2>1, <2>3, StringEnds
    <3>3. f[k + 1] = to + 1 BY <2>1, <2>3 DEF NextStart
    <3> HIDE DEF to, x
    <3>4. x \in Nat /\ to \in Nat /\ x >= start
      <4>1. x \in Nat BY <2>1 DEF x
      <4>2. x >= start BY <1>3, <3>1
      <4> QED BY <3>2, <4>1, <4>2
    <3>5. ASSUME NEW p \in C, p > x, p <= to PROVE FALSE
      <4>1. PICK z \in start..(last - 1) : Smbios!byteAt(t, z) = 0 /\ p = z + 1
        BY <1>3, <3>4, <3>5
      <4>2. z \in x..(to - 1) BY <3>4, <3>5, <4>1
      <4> QED BY <3>2, <4>1, <4>2
    <3>6. CASE to = last
      <4>1. \A p \in C : p <= last BY <1>3
      <4>2. C = U(x)
        <5>1. \A p \in C : p <= x BY <1>2, <3>4, <3>5, <3>6, <4>1
        <5> QED BY <1>4, <5>1
      <4>3. Cardinality(C) <= k + 1 BY <3>1, <4>2
      <4>4. f[k + 1] > last BY <3>3, <3>6
      <4> QED BY <4>3, <4>4 DEF Standing, C
    <3>7. CASE to < last
      <4>1. to + 1 \in C /\ to + 1 <= last
        <5>1. to \in start..(last - 1) /\ to + 1 <= last BY <3>2, <3>4, <3>7
        <5> QED BY <1>3, <3>2, <5>1
      <4>2. U(to + 1) = U(x) \cup {to + 1}
        <5>1. ASSUME NEW p \in U(to + 1) PROVE p \in U(x) \cup {to + 1}
          <6>1. p \in C /\ p <= to + 1 /\ p \in Nat BY <1>2, <1>4, <5>1
          <6>2. CASE p <= x BY <1>4, <6>1, <6>2
          <6>3. CASE p > x
            <7>1. ~(p <= to) BY <3>5, <6>1, <6>3
            <7>2. p = to + 1 BY <3>4, <6>1, <7>1
            <7> QED BY <7>2
          <6> QED BY <3>4, <6>1, <6>2, <6>3
        <5>2. ASSUME NEW p \in U(x) \cup {to + 1} PROVE p \in U(to + 1)
          <6>1. CASE p = to + 1 BY <1>2, <1>4, <4>1, <6>1
          <6>2. CASE p \in U(x)
            <7>1. p \in C /\ p <= x /\ p \in Nat BY <1>2, <1>4, <6>2
            <7>2. x <= to + 1 BY <3>2, <3>4
            <7>3. p <= to + 1 BY <3>4, <7>1, <7>2
            <7> QED BY <1>4, <7>1, <7>3
          <6> QED BY <5>2, <6>1, <6>2
        <5> QED BY <5>1, <5>2
      <4>3. to + 1 \notin U(x)
        <5>1. ~(to + 1 <= x) BY <3>2, <3>4
        <5> QED BY <1>4, <5>1
      <4>4. Cardinality(U(to + 1)) = k + 1 + 1
        <5>1. Cardinality(U(x) \cup {to + 1}) = Cardinality(U(x)) + 1
          BY <1>2, <4>3, FS_AddElement
        <5> QED BY <3>1, <4>2, <5>1
      <4> QED BY <3>3, <4>1, <4>4 DEF Standing, C, U
    <3> QED BY <3>2, <3>4, <3>6, <3>7
  <2> QED BY <2>1, <2>2, <2>3
<1>7. \A k \in Nat : k \in T
  <2> HIDE DEF T
  <2> QED BY <1>5, <1>6, SetInduction
<1> QED BY <1>7

\* The string of a number that smbiosString finds is the one the record has.
LEMMA StringFound ==
    ASSUME NEW t \in Seq(Nat), NEW a \in Nat, Fits(t, a), NEW k \in Nat
    PROVE  Smbios!smbiosString(t, a + Smbios!byteAt(t, a + 1), EndAt(t, a), k)
           = Smbios!RecordString(t, RecordAt(t, a), k)
<1> DEFINE start == a + Smbios!byteAt(t, a + 1)  last == EndAt(t, a)  r == RecordAt(t, a)
           C == Starts(t, start, last)
           U(o) == Up(t, start, last, o)
           kth == {o \in C : Cardinality(U(o)) = k}
           Zeros(o) == {z \in o..last : Smbios!byteAt(t, z) = 0}
<1>1. /\ start \in Nat /\ last \in Nat /\ start <= last
  <2>1. Smbios!byteAt(t, a + 1) \in Nat BY HeaderBytes DEF Fits
  <2> QED BY <2>1, RecordFound
<1>2. Smbios!byteAt(t, last) = 0
  <2>1. FirstPair(t, start, last) BY <1>1, SetEnd DEF EndAt
  <2> QED BY <1>1, <2>1 DEF FirstPair, Pair
<1>3. /\ r.from = a /\ r.to = last + 2 /\ r.to - 3 = last - 1 /\ r.to - 2 = last
  BY <1>1 DEF RecordAt
<1>4. Smbios!RecordString(t, r, k) =
         IF k = 0 \/ kth = {} THEN <<>>
         ELSE LET from == CHOOSE o \in kth : TRUE
              IN  Smbios!Text(t, from, Smbios!Least(Zeros(from)))
  <2> DEFINE begin == r.from + Smbios!byteAt(t, r.from + 1)
             starts == {begin} \cup {o + 1 : o \in {z \in begin..(r.to - 3) :
                                                       Smbios!byteAt(t, z) = 0}}
             found == {o \in starts : Smbios!Cardinality({p \in starts : p <= o}) = k}
             from == CHOOSE o \in found : TRUE
  <2>1. Smbios!RecordString(t, r, k) =
           IF k = 0 \/ found = {} THEN <<>>
           ELSE Smbios!Text(t, from, Smbios!Least({z \in from..(r.to - 2) :
                                                     Smbios!byteAt(t, z) = 0}))
    BY DEF Smbios!RecordString, Smbios!Nothing
  <2>2. starts = C
    <3>1. begin = start BY <1>3
    <3> HIDE DEF r, begin, start, last
    <3> QED BY <1>3, <3>1 DEF Starts
  <2>3. \A o : {p \in C : p <= o} = U(o) BY DEF Up
  <2>4. \A X : Smbios!Cardinality(X) = Cardinality(X)
    BY DEF Smbios!Cardinality, Cardinality, Smbios!IsFiniteSet, IsFiniteSet
  <2>5. found = kth
    <3> HIDE DEF starts, C, U
    <3> QED BY <2>2, <2>3, <2>4
  <2> HIDE DEF found, kth, r, last
  <2> QED BY <1>3, <2>1, <2>5
<1>5. CASE k = 0
  BY <1>4, <1>5 DEF Smbios!smbiosString, Smbios!Nothing
<1>6. CASE k # 0
  <2> DEFINE n == k - 1
  <2>1. n \in Nat /\ n + 1 = k BY <1>6
  <2> HIDE DEF start, last, r, n
  <2>2. PICK f \in [0..n -> Nat] :
           /\ StringRun(f, t, start, last, n)
           /\ Smbios!smbiosString(t, start, last, n + 1) =
                 IF f[n] > last THEN <<>>
                 ELSE Smbios!Text(t, f[n], Smbios!StringEnd(t, f[n], last))
    <3>1. StringLoops(t, start, last, n) BY <1>1, <1>2, <2>1, StringRuns
    <3> QED BY <3>1 DEF StringLoops
  <2>3. Standing(t, start, last, n, f[n]) BY <1>1, <1>2, <2>1, <2>2, StringsCounted
  <2>4. PICK x : x = f[n] OBVIOUS
  <2>5. x \in Nat BY <2>1, <2>4
  <2>6. /\ C \subseteq Nat /\ IsFiniteSet(C) /\ Cardinality(C) \in Nat
        /\ \A o : /\ IsFiniteSet(U(o)) /\ Cardinality(U(o)) \in Nat
                  /\ Cardinality(U(o)) <= Cardinality(C)
    BY <1>1, StartsCounted
  <2>7. \A o, p : p \in U(o) <=> p \in C /\ p <= o BY DEF Up
  <2> HIDE DEF C, U
  <2>8. CASE x > last
    <3>1. Cardinality(C) <= n BY <1>1, <2>3, <2>4, <2>5, <2>8 DEF Standing, C
    <3>2. \A o : Cardinality(U(o)) # k BY <2>1, <2>6, <3>1
    <3>3. kth = {} BY <3>2
    <3> QED BY <1>4, <2>1, <2>2, <2>4, <2>8, <3>3 DEF r, start, last
  <2>9. CASE x <= last
    <3>1. x \in C /\ Cardinality(U(x)) = k
      BY <1>1, <2>1, <2>3, <2>4, <2>5, <2>9 DEF Standing, C, U
    <3>2. ASSUME NEW o \in C, Cardinality(U(o)) = k PROVE o = x
      <4>1. o \in Nat /\ IsFiniteSet(U(o)) /\ IsFiniteSet(U(x)) BY <2>6
      <4>2. ASSUME NEW p \in C, NEW q \in C, p < q, Cardinality(U(p)) = Cardinality(U(q))
            PROVE  FALSE
        <5>1. p \in Nat /\ q \in Nat BY <2>6
        <5>2. U(p) \subseteq U(q)
          <6> SUFFICES ASSUME NEW z \in U(p) PROVE z \in U(q) OBVIOUS
          <6>1. z \in C /\ z <= p /\ z \in Nat BY <2>6, <2>7
          <6>2. z <= q BY <4>2, <5>1, <6>1
          <6> QED BY <2>7, <6>1, <6>2
        <5>3. U(p) = U(q) BY <2>6, <4>2, <5>2, FS_Subset
        <5>4. q \in U(q) /\ q \notin U(p) BY <2>7, <4>2, <5>1
        <5> QED BY <5>3, <5>4
      <4> QED BY <2>5, <3>1, <3>2, <4>1, <4>2
    <3>3. kth = {x} BY <3>1, <3>2
    <3>4. (CHOOSE o \in kth : TRUE) = x BY <3>3
    <3>5. Smbios!StringEnd(t, x, last) = Smbios!Least(Zeros(x))
      BY <1>1, <1>2, <2>5, <2>9, StringEnds
    <3>6. Smbios!RecordString(t, r, k) = Smbios!Text(t, x, Smbios!Least(Zeros(x)))
      <4>1. kth # {} BY <3>3
      <4> HIDE DEF kth, Zeros
      <4> QED BY <1>4, <1>6, <3>4, <4>1
    <3>7. ~(x > last) BY <1>1, <2>5, <2>9
    <3>8. Smbios!smbiosString(t, start, last, k) = Smbios!Text(t, x, Smbios!StringEnd(t, x, last))
      BY <2>1, <2>2, <2>4, <3>7
    <3> QED BY <3>5, <3>6, <3>8 DEF r, start, last
  <2> QED BY <1>1, <2>5, <2>8, <2>9
<1> QED BY <1>5, <1>6

\* The formatted area, byte by byte.
LEMMA FormattedArea ==
    ASSUME NEW t \in Seq(Nat), NEW a \in Nat, NEW l \in Nat, a + l <= Len(t)
    PROVE  /\ SubSeq(t, a + 1, a + l) = Smbios!Text(t, a, a + l)
           /\ \A i \in Nat : i < l =>
                 /\ Smbios!byteAt(SubSeq(t, a + 1, a + l), i) = Smbios!byteAt(t, a + i)
                 /\ Smbios!byteAt(t, a + i) \in Nat
<1> DEFINE s == SubSeq(t, a + 1, a + l)
<1>1. Len(t) \in Nat /\ \A i \in 1..Len(t) : t[i] \in Nat OBVIOUS
<1>2. \A i \in (a + 1)..(a + l) : t[i] \in Nat BY <1>1
<1>3. a + 1 \in Int /\ a + l \in Int /\ (a + l) - (a + 1) + 1 = l OBVIOUS
<1>4. s \in Seq(Nat) /\ Len(s) = l /\ \A i \in 1..l : s[i] = t[a + 1 + i - 1]
  <2>1. /\ s \in Seq(Nat)
        /\ Len(s) = IF a + 1 <= a + l THEN (a + l) - (a + 1) + 1 ELSE 0
        /\ \A i \in 1..((a + l) - (a + 1) + 1) : s[i] = t[a + 1 + i - 1]
    BY <1>2, <1>3, SubSeqProperties
  <2> HIDE DEF s
  <2> QED BY <1>3, <2>1
<1> HIDE DEF s
<1>5. \A i \in 1..l : a + 1 + i - 1 = a + i /\ a + i - 1 + 1 = a + i OBVIOUS
<1>6. s = Smbios!Text(t, a, a + l)
  <2>1. (a + l) - a = l OBVIOUS
  <2>2. Smbios!Text(t, a, a + l) = [i \in 1..l |-> t[a + i]]
    BY <1>5, <2>1 DEF Smbios!Text, Smbios!byteAt
  <2>3. s = [i \in 1..l |-> s[i]] BY ONLY <1>4
  <2>4. \A i \in 1..l : s[i] = t[a + i] BY <1>4, <1>5
  <2> QED BY <2>2, <2>3, <2>4
<1>7. ASSUME NEW i \in Nat, i < l
      PROVE  Smbios!byteAt(s, i) = Smbios!byteAt(t, a + i) /\ Smbios!byteAt(t, a + i) \in Nat
  <2>1. i + 1 \in 1..l /\ a + (i + 1) = a + i + 1 /\ a + i + 1 \in 1..Len(t) BY <1>1, <1>7
  <2>2. s[i + 1] = t[a + (i + 1)] BY <1>4, <1>5, <2>1
  <2> QED BY <1>1, <2>1, <2>2 DEF Smbios!byteAt
<1> QED BY <1>6, <1>7 DEF s

\* A record ends behind its beginning, within the table.
LEMMA RecordSpan ==
    ASSUME NEW t \in Seq(Nat), NEW r \in Records(t)
    PROVE  /\ r.from \in Nat /\ r.to \in Nat /\ r.from + 2 <= r.to /\ r.to <= Len(t)
           /\ Fits(t, r.from) /\ r = RecordAt(t, r.from)
<1>1. r.from \in Nat /\ r.to \in Nat /\ r.to <= Len(t) BY DEF Records
<1>2. Fits(t, r.from) /\ r = RecordAt(t, r.from) BY <1>1, RecordFound
<1>3. EndAt(t, r.from) \in Nat /\ r.from + Smbios!byteAt(t, r.from + 1) <= EndAt(t, r.from)
  BY <1>1, <1>2, RecordFound
<1>4. Smbios!byteAt(t, r.from + 1) \in Nat BY <1>1, <1>2, HeaderBytes DEF Fits
<1>5. r.to = EndAt(t, r.from) + 2 BY <1>2 DEF RecordAt
<1>6. r.from + 2 <= r.to BY <1>1, <1>3, <1>4, <1>5
<1> QED BY <1>1, <1>2, <1>6

\* A chain of records leads to an offset.
Reached(t, V, a) ==
    a = 0 \/ \E p \in V : p.to = a /\ Smbios!byteAt(t, p.from) # EndOfTable

\* What records say.
Says(t, V) == [systemUuid |-> Smbios!SystemUuid(t, V),
               motherboardSerial |-> Smbios!MotherboardSerial(t, V)]

\* The loop has seen the records of V: they are chained, all of them lie before
\* recordStart, the result is what they say, and every record that is reached is
\* among them or the next one.
Seen(t, loop, V) ==
    /\ loop.recordStart \in 0..Len(t)
    /\ \A q \in V : q.to <= loop.recordStart
    /\ \A q \in V : Reached(t, V, q.from)
    /\ loop.result = Says(t, V)
    /\ \A q \in Records(t) :
          Reached(t, V, q.from) => q \in V \/ (~loop.over /\ q.from = loop.recordStart)
    /\ ~loop.over => Reached(t, V, loop.recordStart)

\* The states of the loop.
Loops(t) ==
    {loop \in [recordStart : 0..Len(t), over : BOOLEAN,
               result : {Says(t, V) : V \in SUBSET Records(t)}] :
        \E V \in SUBSET Records(t) : Seen(t, loop, V)}

\* The loop begins with nothing seen.
FirstLoop == [recordStart |-> 0, over |-> FALSE,
              result |-> [systemUuid |-> <<>>, motherboardSerial |-> <<>>]]

\* Of no records nothing is said.
LEMMA LoopBegins ==
    ASSUME NEW t \in Seq(Nat)
    PROVE  FirstLoop \in Loops(t)
<1>1. Smbios!SystemUuid(t, {}) = <<>> /\ Smbios!MotherboardSerial(t, {}) = <<>>
  BY DEF Smbios!SystemUuid, Smbios!MotherboardSerial, Smbios!Nothing
<1>2. FirstLoop.result = Says(t, {}) BY <1>1 DEF FirstLoop, Says
<1>3. FirstLoop.recordStart = 0 /\ FirstLoop.over = FALSE BY DEF FirstLoop
<1>4. Seen(t, FirstLoop, {})
  <2>1. \A q \in Records(t) : Reached(t, {}, q.from) => q.from = 0 BY DEF Reached
  <2>2. Reached(t, {}, 0) BY DEF Reached
  <2>3. 0 \in 0..Len(t) OBVIOUS
  <2> QED BY <1>2, <1>3, <2>1, <2>2, <2>3 DEF Seen
<1>5. {} \in SUBSET Records(t) OBVIOUS
<1>6. FirstLoop \in [recordStart : 0..Len(t), over : BOOLEAN,
                     result : {Says(t, V) : V \in SUBSET Records(t)}]
  <2>1. FirstLoop.result \in {Says(t, V) : V \in SUBSET Records(t)} BY <1>2, <1>5
  <2>2. 0 \in 0..Len(t) OBVIOUS
  <2> QED BY <2>1, <2>2 DEF FirstLoop
<1> QED BY <1>4, <1>5, <1>6 DEF Loops

\* A turn that meets no record ends the loop.
LEMMA TurnEnds ==
    ASSUME NEW t \in Seq(Nat), NEW loop \in Loops(t), loop.over \/ ~Fits(t, loop.recordStart)
    PROVE  Smbios!Turn(t, loop) \in Loops(t) /\ Smbios!Turn(t, loop).over
<1> DEFINE a == loop.recordStart  l == Smbios!byteAt(t, a + 1)  N == Len(t)
           then == [loop EXCEPT !.over = TRUE]
<1>1. a \in Nat /\ N \in Nat /\ RecordHeader \in Nat BY SmbiosAssumption DEF Loops
<1>2. Smbios!Turn(t, loop) = then
  <2>1. \/ loop.over \/ a + RecordHeader > N \/ l < RecordHeader \/ l > N - a
        \/ Smbios!findStringSetEnd(t, a + l) = -1
    <3>1. CASE a + RecordHeader <= N
      <4>1. l \in Nat BY <1>1, <3>1, HeaderBytes
      <4> HIDE DEF l, a, N
      <4> QED BY <1>1, <3>1, <4>1 DEF Fits, EndAt, l, a, N
    <3> QED BY <1>1, <3>1
  <2> QED BY <2>1 DEF Smbios!Turn, Smbios!Size, Smbios!None
<1>3. PICK V \in SUBSET Records(t) : Seen(t, loop, V) BY DEF Loops
<1>4. /\ then.recordStart = a /\ then.over = TRUE /\ then.result = loop.result
      /\ then \in [recordStart : 0..N, over : BOOLEAN,
                   result : {Says(t, W) : W \in SUBSET Records(t)}]
  BY DEF Loops
<1>5. ASSUME NEW q \in Records(t), Reached(t, V, q.from) PROVE q \in V
  <2>1. q \in V \/ (~loop.over /\ q.from = a) BY <1>3, <1>5 DEF Seen
  <2>2. ~loop.over /\ q.from = a => FALSE BY RecordSpan
  <2> QED BY <2>1, <2>2
<1> HIDE DEF then
<1>6. Seen(t, then, V) BY <1>3, <1>4, <1>5 DEF Seen
<1>7. then \in Loops(t) BY <1>4, <1>6 DEF Loops
<1> QED BY <1>2, <1>4, <1>7

\* A turn that meets a record adds it to those seen.
LEMMA TurnTakes ==
    ASSUME NEW t \in Seq(Nat), NEW loop \in Loops(t), ~loop.over, Fits(t, loop.recordStart)
    PROVE  /\ Smbios!Turn(t, loop) \in Loops(t)
           /\ Smbios!Turn(t, loop).recordStart >= loop.recordStart + 1
<1> DEFINE a == loop.recordStart  l == Smbios!byteAt(t, a + 1)  N == Len(t)
           type == Smbios!byteAt(t, a)  e == EndAt(t, a)  r == RecordAt(t, a)
           formatted == SubSeq(t, a + 1, a + l)
           outcome == IF type = 1
                      THEN [loop.result EXCEPT !.systemUuid = Smbios!formatUuid(formatted)]
                      ELSE IF type = 2 /\ l > SerialAt
                      THEN [loop.result EXCEPT !.motherboardSerial =
                               Smbios!smbiosString(t, a + l, e,
                                                   Smbios!byteAt(formatted, SerialAt))]
                      ELSE loop.result
           then == [recordStart |-> e + 2, result |-> outcome, over |-> type = EndOfTable]
<1>1. a \in Nat /\ N \in Nat /\ RecordHeader \in Nat /\ RecordHeader >= 2 /\ SerialAt \in Nat
  BY SmbiosAssumption DEF Loops
<1>2. l \in Nat /\ type \in Nat BY <1>1, HeaderBytes DEF Fits
<1>3. /\ r \in Records(t) /\ e \in Nat /\ e + 2 <= N /\ a + l <= e
      /\ r.from = a /\ r.to = e + 2
  BY <1>1, RecordFound DEF RecordAt
<1>4. Smbios!Turn(t, loop) = then
  <2>1. ~(\/ loop.over \/ a + RecordHeader > N \/ l < RecordHeader \/ l > N - a
          \/ Smbios!findStringSetEnd(t, a + l) = -1)
    <3>1. /\ a + RecordHeader <= N /\ l >= RecordHeader /\ l <= N - a
          /\ Smbios!findStringSetEnd(t, a + l) # -1
      BY DEF Fits, EndAt
    <3> HIDE DEF l, a, N
    <3>2. ~(a + RecordHeader > N) /\ ~(l < RecordHeader) /\ ~(l > N - a) BY <1>1, <1>2, <3>1
    <3> QED BY <3>1, <3>2
  <2> QED BY <2>1 DEF Smbios!Turn, Smbios!Size, Smbios!None, EndAt
<1>5. PICK V \in SUBSET Records(t) : Seen(t, loop, V) BY DEF Loops
<1>6. \A q \in V : q.from \in Nat /\ q.from < r.from
  <2> SUFFICES ASSUME NEW q \in V PROVE q.from \in Nat /\ q.from < a BY <1>3
  <2>1. q.from \in Nat /\ q.to \in Nat /\ q.from + 2 <= q.to BY RecordSpan
  <2>2. q.to <= a BY <1>5 DEF Seen
  <2> QED BY <1>1, <2>1, <2>2
<1>7. outcome = Says(t, V \cup {r})
  <2>1. loop.result = Says(t, V) BY <1>5 DEF Seen
  <2>2. a + l <= N BY <1>1, <1>2, <1>3
  <2>3. formatted = Smbios!Text(t, a, a + l)
    <3>1. t \in Seq(Nat) /\ a \in Nat /\ l \in Nat /\ a + l <= Len(t) BY <1>1, <1>2, <2>2
    <3> HIDE DEF a, l
    <3> QED BY ONLY <3>1, FormattedArea
  <2>4. l > SerialAt => /\ Smbios!byteAt(formatted, SerialAt) = Smbios!byteAt(t, a + SerialAt)
                        /\ Smbios!byteAt(t, a + SerialAt) \in Nat
    BY <1>1, <1>2, <2>2, FormattedArea
  <2>5. l > SerialAt => Smbios!smbiosString(t, a + l, e, Smbios!byteAt(t, a + SerialAt))
                        = Smbios!RecordString(t, r, Smbios!byteAt(t, a + SerialAt))
    BY <1>1, <2>4, StringFound
  <2>6. /\ Smbios!SystemUuid(t, V \cup {r}) =
              IF type = 1 THEN Smbios!formatUuid(Smbios!Text(t, a, a + l))
              ELSE Smbios!SystemUuid(t, V)
        /\ Smbios!MotherboardSerial(t, V \cup {r}) =
              IF type = 2 /\ l > SerialAt
              THEN Smbios!RecordString(t, r, Smbios!byteAt(t, a + SerialAt))
              ELSE Smbios!MotherboardSerial(t, V)
    <3>1. r.from \in Nat BY <1>1, <1>3
    <3> HIDE DEF r
    <3>2. Adds(t, V, r) BY <1>6, <3>1, OneMore
    <3> QED BY <1>3, <3>2 DEF Adds
  <2> HIDE DEF type, l, a, e, formatted, r
  <2>7. CASE type = 1 BY <2>1, <2>3, <2>6, <2>7 DEF Says
  <2>8. CASE type # 1 /\ type = 2 /\ l > SerialAt
    BY <2>1, <2>4, <2>5, <2>6, <2>8 DEF Says
  <2>9. CASE type # 1 /\ ~(type = 2 /\ l > SerialAt) BY <2>1, <2>6, <2>9 DEF Says
  <2> QED BY <2>7, <2>8, <2>9
<1>8. /\ then.recordStart = e + 2 /\ then.result = outcome /\ then.over = (type = EndOfTable)
      /\ then.over \in BOOLEAN
  OBVIOUS
<1> HIDE DEF outcome
<1>9. e + 2 \in 0..N /\ e + 2 >= a + 2 BY <1>1, <1>2, <1>3
<1>10. ASSUME NEW q \in Records(t), q.from = a PROVE q = r BY <1>1, <1>10, RecordSpan
<1>11. Reached(t, V, a) BY <1>5 DEF Seen
<1> DEFINE W == V \cup {r}
<1>12. \A o : Reached(t, V, o) => Reached(t, W, o) BY DEF Reached
<1>13. Seen(t, then, W)
  <2>1. \A q \in W : q.to <= e + 2
    <3>1. \A q \in V : q.to <= e + 2
      <4> SUFFICES ASSUME NEW q \in V PROVE q.to <= e + 2 OBVIOUS
      <4>1. q.to \in Nat /\ q.to <= a BY <1>5, RecordSpan DEF Seen
      <4> QED BY <1>1, <1>9, <4>1
    <3> QED BY <1>3, <3>1
  <2>2. \A q \in W : Reached(t, W, q.from)
    <3>1. \A q \in V : Reached(t, V, q.from) BY <1>5 DEF Seen
    <3> QED BY <1>3, <1>11, <1>12, <3>1
  <2>3. ASSUME NEW q \in Records(t), Reached(t, W, q.from)
        PROVE  q \in W \/ (~then.over /\ q.from = then.recordStart)
    <3>1. CASE Reached(t, V, q.from)
      <4>1. q \in V \/ q.from = a BY <1>5, <3>1 DEF Seen
      <4> QED BY <1>10, <4>1
    <3>2. CASE ~Reached(t, V, q.from)
      <4>1. r.to = q.from /\ Smbios!byteAt(t, r.from) # EndOfTable
        BY <2>3, <3>2 DEF Reached
      <4> QED BY <1>3, <1>8, <4>1
    <3> QED BY <3>1, <3>2
  <2>4. ~then.over => Reached(t, W, then.recordStart)
    <3>1. ~then.over => Smbios!byteAt(t, r.from) # EndOfTable BY <1>3, <1>8
    <3>2. r \in W /\ r.to = then.recordStart BY <1>3, <1>8
    <3> QED BY <3>1, <3>2 DEF Reached
  <2> HIDE DEF then, W
  <2> QED BY <1>7, <1>8, <1>9, <2>1, <2>2, <2>3, <2>4 DEF Seen, W
<1>14. W \in SUBSET Records(t) BY <1>3, <1>5
<1>15. then \in [recordStart : 0..N, over : BOOLEAN,
                 result : {Says(t, X) : X \in SUBSET Records(t)}]
  <2>1. outcome \in {Says(t, X) : X \in SUBSET Records(t)} BY <1>7, <1>14
  <2> QED BY <1>9, <2>1
<1> HIDE DEF then, W
<1>16. then \in Loops(t) BY <1>13, <1>14, <1>15 DEF Loops
<1>17. then.recordStart >= a + 1 BY <1>1, <1>8, <1>9
<1> QED BY <1>4, <1>16, <1>17

\* A turn leads from a state of the loop to one, further on or at the end.
LEMMA TurnSees ==
    ASSUME NEW t \in Seq(Nat), NEW loop \in Loops(t)
    PROVE  /\ Smbios!Turn(t, loop) \in Loops(t)
           /\ \/ Smbios!Turn(t, loop).over
              \/ ~loop.over /\ Smbios!Turn(t, loop).recordStart >= loop.recordStart + 1
<1>1. CASE loop.over \/ ~Fits(t, loop.recordStart) BY <1>1, TurnEnds
<1>2. CASE ~(loop.over \/ ~Fits(t, loop.recordStart)) BY <1>2, TurnTakes
<1> QED BY <1>1, <1>2

\* The run of parse's loop.
ParseRun(f, t) ==
    f[0] = FirstLoop /\ \A i \in 1..Len(t) : f[i] = Smbios!Turn(t, f[i - 1])

\* parse returns what its run ends with.
Parses(t) ==
    \E f \in [0..Len(t) -> Loops(t)] : ParseRun(f, t) /\ Smbios!parse(t) = f[Len(t)].result

\* parse has a run over every table.
LEMMA ParseRuns ==
    ASSUME NEW t \in Seq(Nat)
    PROVE  Parses(t)
<1> DEFINE n == Len(t)  X == Loops(t)
           turn == [i \in 1..n |-> [x \in X |-> Smbios!Turn(t, x)]]
           Rule(f) == f = [i \in 0..n |-> IF i = 0 THEN FirstLoop
                              ELSE Smbios!Turn(t, f[i - 1])]
           run == CHOOSE f : Rule(f)
<1>1. n \in Nat OBVIOUS
<1>2. FirstLoop \in X /\ \A x \in X : Smbios!Turn(t, x) \in X BY LoopBegins, TurnSees
<1>3. Smbios!parse(t) = run[n].result
  BY DEF Smbios!parse, Smbios!Size, Smbios!Nothing, FirstLoop
<1> HIDE DEF n, X
<1>4. turn \in [1..n -> [X -> X]] BY <1>2
<1>5. \A i \in 1..n, x \in X : turn[i][x] = Smbios!Turn(t, x) OBVIOUS
<1> HIDE DEF turn
<1>6. PICK f \in [0..n -> X] : f[0] = FirstLoop /\ \A i \in 1..n : f[i] = turn[i][f[i - 1]]
  <2>1. \E f : Unrolls(f, X, FirstLoop, n, turn) BY <1>1, <1>2, <1>4, Unrolled, Zenon
  <2> QED BY <2>1 DEF Unrolls
<1>7. Rule(f)
  <2>1. \A i \in 1..n : i # 0 /\ i - 1 \in 0..n /\ f[i - 1] \in X
    <3>1. \A i \in 1..n : i # 0 /\ i - 1 \in 0..n BY <1>1
    <3> QED BY <1>6, <3>1
  <2>2. \A i \in 1..n : f[i] = Smbios!Turn(t, f[i - 1]) BY <1>5, <1>6, <2>1
  <2>3. \A i \in 0..n : i = 0 \/ i \in 1..n BY <1>1
  <2>4. \A i \in 0..n : f[i] = IF i = 0 THEN FirstLoop ELSE Smbios!Turn(t, f[i - 1])
    BY <1>6, <2>2, <2>3
  <2>5. f = [i \in 0..n |-> f[i]] BY <1>6
  <2> QED BY <2>4, <2>5
<1>8. Rule(run)
  <2> HIDE DEF Rule
  <2> QED BY <1>7
<1> HIDE DEF run
<1>9. run[0] = FirstLoop /\ \A i \in 1..n : run[i] = Smbios!Turn(t, run[i - 1])
  <2>1. 0 \in 0..n /\ \A i \in 1..n : i \in 0..n /\ i # 0 BY <1>1
  <2>2. \A i \in 0..n : run[i] = IF i = 0 THEN FirstLoop ELSE Smbios!Turn(t, run[i - 1])
    BY <1>8
  <2> QED BY <2>1, <2>2
<1>10. \A i \in 0..n : run[i] \in X
  <2> DEFINE T == {k \in Nat : k <= n => run[k] \in X}
  <2>1. 0 \in T BY <1>2, <1>9
  <2>2. ASSUME NEW k \in Nat, k \in T PROVE k + 1 \in T
    <3> SUFFICES ASSUME k + 1 <= n PROVE run[k + 1] \in X OBVIOUS
    <3>1. run[k] \in X /\ k + 1 \in 1..n /\ (k + 1) - 1 = k BY <1>1, <2>2
    <3>2. run[k + 1] = Smbios!Turn(t, run[k]) BY <1>9, <3>1
    <3> QED BY <1>2, <3>1, <3>2
  <2>3. \A k \in Nat : k \in T
    <3> HIDE DEF T
    <3> QED BY <2>1, <2>2, SetInduction
  <2> QED BY <1>1, <2>3
<1>11. run \in [0..n -> X]
  <2>1. run = [i \in 0..n |-> run[i]] BY <1>8
  <2> QED BY <1>10, <2>1
<1>12. ParseRun(run, t) BY <1>9 DEF ParseRun, n
<1> QED BY <1>3, <1>11, <1>12 DEF Parses, n, X

\* After as many turns as there are bytes the loop is at its end.
LEMMA ParseEnds ==
    ASSUME NEW t \in Seq(Nat), NEW f \in [0..Len(t) -> Loops(t)], ParseRun(f, t)
    PROVE  f[Len(t)].over \/ f[Len(t)].recordStart = Len(t)
<1> DEFINE n == Len(t)
           T == {k \in Nat : k <= n => f[k].over \/ f[k].recordStart >= k}
<1>1. n \in Nat OBVIOUS
<1>2. \A k \in 0..n : f[k] \in Loops(t) /\ f[k].recordStart \in 0..n BY DEF Loops
<1> HIDE DEF n
<1>3. 0 \in T BY DEF ParseRun, FirstLoop
<1>4. ASSUME NEW k \in Nat, k \in T PROVE k + 1 \in T
  <2> SUFFICES ASSUME k + 1 <= n PROVE f[k + 1].over \/ f[k + 1].recordStart >= k + 1
    OBVIOUS
  <2>1. /\ k \in 0..n /\ k + 1 \in 1..n /\ k + 1 \in 0..n /\ (k + 1) - 1 = k BY <1>1
  <2>2. f[k + 1] = Smbios!Turn(t, f[k]) BY <2>1 DEF ParseRun, n
  <2>3. \/ f[k + 1].over
        \/ ~f[k].over /\ f[k + 1].recordStart >= f[k].recordStart + 1
    BY <1>2, <2>1, <2>2, TurnSees
  <2>4. f[k].over \/ f[k].recordStart >= k BY <1>1, <1>4
  <2>5. f[k].recordStart \in Nat /\ f[k + 1].recordStart \in Nat BY <1>2, <2>1
  <2> QED BY <2>3, <2>4, <2>5
<1>5. \A k \in Nat : k \in T
  <2> HIDE DEF T
  <2> QED BY <1>3, <1>4, SetInduction
<1>6. f[n].over \/ f[n].recordStart >= n BY <1>1, <1>5
<1>7. f[n].recordStart \in 0..n BY <1>1, <1>2
<1>8. f[n].over \/ f[n].recordStart = n BY <1>1, <1>6, <1>7
<1> QED BY <1>8 DEF n

\* What the loop has seen at its end is the chain.
LEMMA ChainSeen ==
    ASSUME NEW t \in Seq(Nat), NEW loop, NEW V \in SUBSET Records(t), Seen(t, loop, V),
           loop.over \/ loop.recordStart = Len(t)
    PROVE  V = Smbios!Chain(t)
<1> DEFINE Linked(S) == \A q \in S : Reached(t, S, q.from)
           Chains == {S \in SUBSET Records(t) : Linked(S)}
<1>1. Smbios!Chain(t) = UNION Chains
  BY DEF Smbios!Chain, Smbios!Size, Records, Reached
<1>2. V \in Chains BY DEF Seen
<1>3. \A q \in Records(t) : Reached(t, V, q.from) => q \in V
  <2> SUFFICES ASSUME NEW q \in Records(t), Reached(t, V, q.from), q \notin V PROVE FALSE
    OBVIOUS
  <2>1. ~loop.over /\ q.from = loop.recordStart BY DEF Seen
  <2>2. q.from = Len(t) BY <2>1
  <2>3. q.from \in Nat /\ q.to \in Nat /\ q.from + 2 <= q.to /\ q.to <= Len(t) BY RecordSpan
  <2> QED BY <2>2, <2>3
<1>4. ASSUME NEW S \in Chains PROVE S \subseteq V
  <2> DEFINE T == {q.from : q \in S \ V}
  <2> SUFFICES ASSUME S \ V # {} PROVE FALSE OBVIOUS
  <2>1. T \subseteq Nat BY RecordSpan
  <2>2. T # {} OBVIOUS
  <2>3. PICK m \in T : \A o \in T : m <= o
    <3> HIDE DEF T
    <3> QED BY <2>1, <2>2, LeastNumber
  <2>4. PICK q \in S \ V : q.from = m BY <2>3
  <2>5. q \in Records(t) /\ Reached(t, S, q.from) BY <1>4, <2>4
  <2>6. ~Reached(t, V, q.from) BY <1>3, <2>4, <2>5
  <2>7. PICK p \in S : p.to = q.from /\ Smbios!byteAt(t, p.from) # EndOfTable
    BY <2>5, <2>6 DEF Reached
  <2>8. p \notin V BY <2>6, <2>7 DEF Reached
  <2>9. p \in Records(t) BY <1>4, <2>7
  <2>10. p.from \in Nat /\ p.to \in Nat /\ p.from + 2 <= p.to BY <2>9, RecordSpan
  <2>11. p.from \in T BY <2>7, <2>8
  <2>12. m <= p.from /\ p.to = m BY <2>3, <2>4, <2>7, <2>11
  <2> QED BY <2>1, <2>3, <2>10, <2>12
<1> HIDE DEF Chains
<1> QED BY <1>1, <1>2, <1>4

\* parse finds what the records of the chain say.
LEMMA ParseFinds ==
    ASSUME NEW t \in Seq(Nat)
    PROVE  Smbios!parse(t) = Says(t, Smbios!Chain(t))
<1>1. PICK f \in [0..Len(t) -> Loops(t)] :
         ParseRun(f, t) /\ Smbios!parse(t) = f[Len(t)].result
  BY ParseRuns DEF Parses
<1>2. PICK loop : loop = f[Len(t)] OBVIOUS
<1>3. loop \in Loops(t)
  <2>1. Len(t) \in 0..Len(t) OBVIOUS
  <2> QED BY <1>2, <2>1
<1>4. loop.over \/ loop.recordStart = Len(t) BY <1>1, <1>2, ParseEnds
<1>5. PICK V \in SUBSET Records(t) : Seen(t, loop, V) BY <1>3 DEF Loops
<1>6. V = Smbios!Chain(t) BY <1>4, <1>5, ChainSeen
<1>7. loop.result = Says(t, V) BY <1>5 DEF Seen
<1> QED BY <1>1, <1>2, <1>6, <1>7

\* SmbiosParser::parse finds what the table says, for tables of any length, damaged
\* anywhere, and for any layout of the records.
THEOREM ParsesTableHolds == PartsSpec => []ParsesTable
<1> DEFINE Inv == part = "smbios" => table \in Seq(Byte)
<1>1. PartsInit => Inv
  BY PartBeginning, SmbiosAssumption DEF Smbios!Init
<1>2. Inv /\ [PartsNext]_partsVars => Inv'
  <2> SUFFICES ASSUME Inv, [PartsNext]_partsVars, part' = "smbios"
               PROVE  table' \in Seq(Byte)
    OBVIOUS
  <2>1. part = "smbios" /\ [Smbios!Next]_(Smbios!vars) BY PartStep
  <2>2. CASE Smbios!Next BY <2>1, <2>2, AppendProperties DEF Smbios!Next
  <2>3. CASE UNCHANGED Smbios!vars BY <2>1, <2>3 DEF Smbios!vars
  <2> QED BY <2>1, <2>2, <2>3
<1>3. Inv => ParsesTable
  <2> SUFFICES ASSUME Inv, part = "smbios" PROVE Smbios!ParsesTable BY DEF ParsesTable
  <2>1. table \in Seq(Nat) BY SmbiosAssumption, SeqMonotonic
  <2> QED BY <2>1, ParseFinds DEF Smbios!ParsesTable, Says
<1> QED BY <1>1, <1>2, <1>3, PTL DEF PartsSpec
=============================================================================
