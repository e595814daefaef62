----------------------------- MODULE SecureReply -----------------------------
(***************************************************************************)
(* The life of a request of ApiClient: the pinned transport it runs over   *)
(* (TlsPinPolicy), the signals of its QNetworkReply in any order the       *)
(* network produces, and the way its error travels through ApiClient,      *)
(* AuthManager::fail and LoginWindow to the user's eyes.                   *)
(*                                                                         *)
(* External (Qt Network, from how the code uses it): encrypted() precedes  *)
(* the first byte of a request; abort() ends in one finished(), possibly   *)
(* after other signals of the reply; a reply whose read buffer is full     *)
(* makes no progress.  A local development build has no TLS signals.       *)
(***************************************************************************)
EXTENDS Naturals, Sequences

CONSTANTS
    Pin,            \* digests of the two configured keys
    OtherKey,       \* a key that is not pinned
    BadPin,         \* a configured pin that does not decode
    Requests,       \* requests, in the order they are started
    NoReply

VARIABLES
    config,         \* the build's transport configuration
    reply,          \* each request's QNetworkReply and its properties
    requestActive,  \* ApiClient::requestActive_
    answers,        \* signals emitted for each request
    shown           \* what LoginWindow::showErrorDialog put on the screen

vars == <<config, reply, requestActive, answers, shown>>

Config == [localDevelopment : BOOLEAN, loopback : BOOLEAN, sameHost : BOOLEAN,
           https : BOOLEAN, pins : UNION {[1..n -> Pin \cup {BadPin}] : n \in 0..3}]
Kind == {"login", "verify", "profile"}
LocalCode == {"TLS_VALIDATION_FAILED", "TLS_REDIRECT_REJECTED", "TIMEOUT",
              "RESPONSE_TOO_LARGE", "MALFORMED_RESPONSE", "NETWORK_ERROR",
              "AUTHENTICATION_FAILED", "INVALID_SESSION_TOKEN"}
\* Codes of a body: one the client knows, one it does not, or the secret of
\* the request (password, token or proof) echoed back; "" when there is none.
BodyCode == {"", "LICENSE_EXPIRED", "NETWORK_ERROR", "SERVER_CODE", "SECRET"}
\* Texts the client itself words, and those of a body.
LocalText == {"timed out", "not verified", "too large", "invalid", "HTTP status",
              "unreachable", "failed", "fixed"}
EmptyBody == [object |-> FALSE, ok |-> FALSE, complete |-> FALSE, code |-> "",
              message |-> ""]
\* Bodies: not an object; an error object; a success object with or without
\* all the members its kind needs.
Body ==
    {EmptyBody}
    \cup [object : {TRUE}, ok : {FALSE}, complete : {FALSE}, code : BodyCode,
          message : {"", "server", "SECRET"}]
    \cup [object : {TRUE}, ok : {TRUE}, complete : BOOLEAN, code : {""}, message : {""}]

-----------------------------------------------------------------------------
(* TlsPinPolicy.                                                           *)

decodePin(pin) == pin # BadPin

\* The constructor's verdict: two pins that decode and differ, or, in a local
\* development build, none and a loopback host.
isValid ==
    IF config.localDevelopment
    THEN config.pins = <<>> /\ config.loopback
    ELSE /\ Len(config.pins) = 2
         /\ \A i \in 1..2 : decodePin(config.pins[i])
         /\ config.pins[1] # config.pins[2]

permitsRequestUrl ==
    /\ isValid /\ config.sameHost
    /\ IF config.localDevelopment THEN ~config.https /\ config.loopback
                                  ELSE config.https

\* Mutant: any certificate the system trusts will do.
verifyTrusted(peer) == permitsRequestUrl /\ ~config.localDevelopment

\* peer is the key of the certificate the server presented.
verify(peer) ==
    /\ permitsRequestUrl
    /\ ~config.localDevelopment
    /\ \E i \in 1..Len(config.pins) : config.pins[i] = peer

isAllowedTransport == isValid /\ permitsRequestUrl

-----------------------------------------------------------------------------
(* What the finished() handler makes of a reply.                           *)

Error(code, message) == [code |-> code, message |-> message]

transportSecurityError(r) ==
    IF r.security = "TLS_REDIRECT_REJECTED"
    THEN Error(r.security, "not verified")
    ELSE Error("TLS_VALIDATION_FAILED", "not verified")

\* The body's own code and message, if it has any; the wording is the client's
\* whenever the code is NETWORK_ERROR, the server's included.
errorForReply(r) ==
    LET code == IF r.body.object /\ r.body.code # "" THEN r.body.code ELSE "NETWORK_ERROR"
        text == IF r.body.object /\ r.body.message # "" THEN r.body.message ELSE "failed"
    IN  Error(code, IF code # "NETWORK_ERROR" THEN text
                    ELSE IF r.status >= 400 THEN "HTTP status" ELSE "unreachable")

withoutSecret(e) ==
    Error(IF e.code = "SECRET" THEN "INVALID_SESSION_TOKEN" ELSE e.code,
          IF e.message = "SECRET" THEN "failed" ELSE e.message)

sanitizedLoginError(e) ==
    LET code == IF e.code \in {"LICENSE_EXPIRED", "NETWORK_ERROR", "TLS_VALIDATION_FAILED",
                               "TLS_REDIRECT_REJECTED", "TIMEOUT", "RESPONSE_TOO_LARGE"}
                THEN e.code ELSE "AUTHENTICATION_FAILED"
    IN  Error(code, IF code \in {"NETWORK_ERROR", "TIMEOUT"} THEN e.message ELSE "failed")

Failed(r) == r.tooLarge \/ r.networkError \/ r.status # 200

Cause(r) ==
    IF r.tooLarge THEN Error("RESPONSE_TOO_LARGE", "too large")
    ELSE IF r.security # "" THEN transportSecurityError(r)
    ELSE IF r.timeout THEN Error("TIMEOUT", "timed out")
    ELSE errorForReply(r)

Malformed(r) == ~r.body.object \/ ~r.body.ok \/ ~r.body.complete

ErrorOf(r) ==
    IF Failed(r)
    THEN CASE r.kind = "login" -> sanitizedLoginError(Cause(r))
           [] r.kind = "verify" -> Cause(r)
           [] r.kind = "profile" -> withoutSecret(Cause(r))
    ELSE Error("MALFORMED_RESPONSE", "invalid")

\* Mutant: fail() passes codes it does not know.
failUnlisted(e) == Error(IF e.code = "SECRET" THEN "AUTHENTICATION_FAILED" ELSE e.code, "failed")

\* AuthManager::fail: codes outside its own list become one code, and every
\* message becomes one message.
fail(e) ==
    Error(IF e.code \in {"LICENSE_EXPIRED", "INVALID_SESSION_TOKEN", "NETWORK_ERROR",
                         "TIMEOUT", "RESPONSE_TOO_LARGE", "MALFORMED_RESPONSE"}
          THEN e.code ELSE "AUTHENTICATION_FAILED",
          "failed")

safeMessage(e) == IF e.code = "NETWORK_ERROR" THEN e.message ELSE "fixed"

showFailure(e) == [code |-> fail(e).code, text |-> safeMessage(fail(e))]

-----------------------------------------------------------------------------
NewReply(kind) ==
    [kind |-> kind, phase |-> "connecting", peer |-> NoReply, sent |-> FALSE,
     security |-> "", timeout |-> FALSE, cancelled |-> FALSE, networkError |-> FALSE,
     tooLarge |-> FALSE, status |-> 0, body |-> EmptyBody]

Init ==
    /\ config \in Config
    /\ reply = [q \in 1..Requests |-> NoReply]
    /\ requestActive = FALSE
    /\ answers = [q \in 1..Requests |-> <<>>]
    /\ shown = [code |-> "", text |-> ""]

Alive(q) == reply[q] # NoReply
In(q, phases) == Alive(q) /\ reply[q].phase \in phases
Put(q, r) == reply' = [reply EXCEPT ![q] = r]
Quiet == UNCHANGED <<config, requestActive, answers, shown>>

Ask(q) ==
    /\ answers[q] = <<>> /\ ~Alive(q)
    /\ \A p \in 1..(q - 1) : answers[p] # <<>>

\* buildProtectedRequest looks at the clock before and after the TPM made the
\* proof, and loadProfile once more; look is the first look that finds the
\* session expired (4: none does).  verifyDevice needs a well-formed key.
buildProtectedRequest(session, proof, look) == session /\ proof /\ look > 2
Prepared(kind, session, proof, look) ==
    CASE kind = "login" -> TRUE
      [] kind = "verify" -> proof
      [] kind = "profile" -> buildProtectedRequest(session, proof, look) /\ look > 3

\* postJson and loadProfile refuse without a request of their own.
Refuse(q, kind) ==
    /\ Ask(q)
    /\ \/ ~isAllowedTransport \/ requestActive
       \/ \E session, proof \in BOOLEAN, look \in 1..4 : ~Prepared(kind, session, proof, look)
    /\ answers' = [answers EXCEPT ![q] = <<"failed">>]
    /\ UNCHANGED <<config, reply, requestActive, shown>>

Start(q, kind) ==
    /\ Ask(q)
    /\ isAllowedTransport /\ ~requestActive
    /\ \E session, proof \in BOOLEAN, look \in 1..4 : Prepared(kind, session, proof, look)
    /\ requestActive' = TRUE
    /\ Put(q, NewReply(kind))
    /\ UNCHANGED <<config, answers, shown>>

\* setProperty, then abort().
Abort(q, r) == Put(q, [r EXCEPT !.phase = "aborted", !.networkError = TRUE])

sslErrors(q) ==
    /\ In(q, {"connecting"}) /\ ~config.localDevelopment
    /\ Abort(q, [reply[q] EXCEPT !.security = "TLS_VALIDATION_FAILED"])
    /\ Quiet

encrypted(q, peer) ==
    /\ In(q, {"connecting"}) /\ ~config.localDevelopment
    /\ IF verify(peer)
       THEN Put(q, [reply[q] EXCEPT !.phase = "open", !.peer = peer, !.sent = TRUE])
       ELSE Abort(q, [reply[q] EXCEPT !.security = "TLS_VALIDATION_FAILED", !.peer = peer])
    /\ Quiet

\* A local development build sends over plain HTTP to a loopback address.
Connected(q) ==
    /\ In(q, {"connecting"}) /\ config.localDevelopment
    /\ Put(q, [reply[q] EXCEPT !.phase = "open", !.sent = TRUE])
    /\ Quiet

\* Mutant: the verdict is recorded and the reply goes on.
redirectedFollowed(q) ==
    /\ In(q, {"open"})
    /\ Put(q, [reply[q] EXCEPT !.security = "TLS_REDIRECT_REJECTED"])
    /\ Quiet

redirected(q) ==
    /\ In(q, {"open"})
    /\ Abort(q, [reply[q] EXCEPT !.security = "TLS_REDIRECT_REJECTED"])
    /\ Quiet

\* The reply's own timer, which may beat a finished() already on its way.
TimerFires(q) ==
    /\ Alive(q) /\ ~reply[q].timeout
    /\ Abort(q, [reply[q] EXCEPT !.timeout = TRUE])
    /\ Quiet

\* A complete answer, a broken connection, or more than the read buffer holds
\* (then nothing happens until the timer).
Answer(q, status, body) ==
    /\ In(q, {"open"}) /\ reply[q].status = 0
    /\ Put(q, [reply[q] EXCEPT !.phase = "ending", !.status = status, !.body = body])
    /\ Quiet

Break(q) ==
    /\ In(q, {"connecting", "open"})
    /\ Put(q, [reply[q] EXCEPT !.phase = "ending", !.networkError = TRUE])
    /\ Quiet

Overflow(q) ==
    /\ In(q, {"open"})
    /\ \/ Put(q, [reply[q] EXCEPT !.phase = "ending", !.tooLarge = TRUE, !.status = 200])
       \/ Put(q, [reply[q] EXCEPT !.phase = "open", !.status = 200])
    /\ Quiet

cancelProfile(q) ==
    /\ Alive(q) /\ reply[q].kind = "profile" /\ ~reply[q].cancelled
    /\ requestActive' = FALSE
    /\ Abort(q, [reply[q] EXCEPT !.cancelled = TRUE])
    /\ answers' = [answers EXCEPT ![q] = Append(answers[q], "cancelled")]
    /\ UNCHANGED <<config, shown>>

finished(q) ==
    /\ In(q, {"aborted", "ending"})
    /\ Put(q, NoReply)
    /\ UNCHANGED config
    /\ IF reply[q].cancelled
       THEN UNCHANGED <<requestActive, answers, shown>>
       ELSE /\ requestActive' = FALSE
            /\ IF Failed(reply[q]) \/ Malformed(reply[q])
               THEN /\ answers' = [answers EXCEPT ![q] = Append(answers[q], "failed")]
                    /\ shown' = showFailure(ErrorOf(reply[q]))
               ELSE /\ answers' = [answers EXCEPT ![q] = Append(answers[q], "succeeded")]
                    /\ UNCHANGED shown

Network(q) ==
    \/ sslErrors(q)
    \/ \E peer \in Pin \cup {OtherKey} : encrypted(q, peer)
    \/ Connected(q)
    \/ redirected(q)
    \/ \E status \in {200, 302, 400}, body \in Body : Answer(q, status, body)
    \/ Break(q)
    \/ Overflow(q)

Next == \E q \in 1..Requests :
    \/ \E kind \in Kind : Refuse(q, kind) \/ Start(q, kind)
    \/ Network(q)
    \/ TimerFires(q)
    \/ cancelProfile(q)
    \/ finished(q)

Spec == Init /\ [][Next]_vars

-----------------------------------------------------------------------------
\* Credentials and proofs leave the client only towards a holder of a pinned
\* key, or, in a local development build, a loopback address; a misconfigured
\* build sends nothing.
SentOnlyToPinnedPeer ==
    \A q \in 1..Requests : Alive(q) /\ reply[q].sent =>
        \/ config.localDevelopment /\ config.loopback
        \/ reply[q].peer \in {config.pins[i] : i \in 1..Len(config.pins)} \cap Pin

Succeeds(q) == answers'[q] # answers[q] /\ answers'[q] = <<"succeeded">>

\* No answer is taken from a reply that was redirected, failed the pin check,
\* timed out or was cancelled, although the handler looks at these marks only
\* when the reply carries an error: the abort must have put one there.
UnmarkedSuccess ==
    \A q \in 1..Requests : Succeeds(q) =>
        /\ reply[q].security = "" /\ ~reply[q].timeout /\ ~reply[q].cancelled
        /\ reply[q].body.ok

\* Nothing a server wrote, and no secret it echoed, reaches the screen: the
\* text is the client's and the code one the client knows.
ScreenTextIsLocal ==
    /\ shown.text \in LocalText \cup {""}
    /\ shown.code \in LocalCode \cup {"LICENSE_EXPIRED", ""}
=============================================================================
