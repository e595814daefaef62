---------------------------- MODULE ProtectedApi ----------------------------
(***************************************************************************)
(* GET /v1/me: RequireSession and handleMe over the database.              *)
(*                                                                         *)
(* A request carries a session token and a DPoP proof.  It is checked      *)
(* against the server's clock, then its proof is consumed in the table     *)
(* dpop_replays, then the profile is loaded, then the answer is decided:   *)
(* four steps between which the clock, the other requests (duplicates of   *)
(* this one included) and the operators move.  The tokens are those of one *)
(* user, license and device; a proof stands for its jti.                   *)
(***************************************************************************)
EXTENDS Integers

CONSTANTS
    Request,            \* HTTP requests, each answered once
    Token,
    Proof,              \* DPoP proofs, told apart by their jti
    NoToken, NoProof, NoProfile,
    IssuedAt,           \* of a token
    TokenLifetime,      \* 600 seconds in the code
    BoundTo,            \* the token whose hash and key the proof carries
    ProofIat,           \* iat of a proof
    ClockSkew,          \* dpopClockSkew, 60 seconds in the code
    DbAhead,            \* database clock minus server clock
    CleanupFirst,       \* may the cleanup of ConsumeDPoP run before its insert
    LicenseExpiresAt,
    MaxTime             \* bound on the clock

ASSUME ApiAssumption ==
    /\ NoToken \notin Token
    /\ NoProof \notin Proof
    /\ IssuedAt \in [Token -> Nat]
    /\ BoundTo \in [Proof -> Token]
    /\ ProofIat \in [Proof -> Nat]
    /\ {TokenLifetime, ClockSkew, LicenseExpiresAt, MaxTime} \subseteq Nat
    /\ DbAhead \in Int
    /\ CleanupFirst \subseteq BOOLEAN

VARIABLES
    now,        \* the server's clock
    account,    \* users.status
    license,    \* licenses.status; "revoked" stands for "expired" too
    device,     \* devices.status
    replays,    \* the rows of dpop_replays
    req         \* the requests

vars == <<now, account, license, device, replays, req>>
subject == <<account, license, device>>

ExpiresAt(t) == IssuedAt[t] + TokenLifetime
dbNow == now + DbAhead

Profile ==
    [account : {"active", "disabled"}, license : {"active", "revoked"},
     device : {"active", "revoked"}]

ReplayRow == [proof : Proof, expires : Nat]

\* admitted, consumedAt (database time) and late (it arrived when the account
\* or the device was already out) record the past of the request.
RequestState ==
    [pc : {"idle", "consume", "load", "respond", "done"},
     token : Token \cup {NoToken}, proof : Proof \cup {NoProof},
     profile : Profile \cup {NoProfile}, admitted : BOOLEAN, consumedAt : Int,
     late : BOOLEAN, served : BOOLEAN]

Fresh ==
    [pc |-> "idle", token |-> NoToken, proof |-> NoProof, profile |-> NoProfile,
     admitted |-> FALSE, consumedAt |-> 0, late |-> FALSE, served |-> FALSE]

\* An answered request keeps the record of its past only.
Answered(q, ok) ==
    IF q.admitted THEN [q EXCEPT !.pc = "done", !.profile = NoProfile, !.served = ok]
                  ELSE [Fresh EXCEPT !.pc = "done"]

-----------------------------------------------------------------------------
Init ==
    /\ now = 0
    /\ account = "active" /\ license = "active" /\ device = "active"
    /\ replays = {}
    /\ req = [r \in Request |-> Fresh]

Tick ==
    /\ now < MaxTime
    /\ now' = now + 1
    /\ UNCHANGED <<subject, replays, req>>

\* TokenVerifier.Verify and the expiry check after it.
Verify(t) == IssuedAt[t] <= now /\ now < ExpiresAt(t)

VerifyDPoP(t, p) ==
    /\ BoundTo[p] = t
    /\ now - ClockSkew <= ProofIat[p]
    /\ ProofIat[p] <= now + ClockSkew
    /\ ProofIat[p] < ExpiresAt(t)

RequireSession(r, t, p) ==
    /\ req[r].pc = "idle"
    /\ req' = [req EXCEPT ![r] =
            IF Verify(t) /\ VerifyDPoP(t, p)
            THEN [Fresh EXCEPT !.pc = "consume", !.token = t, !.proof = p,
                               !.late = account # "active" \/ device # "active"]
            ELSE Answered(@, FALSE)]
    /\ UNCHANGED <<now, subject, replays>>

\* Mutant: the row outlives the proof by the clock skew, not the token.
RowOfProofLifetime(r) ==
    [proof |-> req[r].proof, expires |-> ProofIat[req[r].proof] + ClockSkew]

Row(r) == [proof |-> req[r].proof, expires |-> ExpiresAt(req[r].token)]

ExpiredRows == {row \in replays : row.expires < dbNow}

\* One statement deletes the expired rows and inserts the proof unless its
\* jti is there.  PostgreSQL leaves open which of the two runs first; its
\* executor runs the insert first, the statement's answer depends on it.
Conflicts(r, cleanupFirst) ==
    \E row \in (IF cleanupFirst THEN replays \ ExpiredRows ELSE replays) :
        row.proof = req[r].proof

StatementEffect(r, conflict) ==
    replays' = (replays \ ExpiredRows) \cup (IF conflict THEN {} ELSE {Row(r)})

ConsumeDPoP(r, cleanupFirst) ==
    LET conflict == Conflicts(r, cleanupFirst) IN
    /\ req[r].pc = "consume"
    /\ StatementEffect(r, conflict)
    /\ req' = [req EXCEPT ![r] =
            IF conflict THEN Answered(@, FALSE)
            ELSE [@ EXCEPT !.pc = "load", !.admitted = TRUE, !.consumedAt = dbNow]]
    /\ UNCHANGED <<now, subject>>

\* The statement commits but its result is lost: the request is refused.
ConsumeUnacknowledged(r, cleanupFirst) ==
    /\ req[r].pc = "consume"
    /\ StatementEffect(r, Conflicts(r, cleanupFirst))
    /\ req' = [req EXCEPT ![r] = Answered(@, FALSE)]
    /\ UNCHANGED <<now, subject>>

\* One SELECT joins the three rows.
LoadProfile(r) ==
    /\ req[r].pc = "load"
    /\ req' = [req EXCEPT ![r].pc = "respond",
                          ![r].profile = [account |-> account, license |-> license,
                                          device |-> device]]
    /\ UNCHANGED <<now, subject, replays>>

\* Mutant: the switch on the device status is missing.
AcceptsAnyDevice(profile) ==
    /\ profile.account = "active"
    /\ profile.license = "active"
    /\ LicenseExpiresAt > now

Accepts(profile) ==
    /\ profile.account = "active"
    /\ profile.license = "active"
    /\ LicenseExpiresAt > now
    /\ profile.device = "active"

handleMe(r) ==
    /\ req[r].pc = "respond"
    /\ req' = [req EXCEPT ![r] = Answered(@, Accepts(@.profile))]
    /\ UNCHANGED <<now, subject, replays>>

\* A database error, a cancelled request context or a crash of the server
\* before the step took effect.
Abort(r) ==
    /\ req[r].pc \in {"consume", "load", "respond"}
    /\ req' = [req EXCEPT ![r] = Answered(@, FALSE)]
    /\ UNCHANGED <<now, subject, replays>>

(* Operators change rows directly in the database.                         *)

DisableAccount ==
    /\ account = "active"
    /\ account' = "disabled"
    /\ UNCHANGED <<now, license, device, replays, req>>

SetLicenseStatus(status) ==
    /\ license # status
    /\ license' = status
    /\ UNCHANGED <<now, account, device, replays, req>>

RevokeDevice ==
    /\ device = "active"
    /\ device' = "revoked"
    /\ UNCHANGED <<now, account, license, replays, req>>

Operator ==
    \/ DisableAccount
    \/ \E status \in {"active", "revoked"} : SetLicenseStatus(status)
    \/ RevokeDevice

Handle(r) ==
    \/ \E t \in Token, p \in Proof : RequireSession(r, t, p)
    \/ \E first \in CleanupFirst : ConsumeDPoP(r, first) \/ ConsumeUnacknowledged(r, first)
    \/ LoadProfile(r)
    \/ handleMe(r)
    \/ Abort(r)

Next == Tick \/ Operator \/ \E r \in Request : Handle(r)

Spec == Init /\ [][Next]_vars

-----------------------------------------------------------------------------
\* Rows and requests keep their types: every row of dpop_replays stands for a
\* proof.
TypeOK ==
    /\ now \in Nat
    /\ account \in {"active", "disabled"}
    /\ license \in {"active", "revoked"}
    /\ device \in {"active", "revoked"}
    /\ replays \subseteq ReplayRow
    /\ req \in [Request -> RequestState]

\* A proof that two requests carried is admitted twice only once the token it
\* is bound to is past its expiry on the database's clock: duplicates in any
\* interleaving with the checks, the cleanup of the table and lost results,
\* and whatever the difference between the two clocks.
OnceWhileTokenLive ==
    \A r, q \in Request :
        (r # q /\ req[r].admitted /\ req[q].admitted /\ req[r].proof = req[q].proof)
            => \/ req[r].consumedAt > ExpiresAt(req[r].token)
               \/ req[q].consumedAt > ExpiresAt(req[q].token)

\* The comment on ConsumeDPoP, literally: a proof is admitted once.
AdmittedOnce ==
    \A r, q \in Request :
        (r # q /\ req[r].admitted /\ req[q].admitted) => req[r].proof # req[q].proof

\* A token outlives the account and the device it was issued for by up to ten
\* minutes, but no request that arrives after either was taken out is answered
\* with the profile: the checks are on rows read after the arrival.
OutIsOut == \A r \in Request : req[r].served => ~req[r].late
=============================================================================
