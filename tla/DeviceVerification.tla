------------------------- MODULE DeviceVerification -------------------------
(***************************************************************************)
(* POST /v1/auth/login and POST /v1/device/verify over one PostgreSQL      *)
(* database, served by any number of concurrent requests (goroutines of    *)
(* one or of several server instances).                                    *)
(*                                                                         *)
(* A verification is one database transaction that locks the session and   *)
(* challenge rows, then the license row, then the license's device rows,   *)
(* in that order, and commits the device write, the session's new status   *)
(* and the consumed challenge together; the token is issued after the      *)
(* commit.  Each statement that can wait is a step of its own.  The clock  *)
(* is read once, before the first lock (policyNow).                        *)
(*                                                                         *)
(* A user owns one license of the product (unique user, product), so the   *)
(* account status is indexed by license.  Rejected requests end without an *)
(* effect: their error codes are not part of the state.                    *)
(***************************************************************************)
EXTENDS DeviceMatch

CONSTANTS
    Request,            \* concurrent HTTP requests
    Session,            \* auth_sessions ids, each with its device_challenge
    License,            \* licenses of the product
    DeviceId,           \* devices ids
    Machine,            \* what clients present, a subset of DeviceSignals
    NoSession, NoLicense, NoDevice,
    MaxDevices,         \* licenses.max_devices
    LicenseExpiresAt,   \* licenses.expires_at
    ChallengeLifetime,  \* 2 minutes in the code
    VerifyTimeout,      \* deviceVerifyTimeout, 10 seconds in the code
    TokenLifetime,      \* sessionTokenLifetime, 600 seconds in the code
    MaxTime             \* bound on the clock

ASSUME VerificationAssumption ==
    /\ Machine \subseteq DeviceSignals
    /\ NoSession \notin Session
    /\ NoLicense \notin License
    /\ NoDevice \notin DeviceId
    /\ IsFiniteSet(DeviceId)
    /\ MaxDevices \in [License -> Nat \ {0}]
    /\ LicenseExpiresAt \in [License -> Nat]
    /\ {ChallengeLifetime, VerifyTimeout, TokenLifetime, MaxTime} \subseteq Nat

VARIABLES
    now,        \* the servers' clock
    account,    \* users.status of the license's owner
    license,    \* licenses.status
    session,    \* auth_sessions joined with device_challenges
    device,     \* devices
    req,        \* the requests in flight
    tokens      \* session tokens issued so far

vars == <<now, account, license, session, device, req, tokens>>

-----------------------------------------------------------------------------
(* Rows, and the state of a request.                                       *)

SessionRow ==
    [status : {"none", "pending", "verified"}, license : License \cup {NoLicense},
     expiresAt : Nat, consumed : BOOLEAN]

EmptySession ==
    [status |-> "none", license |-> NoLicense, expiresAt |-> 0, consumed |-> FALSE]

NoSignals ==
    [tpm |-> NoSignal, smbios |-> NoSignal, motherboard |-> NoSignal,
     bios |-> NoSignal, systemDisk |-> NoSignal, machineGuid |-> NoSignal]

DeviceRow ==
    [status : {"none", "active", "revoked"}, license : License \cup {NoLicense},
     signals : DeviceSignals \cup {NoSignals}]

EmptyDevice == [status |-> "none", license |-> NoLicense, signals |-> NoSignals]

\* pc names the statement the request executes next.
PC == {"idle", "insertSession", "lockChallenge", "lockLicense", "listDevices",
       "commit", "issueToken"}

RequestState ==
    [pc : PC, session : Session \cup {NoSession},
     answers : Session \cup {NoSession}, machine : Machine \cup {NoSignals},
     license : License \cup {NoLicense}, policyNow : Nat,
     write : {"none", "create", "update"}, target : DeviceId \cup {NoDevice}]

Idle ==
    [pc |-> "idle", session |-> NoSession, answers |-> NoSession,
     machine |-> NoSignals, license |-> NoLicense, policyNow |-> 0,
     write |-> "none", target |-> NoDevice]

Token ==
    [session : Session, license : License, device : DeviceId, jkt : TpmKey,
     issuedAt : Nat]

\* The rows ListDevices returns for a license.
DevicesOf(l) == {d \in DeviceId : device[d].license = l}
RowsOf(l) == [d \in DevicesOf(l) |-> device[d]]
ActiveDevices(l) == {d \in DevicesOf(l) : device[d].status = "active"}

\* Row locks follow from where each transaction stands.
HoldsChallenge(r, s) ==
    req[r].pc \in {"lockLicense", "listDevices", "commit"} /\ req[r].session = s
HoldsLicense(r, l) ==
    req[r].pc \in {"listDevices", "commit"} /\ req[r].license = l
HoldsDevices(r, l) ==
    req[r].pc = "commit" /\ req[r].license = l

ChallengeFree(s) == \A r \in Request : ~HoldsChallenge(r, s)

\* LockLicense without FOR UPDATE. (mutant)
LicenseNeverLocked(l) == TRUE

\* A license lock that waiting transactions already count as taken. (mutant)
LicenseFreeOfWaiters(l) ==
    \A r \in Request : ~(req[r].pc \in {"lockLicense", "listDevices", "commit"}
                          /\ req[r].license = l)

LicenseFree(l) == \A r \in Request : ~HoldsLicense(r, l)

DevicesFree(l) == \A r \in Request : ~HoldsDevices(r, l)

\* No deadline on the request context. (mutant)
AlwaysInTime(r) == TRUE

\* The request context (context.WithTimeout in handleDeviceVerify) is alive.
InTime(r) == now <= req[r].policyNow + VerifyTimeout

Finish(r) == req' = [req EXCEPT ![r] = Idle]

-----------------------------------------------------------------------------
Init ==
    /\ now = 0
    /\ account = [l \in License |-> "active"]
    /\ license = [l \in License |-> "active"]
    /\ session = [s \in Session |-> EmptySession]
    /\ device = [d \in DeviceId |-> EmptyDevice]
    /\ req = [r \in Request |-> Idle]
    /\ tokens = {}

Tick ==
    /\ now < MaxTime
    /\ now' = now + 1
    /\ UNCHANGED <<account, license, session, device, req, tokens>>

(* LoginService.Login: the reads and checks, then the insert.  Nothing is  *)
(* locked in between, so the account or license may change meanwhile.      *)

\* Session ids are fresh: s is reserved for the insert that will use it.
LoginCheck(r, s, l) ==
    /\ req[r].pc = "idle"
    /\ session[s].status = "none"
    /\ \A q \in Request : ~(req[q].pc = "insertSession" /\ req[q].session = s)
    /\ account[l] = "active"
    /\ license[l] = "active"
    /\ LicenseExpiresAt[l] > now
    /\ req' = [req EXCEPT ![r] =
            [Idle EXCEPT !.pc = "insertSession", !.session = s,
                         !.license = l, !.policyNow = now]]
    /\ UNCHANGED <<now, account, license, session, device, tokens>>

\* The foreign key of the inserted row takes a key-share lock on the license
\* row, which waits for a verification that holds it FOR UPDATE.
CreatePendingSession(r) ==
    LET s == req[r].session IN
    /\ req[r].pc = "insertSession"
    /\ LicenseFree(req[r].license)
    /\ session' = [session EXCEPT ![s] =
            [status |-> "pending", license |-> req[r].license,
             expiresAt |-> req[r].policyNow + ChallengeLifetime,
             consumed |-> FALSE]]
    /\ Finish(r)
    /\ UNCHANGED <<now, account, license, device, tokens>>

(* DeviceService.Verify.                                                   *)

\* The client names session s, and signed the challenge of session a (a is
\* NoSession when the signature is not valid for the presented key).
BeginVerify(r, s, a, m) ==
    /\ req[r].pc = "idle"
    /\ req' = [req EXCEPT ![r] =
            [Idle EXCEPT !.pc = "lockChallenge", !.session = s, !.answers = a,
                         !.machine = m, !.policyNow = now]]
    /\ UNCHANGED <<now, account, license, session, device, tokens>>

\* The checks on the locked row, with the time read before the lock.
ChallengeAccepted(r) ==
    LET row == session[req[r].session] IN
    /\ row.status = "pending"
    /\ ~row.consumed
    /\ row.expiresAt > req[r].policyNow
    /\ req[r].answers = req[r].session

LockChallenge(r) ==
    /\ req[r].pc = "lockChallenge"
    /\ InTime(r)
    /\ ChallengeFree(req[r].session)
    /\ IF ChallengeAccepted(r)
       THEN req' = [req EXCEPT ![r] =
                [@ EXCEPT !.pc = "lockLicense",
                          !.license = session[req[r].session].license]]
       ELSE Finish(r)
    /\ UNCHANGED <<now, account, license, session, device, tokens>>

LicenseAccepted(r) ==
    /\ license[req[r].license] = "active"
    /\ LicenseExpiresAt[req[r].license] > req[r].policyNow

LockLicense(r) ==
    /\ req[r].pc = "lockLicense"
    /\ InTime(r)
    /\ LicenseFree(req[r].license)
    /\ IF LicenseAccepted(r)
       THEN req' = [req EXCEPT ![r].pc = "listDevices"]
       ELSE Finish(r)
    /\ UNCHANGED <<now, account, license, session, device, tokens>>

\* Device ids are fresh.
UnusedDevice(d) ==
    device[d].status = "none" /\ \A q \in Request : req[q].target # d

\* The insert violates unique (license_id, tpm_public_key_sha256).
KeyTaken(l, k) == \E d \in DevicesOf(l) : device[d].signals.tpm = k

\* ListDevices FOR UPDATE, matchDevice, and the device write, which other
\* transactions see only after the commit.
UpdateMatched(r) ==
    LET rows == RowsOf(req[r].license)
        m    == req[r].machine
    IN  /\ ~AnyRefuses(rows, m)
        /\ \E d \in BestMatches(rows, m) :
              req' = [req EXCEPT ![r] =
                        [@ EXCEPT !.pc = "commit", !.write = "update", !.target = d]]

CanCreate(r) ==
    LET l == req[r].license
        m == req[r].machine
    IN  /\ ~AnyRefuses(RowsOf(l), m)
        /\ BestMatches(RowsOf(l), m) = {}
        /\ Cardinality(ActiveDevices(l)) < MaxDevices[l]
        /\ ~KeyTaken(l, m.tpm)

CreateUnmatched(r) ==
    /\ CanCreate(r)
    /\ \E d \in DeviceId :
          /\ UnusedDevice(d)
          /\ req' = [req EXCEPT ![r] =
                    [@ EXCEPT !.pc = "commit", !.write = "create", !.target = d]]

\* A revoked row refuses, the limit is reached, or the insert fails.
RefuseDevice(r) ==
    LET rows == RowsOf(req[r].license)
        m    == req[r].machine
    IN  /\ \/ AnyRefuses(rows, m)
           \/ BestMatches(rows, m) = {} /\ ~CanCreate(r)
        /\ Finish(r)

ListDevices(r) ==
    /\ req[r].pc = "listDevices"
    /\ InTime(r)
    /\ UpdateMatched(r) \/ CreateUnmatched(r) \/ RefuseDevice(r)
    /\ UNCHANGED <<now, account, license, session, device, tokens>>

\* UpdateDevice writes every signal except the TPM key.
WrittenRow(r) ==
    LET q == req[r] IN
    IF q.write = "create"
    THEN [status |-> "active", license |-> q.license, signals |-> q.machine]
    ELSE [device[q.target] EXCEPT
            !.signals = [q.machine EXCEPT !.tpm = device[q.target].signals.tpm]]

\* The transaction writes the device but neither marks the session verified
\* nor consumes the challenge. (mutant)
DeviceWriteOnly(r) ==
    /\ req[r].pc = "commit"
    /\ device' = [device EXCEPT ![req[r].target] = WrittenRow(r)]
    /\ UNCHANGED <<now, account, license, session, tokens>>

\* What the commit makes visible.  Each UPDATE must have affected one row.
CommittedWrites(r) ==
    LET q == req[r] IN
    /\ q.pc = "commit"
    /\ session[q.session].status = "pending" /\ ~session[q.session].consumed
    /\ q.write = "update" => device[q.target].status = "active"
    /\ device' = [device EXCEPT ![q.target] = WrittenRow(r)]
    /\ session' = [session EXCEPT ![q.session].status = "verified",
                                  ![q.session].consumed = TRUE]
    /\ UNCHANGED <<now, account, license, tokens>>

Commit(r) ==
    /\ InTime(r)
    /\ CommittedWrites(r)
    /\ req' = [req EXCEPT ![r].pc = "issueToken"]

\* The database commits but the server never learns it (connection lost,
\* deadline or crash while COMMIT is in flight).
CommitUnacknowledged(r) ==
    /\ CommittedWrites(r)
    /\ Finish(r)

\* Issue rejects claims that are not valid now.  The token binds the key that
\* signed the challenge.
IssueToken(r) ==
    LET q == req[r] IN
    /\ q.pc = "issueToken"
    /\ tokens' = IF now < q.policyNow + TokenLifetime
                 THEN tokens \cup
                        {[session |-> q.session, license |-> q.license,
                          device |-> q.target, jkt |-> q.machine.tpm,
                          issuedAt |-> q.policyNow]}
                 ELSE tokens
    /\ Finish(r)
    /\ UNCHANGED <<now, account, license, session, device>>

\* The context expires while a statement waits: rollback.
Timeout(r) ==
    /\ req[r].pc \in {"lockChallenge", "lockLicense", "listDevices", "commit"}
    /\ ~InTime(r)
    /\ Finish(r)
    /\ UNCHANGED <<now, account, license, session, device, tokens>>

\* A database error, a cancelled request or a crash of the server: the open
\* transaction rolls back, the response is never sent.
Abort(r) ==
    /\ req[r].pc # "idle"
    /\ Finish(r)
    /\ UNCHANGED <<now, account, license, session, device, tokens>>

(* Operators change rows directly in the database.                         *)

DisableAccount(l) ==
    /\ account[l] = "active"
    /\ account' = [account EXCEPT ![l] = "disabled"]
    /\ UNCHANGED <<now, license, session, device, req, tokens>>

SetLicenseStatus(l, status) ==
    /\ license[l] # status
    /\ LicenseFree(l)
    /\ license' = [license EXCEPT ![l] = status]
    /\ UNCHANGED <<now, account, session, device, req, tokens>>

RevokeDevice(d) ==
    /\ device[d].status = "active"
    /\ DevicesFree(device[d].license)
    /\ device' = [device EXCEPT ![d].status = "revoked"]
    /\ UNCHANGED <<now, account, license, session, req, tokens>>

Operator ==
    \/ \E l \in License : \/ DisableAccount(l)
                         \/ \E st \in {"active", "revoked"} : SetLicenseStatus(l, st)
    \/ \E d \in DeviceId : RevokeDevice(d)

Arrive(r) ==
    \E s \in Session :
        \/ \E l \in License : LoginCheck(r, s, l)
        \/ \E a \in {s, NoSession}, m \in Machine : BeginVerify(r, s, a, m)

Locking(r) == LockChallenge(r) \/ LockLicense(r) \/ CreatePendingSession(r)

Working(r) == ListDevices(r) \/ Commit(r) \/ IssueToken(r) \/ Timeout(r)

Next ==
    \/ Tick
    \/ Operator
    \/ \E r \in Request :
          Arrive(r) \/ Locking(r) \/ Working(r) \/ CommitUnacknowledged(r) \/ Abort(r)

Spec == Init /\ [][Next]_vars

\* PostgreSQL queues the waiters of a row lock, and a goroutine that can run
\* is scheduled; clients, operators, failures and the clock owe nothing.
Fairness == \A r \in Request : SF_vars(Locking(r)) /\ WF_vars(Working(r))

FairSpec == Spec /\ Fairness

-----------------------------------------------------------------------------
\* Rows, requests in flight and tokens keep their types: every token names a
\* device row, whichever way Verify found or created it.
TypeOK ==
    /\ now \in Nat
    /\ account \in [License -> {"active", "disabled"}]
    /\ license \in [License -> {"active", "revoked"}]
    /\ session \in [Session -> SessionRow]
    /\ device \in [DeviceId -> DeviceRow]
    /\ req \in [Request -> RequestState]
    /\ tokens \subseteq Token

\* However many verifications of a license run at once, and however they
\* fail, a license never has more active devices than max_devices: the count
\* matchDevice takes is still right when CreateDevice commits.
DeviceLimit ==
    \A l \in License : Cardinality(ActiveDevices(l)) <= MaxDevices[l]

\* A login session yields at most one token, whatever is retried after a
\* timeout, a lost response or an unacknowledged commit.
OneTokenPerSession ==
    \A t, u \in tokens : t.session = u.session => t = u

\* The device a token names belongs to the token's license and holds the very
\* key the token is bound to (cnf.jkt), although Verify takes the first from
\* the matched row and the second from the request.
TokenBoundToDeviceKey ==
    \A t \in tokens :
        /\ device[t.device].signals.tpm = t.jkt
        /\ device[t.device].license = t.license
        /\ session[t.session].license = t.license

Verifying(s) == session[s].status # "verified" /\ session'[s].status = "verified"

\* A session becomes verified only while its license row is active and the
\* device bound to it is an active row of that license: a revocation between
\* the checks of Verify and its commit waits for the commit.
VerifiedOnlyWhileLive ==
    [][\A s \in Session : Verifying(s) =>
         \E r \in Request :
            /\ req[r].pc = "commit" /\ req[r].session = s
            /\ license[session[s].license] = "active"
            /\ device'[req[r].target].status = "active"
            /\ device'[req[r].target].license = session[s].license]_vars

\* The expiry checks use a time read before the lock waits.  A commit the
\* server learns of is still less than VerifyTimeout past the expiry of the
\* challenge and of the license.
LateCommitBounded ==
    [][\A r \in Request :
         (req[r].pc = "commit" /\ req'[r].pc = "issueToken") =>
            /\ now < session[req[r].session].expiresAt + VerifyTimeout
            /\ now < LicenseExpiresAt[req[r].license] + VerifyTimeout]_vars

\* Every request ends: the lock order session, license, devices admits no
\* cycle of waiting transactions.
EveryRequestEnds ==
    \A r \in Request : (req[r].pc # "idle") ~> (req[r].pc = "idle")

\* The transactions implement the atomic promise of Activation.
Bindings(status) ==
    {<<device[d].license, device[d].signals.tpm>> :
        d \in {e \in DeviceId : device[e].status = status}}

ActivationSpec == INSTANCE Activation WITH
    redeemed <- {s \in Session : session[s].consumed},
    active <- Bindings("active"),
    banned <- Bindings("revoked"),
    granted <- {<<t.session, t.license, t.jkt>> : t \in tokens}

\* Seen through the committed rows and the tokens issued, every step of the
\* concurrent, failing requests is a step of Activation or no step at all.
ImplementsActivation == ActivationSpec!Spec
=============================================================================
