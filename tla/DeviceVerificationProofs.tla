---------------------- MODULE DeviceVerificationProofs ----------------------
(***************************************************************************)
(* DeviceVerification, proved for every set of requests, sessions,         *)
(* licenses, devices and machines and for every limit and lifetime.        *)
(***************************************************************************)
EXTENDS DeviceVerification, FiniteSetTheorems, TLAPS

InTransaction == {"lockLicense", "listDevices", "commit"}

\* At most one transaction holds a challenge, and at most one a license.
LockInv ==
    \A r, q \in Request : r # q =>
        /\ (req[r].pc \in InTransaction /\ req[q].pc \in InTransaction)
              => req[r].session # req[q].session
        /\ (req[r].pc \in {"listDevices", "commit"}
              /\ req[q].pc \in {"listDevices", "commit"})
              => req[r].license # req[q].license

\* What a request knows of its session; an insert owns its fresh id.
SessionInv ==
    /\ \A s \in Session :
          /\ session[s].consumed <=> session[s].status = "verified"
          /\ session[s].status # "none" => session[s].license \in License
    /\ \A r \in Request :
          /\ req[r].pc # "idle" => req[r].session \in Session
          /\ req[r].pc \notin {"idle", "insertSession"} => req[r].machine \in Machine
          /\ req[r].pc = "insertSession" =>
                req[r].license \in License /\ session[req[r].session].status = "none"
          /\ req[r].pc \in InTransaction \cup {"issueToken"} =>
                req[r].license = session[req[r].session].license
          /\ req[r].pc \in InTransaction => session[req[r].session].status = "pending"
          /\ req[r].pc = "issueToken" => session[req[r].session].status = "verified"
    /\ \A r, q \in Request :
          (r # q /\ req[r].pc = "insertSession" /\ req[q].pc = "insertSession")
             => req[r].session # req[q].session

\* Device rows, and the write a transaction is about to commit.
DeviceInv ==
    /\ \A d \in DeviceId :
          /\ device[d].status = "none" => device[d].license = NoLicense
          /\ device[d].status # "none" =>
                device[d].license \in License /\ device[d].signals \in DeviceSignals
    /\ \A r \in Request :
          /\ req[r].pc \in {"commit", "issueToken"} => req[r].target \in DeviceId
          /\ req[r].pc = "commit" => req[r].write \in {"create", "update"}
          /\ (req[r].pc = "commit" /\ req[r].write = "create") =>
                /\ device[req[r].target].status = "none"
                /\ \A q \in Request \ {r} : req[q].target # req[r].target
          /\ (req[r].pc = "commit" /\ req[r].write = "update") =>
                device[req[r].target].status = "active"
          /\ req[r].pc = "issueToken" => device[req[r].target].status # "none"
          /\ req[r].pc = "issueToken" \/ (req[r].pc = "commit" /\ req[r].write = "update") =>
                /\ device[req[r].target].license = req[r].license
                /\ device[req[r].target].signals.tpm = req[r].machine.tpm

\* The room a creating transaction found is still there.
LimitInv ==
    /\ DeviceLimit
    /\ \A r \in Request, l \in License :
          (req[r].pc = "commit" /\ req[r].write = "create" /\ req[r].license = l) =>
             Cardinality(ActiveDevices(l)) < MaxDevices[l]

\* Tokens, and the tokens about to be issued.
TokenInv ==
    /\ TokenBoundToDeviceKey
    /\ OneTokenPerSession
    /\ \A t \in tokens : device[t.device].status # "none"
                         /\ session[t.session].status = "verified"
    /\ \A r \in Request : req[r].pc = "issueToken" =>
          /\ \A t \in tokens : t.session # req[r].session
          /\ \A q \in Request \ {r} :
                req[q].pc = "issueToken" => req[q].session # req[r].session

IInv == TypeOK /\ LockInv /\ SessionInv /\ DeviceInv /\ LimitInv /\ TokenInv

-----------------------------------------------------------------------------
\* The non-TPM signals of ScoreDevice are worth 50 of the 70 points a match
\* needs, so a machine matches a row only with the row's own TPM key.
THEOREM MatchNeedsTpmKey ==
    ASSUME NEW stored, NEW presented,
           ScoreDevice(stored, presented) >= deviceMatchThreshold
    PROVE  stored.tpm = presented.tpm
BY DEF ScoreDevice, Points, signalMatches, deviceMatchThreshold

LEMMA AddWithinLimit ==
    ASSUME NEW S, NEW x, NEW n \in Nat, IsFiniteSet(S), Cardinality(S) < n
    PROVE  Cardinality(S \cup {x}) <= n
<1>1. Cardinality(S) \in Nat
  BY FS_CardinalityType
<1>2. Cardinality(S \cup {x}) \in {Cardinality(S), Cardinality(S) + 1}
  BY FS_AddElement
<1> QED BY <1>1, <1>2

LEMMA InitIInv == Init => IInv
<1> SUFFICES ASSUME Init PROVE IInv
  OBVIOUS
<1> USE VerificationAssumption DEF Init
<1>1. TypeOK
  BY DEF TypeOK, SessionRow, EmptySession, DeviceRow, EmptyDevice, RequestState,
         Idle, PC, NoSignals
<1>2. LockInv /\ SessionInv /\ DeviceInv
  BY DEF LockInv, SessionInv, DeviceInv, Idle, InTransaction, EmptySession, EmptyDevice
<1>3. LimitInv
  <2>1. \A l \in License : ActiveDevices(l) = {}
    BY DEF ActiveDevices, DevicesOf, EmptyDevice
  <2>2. \A l \in License : Cardinality(ActiveDevices(l)) = 0 /\ MaxDevices[l] \in Nat
    BY <2>1, FS_EmptySet
  <2> QED BY <2>2 DEF LimitInv, DeviceLimit, Idle
<1>4. TokenInv
  BY DEF TokenInv, TokenBoundToDeviceKey, OneTokenPerSession, Idle
<1> QED BY <1>1, <1>2, <1>3, <1>4 DEF IInv

\* A request that ends without writing preserves the invariant.
LEMMA FinishIInv ==
    ASSUME IInv, NEW r \in Request, Finish(r),
           UNCHANGED <<now, account, license, session, device, tokens>>
    PROVE  IInv'
<1>1. req' \in [Request -> RequestState]
  BY VerificationAssumption
     DEF IInv, TypeOK, Finish, RequestState, Idle, PC, NoSignals
<1>2. \A q \in Request : req'[q] = IF q = r THEN Idle ELSE req[q]
  BY DEF IInv, TypeOK, Finish
<1>3. Idle.pc = "idle" /\ Idle.target = NoDevice /\ NoDevice \notin DeviceId
  BY VerificationAssumption DEF Idle
<1>4. TypeOK'
  BY <1>1 DEF IInv, TypeOK
<1>5. LockInv'
  BY <1>2, <1>3 DEF IInv, LockInv, InTransaction
<1>6. SessionInv'
  BY <1>2, <1>3 DEF IInv, SessionInv, InTransaction
<1>7. DeviceInv'
  BY <1>2, <1>3 DEF IInv, DeviceInv
<1>8. LimitInv'
  BY <1>2, <1>3 DEF IInv, LimitInv, DeviceLimit, ActiveDevices, DevicesOf
<1>9. TokenInv'
  BY <1>2, <1>3 DEF IInv, TokenInv, TokenBoundToDeviceKey, OneTokenPerSession
<1> QED BY <1>4, <1>5, <1>6, <1>7, <1>8, <1>9 DEF IInv

\* A login request starts.
LEMMA LoginCheckIInv ==
    ASSUME IInv, NEW r \in Request, NEW s \in Session, NEW l \in License,
           LoginCheck(r, s, l)
    PROVE  IInv'
<1> DEFINE new == [Idle EXCEPT !.pc = "insertSession", !.session = s,
                               !.license = l, !.policyNow = now]
<1>1. new \in RequestState /\ new.pc = "insertSession" /\ new.session = s
      /\ new.license = l /\ new.target = NoDevice
  BY VerificationAssumption DEF IInv, TypeOK, RequestState, Idle, PC
<1> HIDE DEF new
<1>2. \A q \in Request : req'[q] = IF q = r THEN new ELSE req[q]
  BY DEF IInv, TypeOK, LoginCheck, new
<1>3. NoDevice \notin DeviceId /\ session[s].status = "none"
      /\ \A q \in Request : ~(req[q].pc = "insertSession" /\ req[q].session = s)
  BY VerificationAssumption DEF LoginCheck
<1>4. UNCHANGED <<now, account, license, session, device, tokens>>
  BY DEF LoginCheck
<1>5. TypeOK'
  BY <1>1, <1>4 DEF IInv, TypeOK, LoginCheck, new
<1>6. LockInv'
  BY <1>1, <1>2 DEF IInv, LockInv, InTransaction
<1>7. SessionInv'
  BY <1>1, <1>2, <1>3, <1>4 DEF IInv, SessionInv, InTransaction
<1>8. DeviceInv'
  BY <1>1, <1>2, <1>3, <1>4 DEF IInv, DeviceInv
<1>9. LimitInv'
  BY <1>1, <1>2, <1>4 DEF IInv, LimitInv, DeviceLimit, ActiveDevices, DevicesOf
<1>10. TokenInv'
  BY <1>1, <1>2, <1>4 DEF IInv, TokenInv, TokenBoundToDeviceKey, OneTokenPerSession
<1> QED BY <1>5, <1>6, <1>7, <1>8, <1>9, <1>10 DEF IInv

\* A verification request starts.
LEMMA BeginVerifyIInv ==
    ASSUME IInv, NEW r \in Request, NEW s \in Session,
           NEW a \in Session \cup {NoSession}, NEW m \in Machine,
           BeginVerify(r, s, a, m)
    PROVE  IInv'
<1> DEFINE new == [Idle EXCEPT !.pc = "lockChallenge", !.session = s,
                               !.answers = a, !.machine = m, !.policyNow = now]
<1>1. new \in RequestState /\ new.pc = "lockChallenge" /\ new.session = s
      /\ new.machine = m /\ new.target = NoDevice
  BY VerificationAssumption DEF IInv, TypeOK, RequestState, Idle, PC
<1> HIDE DEF new
<1>2. \A q \in Request : req'[q] = IF q = r THEN new ELSE req[q]
  BY DEF IInv, TypeOK, BeginVerify, new
<1>3. NoDevice \notin DeviceId
  BY VerificationAssumption
<1>4. UNCHANGED <<now, account, license, session, device, tokens>>
  BY DEF BeginVerify
<1>5. TypeOK'
  BY <1>1, <1>4 DEF IInv, TypeOK, BeginVerify, new
<1>6. LockInv'
  BY <1>1, <1>2 DEF IInv, LockInv, InTransaction
<1>7. SessionInv'
  BY <1>1, <1>2, <1>4 DEF IInv, SessionInv, InTransaction
<1>8. DeviceInv'
  BY <1>1, <1>2, <1>3, <1>4 DEF IInv, DeviceInv
<1>9. LimitInv'
  BY <1>1, <1>2, <1>4 DEF IInv, LimitInv, DeviceLimit, ActiveDevices, DevicesOf
<1>10. TokenInv'
  BY <1>1, <1>2, <1>4 DEF IInv, TokenInv, TokenBoundToDeviceKey, OneTokenPerSession
<1> QED BY <1>5, <1>6, <1>7, <1>8, <1>9, <1>10 DEF IInv

LEMMA LockChallengeIInv ==
    ASSUME IInv, NEW r \in Request, LockChallenge(r)
    PROVE  IInv'
<1>1. CASE ~ChallengeAccepted(r)
  BY <1>1, FinishIInv DEF LockChallenge
<1>2. CASE ChallengeAccepted(r)
  <2> DEFINE s == req[r].session
             new == [req[r] EXCEPT !.pc = "lockLicense", !.license = session[s].license]
  <2>1. s \in Session /\ req[r] \in RequestState /\ req[r].machine \in Machine
        /\ session[s] \in SessionRow
    BY DEF IInv, TypeOK, SessionInv, LockChallenge
  <2>2. new \in RequestState /\ new.pc = "lockLicense" /\ new.session = s
        /\ new.license = session[s].license /\ new.machine = req[r].machine
        /\ new.target = req[r].target
    BY <2>1 DEF RequestState, PC, SessionRow
  <2>3. /\ session[s].status = "pending"
        /\ \A q \in Request : req[q].pc \in InTransaction => req[q].session # s
        /\ req[r].pc = "lockChallenge"
    BY <1>2 DEF LockChallenge, ChallengeAccepted, ChallengeFree, HoldsChallenge,
                InTransaction
  <2>4. req' = [req EXCEPT ![r] = new]
        /\ UNCHANGED <<now, account, license, session, device, tokens>>
    BY <1>2 DEF LockChallenge
  <2> HIDE DEF new, s
  <2>5. \A q \in Request : req'[q] = IF q = r THEN new ELSE req[q]
    BY <2>4 DEF IInv, TypeOK
  <2>6. TypeOK'
    BY <2>2, <2>4 DEF IInv, TypeOK
  <2>7. LockInv'
    BY <2>2, <2>3, <2>5 DEF IInv, LockInv, InTransaction
  <2>8. SessionInv'
    BY <2>1, <2>2, <2>3, <2>4, <2>5 DEF IInv, SessionInv, InTransaction
  <2>9. DeviceInv'
    BY <2>2, <2>3, <2>4, <2>5 DEF IInv, DeviceInv
  <2>10. LimitInv'
    BY <2>2, <2>4, <2>5 DEF IInv, LimitInv, DeviceLimit, ActiveDevices, DevicesOf
  <2>11. TokenInv'
    BY <2>2, <2>4, <2>5 DEF IInv, TokenInv, TokenBoundToDeviceKey, OneTokenPerSession
  <2> QED BY <2>6, <2>7, <2>8, <2>9, <2>10, <2>11 DEF IInv
<1> QED BY <1>1, <1>2

LEMMA LockLicenseIInv ==
    ASSUME IInv, NEW r \in Request, LockLicense(r)
    PROVE  IInv'
<1>1. CASE ~LicenseAccepted(r)
  BY <1>1, FinishIInv DEF LockLicense
<1>2. CASE LicenseAccepted(r)
  <2> DEFINE new == [req[r] EXCEPT !.pc = "listDevices"]
  <2>1. req[r] \in RequestState
    BY DEF IInv, TypeOK
  <2>2. new \in RequestState /\ new.pc = "listDevices" /\ new.session = req[r].session
        /\ new.license = req[r].license /\ new.machine = req[r].machine
        /\ new.target = req[r].target
    BY <2>1 DEF RequestState, PC
  <2>3. /\ \A q \in Request : req[q].pc \in {"listDevices", "commit"} =>
                                req[q].license # req[r].license
        /\ req[r].pc = "lockLicense"
    BY DEF LockLicense, LicenseFree, HoldsLicense
  <2>4. req' = [req EXCEPT ![r] = new]
        /\ UNCHANGED <<now, account, license, session, device, tokens>>
    BY <1>2 DEF LockLicense
  <2> HIDE DEF new
  <2>5. \A q \in Request : req'[q] = IF q = r THEN new ELSE req[q]
    BY <2>4 DEF IInv, TypeOK
  <2>6. TypeOK'
    BY <2>2, <2>4 DEF IInv, TypeOK
  <2>7. LockInv'
    BY <2>2, <2>3, <2>5 DEF IInv, LockInv, InTransaction
  <2>8. SessionInv'
    BY <2>2, <2>3, <2>4, <2>5 DEF IInv, SessionInv, InTransaction
  <2>9. DeviceInv'
    BY <2>2, <2>3, <2>4, <2>5 DEF IInv, DeviceInv
  <2>10. LimitInv'
    BY <2>2, <2>4, <2>5 DEF IInv, LimitInv, DeviceLimit, ActiveDevices, DevicesOf
  <2>11. TokenInv'
    BY <2>2, <2>4, <2>5 DEF IInv, TokenInv, TokenBoundToDeviceKey, OneTokenPerSession
  <2> QED BY <2>6, <2>7, <2>8, <2>9, <2>10, <2>11 DEF IInv
<1> QED BY <1>1, <1>2

\* A transaction that decided its device write goes on to the commit.
LEMMA DecidedIInv ==
    ASSUME IInv, NEW r \in Request, NEW d \in DeviceId,
           NEW w \in {"create", "update"},
           req[r].pc = "listDevices",
           req' = [req EXCEPT ![r] =
                      [@ EXCEPT !.pc = "commit", !.write = w, !.target = d]],
           UNCHANGED <<now, account, license, session, device, tokens>>,
           w = "create" =>
              /\ UnusedDevice(d)
              /\ Cardinality(ActiveDevices(req[r].license)) < MaxDevices[req[r].license],
           w = "update" =>
              /\ device[d].status = "active"
              /\ device[d].license = req[r].license
              /\ device[d].signals.tpm = req[r].machine.tpm
    PROVE  IInv'
<1> DEFINE new == [req[r] EXCEPT !.pc = "commit", !.write = w, !.target = d]
<1>1. req[r] \in RequestState
  BY DEF IInv, TypeOK
<1>2. new \in RequestState /\ new.pc = "commit" /\ new.session = req[r].session
      /\ new.license = req[r].license /\ new.machine = req[r].machine
      /\ new.target = d /\ new.write = w
  BY <1>1 DEF RequestState, PC
<1>3. w = "create" => device[d].status = "none"
                      /\ \A q \in Request : req[q].target # d
  BY DEF UnusedDevice
<1>4. req' = [req EXCEPT ![r] = new]
  OBVIOUS
<1> HIDE DEF new
<1>5. \A q \in Request : req'[q] = IF q = r THEN new ELSE req[q]
  BY <1>4 DEF IInv, TypeOK
<1>6. TypeOK'
  BY <1>2, <1>4 DEF IInv, TypeOK
<1>7. LockInv'
  BY <1>2, <1>5 DEF IInv, LockInv, InTransaction
<1>8. SessionInv'
  BY <1>2, <1>5 DEF IInv, SessionInv, InTransaction
<1>9. DeviceInv'
  BY <1>2, <1>3, <1>5 DEF IInv, DeviceInv
<1>10. LimitInv'
  <2>1. \A l \in License : ActiveDevices(l)' = ActiveDevices(l)
    BY DEF ActiveDevices, DevicesOf
  <2> QED BY <1>2, <1>5, <2>1 DEF IInv, LimitInv, DeviceLimit
<1>11. TokenInv'
  BY <1>2, <1>5 DEF IInv, TokenInv, TokenBoundToDeviceKey, OneTokenPerSession
<1> QED BY <1>6, <1>7, <1>8, <1>9, <1>10, <1>11 DEF IInv

LEMMA ListDevicesIInv ==
    ASSUME IInv, NEW r \in Request, ListDevices(r)
    PROVE  IInv'
<1>1. CASE UpdateMatched(r)
  <2>1. PICK d \in BestMatches(RowsOf(req[r].license), req[r].machine) :
           req' = [req EXCEPT ![r] =
                     [@ EXCEPT !.pc = "commit", !.write = "update", !.target = d]]
    BY <1>1 DEF UpdateMatched
  <2>2. /\ d \in DeviceId /\ device[d].license = req[r].license
        /\ device[d].status = "active"
        /\ ScoreDevice(device[d].signals, req[r].machine) >= deviceMatchThreshold
    BY DEF BestMatches, Candidates, Eligible, RowsOf, DevicesOf
  <2>3. device[d].signals.tpm = req[r].machine.tpm
    BY <2>2, MatchNeedsTpmKey
  <2>4. req[r].pc = "listDevices"
        /\ UNCHANGED <<now, account, license, session, device, tokens>>
    BY DEF ListDevices
  <2> QED BY <2>1, <2>2, <2>3, <2>4, DecidedIInv
<1>2. CASE CreateUnmatched(r)
  <2>1. PICK d \in DeviceId :
           /\ UnusedDevice(d)
           /\ req' = [req EXCEPT ![r] =
                        [@ EXCEPT !.pc = "commit", !.write = "create", !.target = d]]
    BY <1>2 DEF CreateUnmatched
  <2>2. Cardinality(ActiveDevices(req[r].license)) < MaxDevices[req[r].license]
    BY <1>2 DEF CreateUnmatched, CanCreate
  <2>3. req[r].pc = "listDevices"
        /\ UNCHANGED <<now, account, license, session, device, tokens>>
    BY DEF ListDevices
  <2> QED BY <2>1, <2>2, <2>3, DecidedIInv
<1>3. CASE RefuseDevice(r)
  BY <1>3, FinishIInv DEF ListDevices, RefuseDevice
<1> QED BY <1>1, <1>2, <1>3 DEF ListDevices

\* The committed writes, whether the server learns of the commit or not.
LEMMA CommitIInv ==
    ASSUME IInv, NEW r \in Request, CommittedWrites(r),
           \/ Finish(r)
           \/ req' = [req EXCEPT ![r].pc = "issueToken"]
    PROVE  IInv'
<1> DEFINE q0  == req[r]
           s == q0.session
           l == q0.license
           d == q0.target
           row == WrittenRow(r)
           after == [session[s] EXCEPT !.status = "verified", !.consumed = TRUE]
           new == req'[r]
<1>1. /\ s \in Session /\ q0.machine \in Machine /\ q0 \in RequestState
      /\ d \in DeviceId /\ device[d] \in DeviceRow /\ session[s] \in SessionRow
      /\ q0.write \in {"create", "update"} /\ q0.pc = "commit"
  BY DEF IInv, TypeOK, SessionInv, DeviceInv, CommittedWrites
<1>2. session[s].status = "pending" /\ l = session[s].license /\ l \in License
  BY <1>1 DEF IInv, SessionInv, InTransaction
<1>3. /\ q0.write = "create" => device[d].status = "none"
                                /\ \A q \in Request \ {r} : req[q].target # d
      /\ q0.write = "update" => /\ device[d].status = "active"
                                /\ device[d].license = l
                                /\ device[d].signals.tpm = q0.machine.tpm
                                /\ device[d].signals \in DeviceSignals
  BY <1>1 DEF IInv, DeviceInv
<1>4. row \in DeviceRow /\ row.status = "active" /\ row.license = l
      /\ row.signals.tpm = q0.machine.tpm /\ row.signals \in DeviceSignals
  <2>1. q0.machine \in DeviceSignals
    BY <1>1, VerificationAssumption
  <2>2. CASE q0.write = "create"
    BY <1>2, <2>1, <2>2 DEF WrittenRow, DeviceRow
  <2>3. CASE q0.write = "update"
    <3>1. [q0.machine EXCEPT !.tpm = device[d].signals.tpm] = q0.machine
      BY <1>3, <2>1, <2>3 DEF DeviceSignals
    <3>2. row = [device[d] EXCEPT !.signals = q0.machine]
      BY <2>3, <3>1 DEF WrittenRow
    <3> QED BY <1>1, <1>3, <2>1, <2>3, <3>2 DEF DeviceRow
  <2> QED BY <1>1, <2>2, <2>3
<1>5. after \in SessionRow /\ after.status = "verified" /\ after.consumed
      /\ after.license = l
  BY <1>1, <1>2 DEF SessionRow
<1>6. new \in RequestState
      /\ \/ new.pc = "idle" /\ new.target = NoDevice
         \/ /\ new.pc = "issueToken" /\ new.session = s /\ new.license = l
            /\ new.machine = q0.machine /\ new.target = d
  BY <1>1, VerificationAssumption
     DEF IInv, TypeOK, Finish, Idle, RequestState, PC, NoSignals
<1>7. \A q \in Request : req'[q] = IF q = r THEN new ELSE req[q]
  BY DEF IInv, TypeOK, Finish
<1>8. \A e \in DeviceId : device'[e] = IF e = d THEN row ELSE device[e]
  BY DEF IInv, TypeOK, CommittedWrites
<1>9. \A t \in Session : session'[t] = IF t = s THEN after ELSE session[t]
  BY DEF IInv, TypeOK, CommittedWrites
<1>10. UNCHANGED <<now, account, license, tokens>>
  BY DEF CommittedWrites
<1>11. TypeOK'
  <2>1. device' \in [DeviceId -> DeviceRow]
    BY <1>4 DEF IInv, TypeOK, CommittedWrites
  <2>2. session' \in [Session -> SessionRow]
    <3>1. session' = [session EXCEPT ![s] = after]
      BY <1>1, <1>9 DEF IInv, TypeOK, CommittedWrites
    <3> QED BY <1>5, <3>1 DEF IInv, TypeOK
  <2>3. req' \in [Request -> RequestState]
    BY <1>6, <1>7 DEF IInv, TypeOK, Finish
  <2> QED BY <1>10, <2>1, <2>2, <2>3 DEF IInv, TypeOK
<1> HIDE DEF row, after, new
<1>12. \A q \in Request \ {r} :
          /\ req[q].pc \in InTransaction => req[q].session # s
          /\ req[q].pc \in {"listDevices", "commit"} => req[q].license # l
  BY <1>1 DEF IInv, LockInv, InTransaction
<1>13. LockInv'
  BY <1>6, <1>7 DEF IInv, LockInv, InTransaction
<1>14. SessionInv'
  BY <1>1, <1>2, <1>5, <1>6, <1>7, <1>9, <1>12 DEF IInv, SessionInv, InTransaction
<1>15. DeviceInv'
  BY <1>1, <1>2, <1>3, <1>4, <1>6, <1>7, <1>8, <1>12, VerificationAssumption, SMTT(20)
     DEF IInv, DeviceInv
<1>16. LimitInv'
  <2>1. \A k \in License : IsFiniteSet(ActiveDevices(k))
    BY VerificationAssumption, FS_Subset DEF ActiveDevices, DevicesOf
  <2>2. ASSUME NEW k \in License, k # l \/ q0.write = "update"
        PROVE  ActiveDevices(k)' = ActiveDevices(k)
    BY <1>1, <1>3, <1>4, <1>8, <2>2 DEF ActiveDevices, DevicesOf, IInv, DeviceInv
  <2>3. ASSUME NEW k \in License, k = l, q0.write = "create"
        PROVE  Cardinality(ActiveDevices(k)') <= MaxDevices[k]
    <3>1. ActiveDevices(k)' = ActiveDevices(k) \cup {d}
      BY <1>1, <1>3, <1>4, <1>8, <2>3 DEF ActiveDevices, DevicesOf
    <3>2. Cardinality(ActiveDevices(k)) < MaxDevices[k]
      BY <1>1, <2>3 DEF IInv, LimitInv
    <3>3. MaxDevices[k] \in Nat
      BY VerificationAssumption
    <3>4. IsFiniteSet(ActiveDevices(k))
      BY <2>1
    <3> QED BY <3>1, <3>2, <3>3, <3>4, AddWithinLimit
  <2>4. ASSUME NEW k \in License
        PROVE  Cardinality(ActiveDevices(k)') <= MaxDevices[k]
    BY <1>1, <2>2, <2>3 DEF IInv, LimitInv, DeviceLimit
  <2>5. ASSUME NEW q \in Request, NEW k \in License,
               req'[q].pc = "commit" /\ req'[q].write = "create" /\ req'[q].license = k
        PROVE  Cardinality(ActiveDevices(k)') < MaxDevices[k]
    <3>1. q # r /\ req'[q] = req[q] /\ k # l
      BY <1>6, <1>7, <1>12, <2>5
    <3> QED BY <2>2, <2>5, <3>1 DEF IInv, LimitInv
  <2> QED BY <2>4, <2>5 DEF LimitInv, DeviceLimit
<1>17. TokenInv'
  BY <1>1, <1>2, <1>3, <1>4, <1>5, <1>6, <1>7, <1>8, <1>9, <1>10
     DEF IInv, TypeOK, Token, SessionInv, TokenInv, TokenBoundToDeviceKey, OneTokenPerSession
<1> QED BY <1>11, <1>13, <1>14, <1>15, <1>16, <1>17 DEF IInv

LEMMA CreatePendingSessionIInv ==
    ASSUME IInv, NEW r \in Request, CreatePendingSession(r)
    PROVE  IInv'
<1> DEFINE s   == req[r].session
           row == [status |-> "pending", license |-> req[r].license,
                   expiresAt |-> req[r].policyNow + ChallengeLifetime,
                   consumed |-> FALSE]
<1>1. /\ s \in Session /\ req[r] \in RequestState /\ req[r].license \in License
      /\ session[s].status = "none" /\ ~session[s].consumed
      /\ req[r].pc = "insertSession"
  BY DEF IInv, TypeOK, SessionInv, CreatePendingSession
<1>2. row \in SessionRow /\ row.status = "pending" /\ row.license \in License
      /\ ~row.consumed
  BY <1>1, VerificationAssumption DEF RequestState, SessionRow
<1>3. session' = [session EXCEPT ![s] = row] /\ Finish(r)
      /\ UNCHANGED <<now, account, license, device, tokens>>
  BY DEF CreatePendingSession
<1> HIDE DEF row, s
<1>4. req' \in [Request -> RequestState]
  BY <1>3, VerificationAssumption
     DEF IInv, TypeOK, Finish, RequestState, Idle, PC, NoSignals
<1>5. \A q \in Request : req'[q] = IF q = r THEN Idle ELSE req[q]
  BY <1>3 DEF IInv, TypeOK, Finish
<1>6. \A t \in Session : session'[t] = IF t = s THEN row ELSE session[t]
  BY <1>3 DEF IInv, TypeOK
<1>7. Idle.pc = "idle" /\ Idle.target = NoDevice /\ NoDevice \notin DeviceId
  BY VerificationAssumption DEF Idle
<1>8. TypeOK'
  BY <1>2, <1>3, <1>4 DEF IInv, TypeOK
<1>9. LockInv'
  BY <1>5, <1>7 DEF IInv, LockInv, InTransaction
<1>10. SessionInv'
  <2>1. \A q \in Request \ {r} : req[q].pc = "insertSession" => req[q].session # s
    BY <1>1 DEF IInv, SessionInv, s
  <2> QED BY <1>1, <1>2, <1>5, <1>6, <1>7, <2>1 DEF IInv, SessionInv, InTransaction
<1>11. DeviceInv'
  BY <1>3, <1>5, <1>7 DEF IInv, DeviceInv
<1>12. LimitInv'
  BY <1>3, <1>5, <1>7 DEF IInv, LimitInv, DeviceLimit, ActiveDevices, DevicesOf
<1>13. TokenInv'
  BY <1>1, <1>3, <1>5, <1>6, <1>7
     DEF IInv, TypeOK, Token, TokenInv, TokenBoundToDeviceKey, OneTokenPerSession
<1> QED BY <1>8, <1>9, <1>10, <1>11, <1>12, <1>13 DEF IInv

LEMMA IssueTokenIInv ==
    ASSUME IInv, NEW r \in Request, IssueToken(r)
    PROVE  IInv'
<1> DEFINE tok == [session |-> req[r].session, license |-> req[r].license,
                   device |-> req[r].target, jkt |-> req[r].machine.tpm,
                   issuedAt |-> req[r].policyNow]
<1>1. /\ req[r].session \in Session /\ req[r] \in RequestState
      /\ req[r].machine \in DeviceSignals
      /\ req[r].license = session[req[r].session].license
      /\ session[req[r].session].status = "verified"
      /\ req[r].license \in License
      /\ req[r].pc = "issueToken"
  BY VerificationAssumption DEF IInv, TypeOK, SessionInv, InTransaction, IssueToken
<1>2. /\ req[r].target \in DeviceId
      /\ device[req[r].target].status # "none"
      /\ device[req[r].target].license = req[r].license
      /\ device[req[r].target].signals.tpm = req[r].machine.tpm
  BY <1>1 DEF IInv, DeviceInv
<1>3. /\ tok \in Token /\ tok.session = req[r].session /\ tok.license = req[r].license
      /\ tok.device = req[r].target /\ tok.jkt = req[r].machine.tpm
  BY <1>1, <1>2 DEF Token, RequestState, DeviceSignals
<1>4. tokens' \in {tokens, tokens \cup {tok}} /\ Finish(r)
      /\ UNCHANGED <<now, account, license, session, device>>
  BY DEF IssueToken
<1> HIDE DEF tok
<1>5. req' \in [Request -> RequestState]
  BY <1>4, VerificationAssumption
     DEF IInv, TypeOK, Finish, RequestState, Idle, PC, NoSignals
<1>6. \A q \in Request : req'[q] = IF q = r THEN Idle ELSE req[q]
  BY <1>4 DEF IInv, TypeOK, Finish
<1>7. Idle.pc = "idle" /\ Idle.target = NoDevice /\ NoDevice \notin DeviceId
  BY VerificationAssumption DEF Idle
<1>8. TypeOK'
  BY <1>3, <1>4, <1>5 DEF IInv, TypeOK
<1>9. LockInv'
  BY <1>6, <1>7 DEF IInv, LockInv, InTransaction
<1>10. SessionInv'
  BY <1>4, <1>6, <1>7 DEF IInv, SessionInv, InTransaction
<1>11. DeviceInv'
  BY <1>4, <1>6, <1>7 DEF IInv, DeviceInv
<1>12. LimitInv'
  BY <1>4, <1>6, <1>7 DEF IInv, LimitInv, DeviceLimit, ActiveDevices, DevicesOf
<1>13. TokenInv'
  <2>1. \A t \in tokens' : t = tok \/ t \in tokens
    BY <1>4
  <2>2. /\ \A t \in tokens : t.session # req[r].session
        /\ \A q \in Request \ {r} :
              req[q].pc = "issueToken" => req[q].session # req[r].session
    BY <1>1 DEF IInv, TokenInv
  <2> QED BY <1>1, <1>2, <1>3, <1>4, <1>6, <1>7, <2>1, <2>2
          DEF IInv, TokenInv, TokenBoundToDeviceKey, OneTokenPerSession
<1> QED BY <1>8, <1>9, <1>10, <1>11, <1>12, <1>13 DEF IInv

LEMMA RevokeDeviceIInv ==
    ASSUME IInv, NEW d \in DeviceId, RevokeDevice(d)
    PROVE  IInv'
<1> DEFINE row == [device[d] EXCEPT !.status = "revoked"]
<1>1. device[d] \in DeviceRow /\ device[d].status = "active"
      /\ device' = [device EXCEPT ![d] = row]
      /\ UNCHANGED <<now, account, license, session, req, tokens>>
  BY DEF IInv, TypeOK, RevokeDevice
<1>2. row \in DeviceRow /\ row.status = "revoked" /\ row.license = device[d].license
      /\ row.signals = device[d].signals
  BY <1>1 DEF DeviceRow
<1> HIDE DEF row
<1>3. \A e \in DeviceId : device'[e] = IF e = d THEN row ELSE device[e]
  BY <1>1 DEF IInv, TypeOK
<1>4. \A r \in Request : req[r].pc = "commit" => req[r].license # device[d].license
  BY DEF RevokeDevice, DevicesFree, HoldsDevices
<1>5. TypeOK'
  BY <1>1, <1>2 DEF IInv, TypeOK
<1>6. LockInv' /\ SessionInv'
  BY <1>1 DEF IInv, LockInv, SessionInv
<1>7. DeviceInv'
  BY <1>1, <1>2, <1>3, <1>4 DEF IInv, DeviceInv
<1>8. LimitInv'
  <2>1. ASSUME NEW l \in License
        PROVE  /\ Cardinality(ActiveDevices(l)') <= Cardinality(ActiveDevices(l))
               /\ Cardinality(ActiveDevices(l)) \in Nat
               /\ Cardinality(ActiveDevices(l)') \in Nat
               /\ MaxDevices[l] \in Nat
    <3>1. ActiveDevices(l)' \subseteq ActiveDevices(l)
      BY <1>2, <1>3 DEF ActiveDevices, DevicesOf
    <3>2. IsFiniteSet(ActiveDevices(l))
      BY VerificationAssumption, FS_Subset DEF ActiveDevices, DevicesOf
    <3> QED BY <3>1, <3>2, FS_Subset, FS_CardinalityType, VerificationAssumption
  <2>2. DeviceLimit'
    BY <2>1 DEF IInv, LimitInv, DeviceLimit
  <2>3. ASSUME NEW r \in Request, NEW l \in License,
               req'[r].pc = "commit" /\ req'[r].write = "create" /\ req'[r].license = l
        PROVE  Cardinality(ActiveDevices(l)') < MaxDevices[l]
    <3>1. Cardinality(ActiveDevices(l)) < MaxDevices[l]
      BY <1>1, <2>3 DEF IInv, LimitInv
    <3> QED BY <2>1, <3>1
  <2> QED BY <2>2, <2>3 DEF LimitInv
<1>9. TokenInv'
  BY <1>1, <1>2, <1>3
     DEF IInv, TypeOK, Token, TokenInv, TokenBoundToDeviceKey, OneTokenPerSession
<1> QED BY <1>5, <1>6, <1>7, <1>8, <1>9 DEF IInv

\* Steps that touch only the clock, an account or a license's status.
LEMMA StatusIInv ==
    ASSUME IInv, UNCHANGED <<session, device, req, tokens>>,
           now' \in Nat, account' \in [License -> {"active", "disabled"}],
           license' \in [License -> {"active", "revoked"}]
    PROVE  IInv'
<1>1. TypeOK' /\ LockInv' /\ SessionInv' /\ DeviceInv'
  BY DEF IInv, TypeOK, LockInv, SessionInv, DeviceInv
<1>2. LimitInv' /\ TokenInv'
  BY DEF IInv, LimitInv, TokenInv, DeviceLimit, ActiveDevices, DevicesOf,
         TokenBoundToDeviceKey, OneTokenPerSession
<1> QED BY <1>1, <1>2 DEF IInv

LEMMA NextIInv == IInv /\ [Next]_vars => IInv'
<1> SUFFICES ASSUME IInv, [Next]_vars PROVE IInv'
  OBVIOUS
<1>1. CASE Tick
  BY <1>1, StatusIInv, VerificationAssumption DEF Tick, IInv, TypeOK
<1>2. CASE Operator
  <2>1. ASSUME NEW l \in License, DisableAccount(l) PROVE IInv'
    BY <2>1, StatusIInv DEF DisableAccount, IInv, TypeOK
  <2>2. ASSUME NEW l \in License, NEW st \in {"active", "revoked"},
               SetLicenseStatus(l, st)
        PROVE  IInv'
    BY <2>2, StatusIInv DEF SetLicenseStatus, IInv, TypeOK
  <2> QED BY <1>2, <2>1, <2>2, RevokeDeviceIInv DEF Operator
<1>3. ASSUME NEW r \in Request, Arrive(r) PROVE IInv'
  BY <1>3, LoginCheckIInv, BeginVerifyIInv DEF Arrive
<1>4. ASSUME NEW r \in Request, Locking(r) PROVE IInv'
  BY <1>4, LockChallengeIInv, LockLicenseIInv, CreatePendingSessionIInv DEF Locking
<1>5. ASSUME NEW r \in Request, Working(r) PROVE IInv'
  <2>1. CASE ListDevices(r)
    BY <2>1, ListDevicesIInv
  <2>2. CASE Commit(r)
    BY <2>2, CommitIInv DEF Commit
  <2>3. CASE IssueToken(r)
    BY <2>3, IssueTokenIInv
  <2>4. CASE Timeout(r)
    BY <2>4, FinishIInv DEF Timeout
  <2> QED BY <1>5, <2>1, <2>2, <2>3, <2>4 DEF Working
<1>6. ASSUME NEW r \in Request, CommitUnacknowledged(r) PROVE IInv'
  BY <1>6, CommitIInv DEF CommitUnacknowledged
<1>7. ASSUME NEW r \in Request, Abort(r) PROVE IInv'
  BY <1>7, FinishIInv DEF Abort
<1>8. CASE UNCHANGED vars
  BY <1>8, StatusIInv DEF vars, IInv, TypeOK
<1> QED BY <1>1, <1>2, <1>3, <1>4, <1>5, <1>6, <1>7, <1>8 DEF Next

\* The strengthened invariant of the verification transactions holds in every
\* reachable state, for any number of requests, sessions and licenses.
THEOREM Invariance == Spec => []IInv
BY InitIInv, NextIInv, PTL DEF Spec

\* Every row, request and token has its type in every reachable state.
THEOREM TypeCorrectness == Spec => []TypeOK
<1>1. IInv => TypeOK
  BY DEF IInv
<1> QED BY <1>1, Invariance, PTL

\* Concurrent verifications never push a license past its max_devices: the
\* license row lock keeps the count of matchDevice right until the commit.
THEOREM DeviceLimitHolds == Spec => []DeviceLimit
<1>1. IInv => DeviceLimit
  BY DEF IInv, LimitInv
<1> QED BY <1>1, Invariance, PTL

\* A login session yields at most one token, through retries, crashes and
\* unacknowledged commits.
THEOREM OneTokenPerSessionHolds == Spec => []OneTokenPerSession
<1>1. IInv => OneTokenPerSession
  BY DEF IInv, TokenInv
<1> QED BY <1>1, Invariance, PTL

\* The device named by a token holds the key the token is bound to.
THEOREM TokenBoundToDeviceKeyHolds == Spec => []TokenBoundToDeviceKey
<1>1. IInv => TokenBoundToDeviceKey
  BY DEF IInv, TokenInv
<1> QED BY <1>1, Invariance, PTL

-----------------------------------------------------------------------------
(* The expiry and status checks of Verify, and what the locks keep of them. *)

\* What a transaction found on its locked rows, with the time it had read
\* before, is still so.
Checked(q) ==
    /\ q.pc \in InTransaction => session[q.session].expiresAt > q.policyNow
    /\ q.pc \in {"listDevices", "commit"} =>
          license[q.license] = "active" /\ LicenseExpiresAt[q.license] > q.policyNow

CheckedInv == \A r \in Request : Checked(req[r])

\* One request moves and no session or license row changes.
LEMMA MoveChecked ==
    ASSUME IInv, CheckedInv, NEW r \in Request, NEW q, Checked(q),
           req' = [req EXCEPT ![r] = q], UNCHANGED <<session, license>>
    PROVE  CheckedInv'
<1>1. \A p \in Request : req'[p] = IF p = r THEN q ELSE req[p]
  BY DEF IInv, TypeOK
<1>2. \A x : Checked(x)' <=> Checked(x)
  BY DEF Checked
<1> QED BY <1>1, <1>2 DEF CheckedInv, Checked

LEMMA FinishChecked ==
    ASSUME IInv, CheckedInv, NEW r \in Request, Finish(r), UNCHANGED <<session, license>>
    PROVE  CheckedInv'
<1>1. Checked(Idle)
  BY DEF Checked, Idle, InTransaction
<1> QED BY <1>1, MoveChecked DEF Finish

\* The insert and the commit write session rows: the insert one no transaction
\* uses yet, the commit one of its own, whose expiry it keeps.
LEMMA SessionWriteChecked ==
    ASSUME IInv, CheckedInv, NEW r \in Request, UNCHANGED license,
           \/ CreatePendingSession(r)
           \/ CommittedWrites(r) /\ (Finish(r) \/ req' = [req EXCEPT ![r].pc = "issueToken"])
    PROVE  CheckedInv'
<1>1. \A p \in Request \ {r} : req'[p] = req[p]
  BY DEF IInv, TypeOK, CreatePendingSession, Finish
<1>2. req'[r].pc \in {"idle", "issueToken"}
  BY DEF IInv, TypeOK, RequestState, CreatePendingSession, Finish, Idle
<1>3. \A p \in Request \ {r} : req[p].pc \in InTransaction =>
         session'[req[p].session].expiresAt = session[req[p].session].expiresAt
  <2> SUFFICES ASSUME NEW p \in Request \ {r}, req[p].pc \in InTransaction
               PROVE  session'[req[p].session].expiresAt = session[req[p].session].expiresAt
    OBVIOUS
  <2>1. req[p].session \in Session /\ session[req[p].session].status = "pending"
    BY DEF IInv, SessionInv, InTransaction
  <2>2. CASE CreatePendingSession(r)
    <3>1. session[req[r].session].status = "none"
      BY <2>2 DEF IInv, SessionInv, CreatePendingSession
    <3>2. req[p].session # req[r].session
      BY <2>1, <3>1
    <3> QED BY <2>1, <2>2, <3>2 DEF IInv, TypeOK, CreatePendingSession
  <2>3. CASE CommittedWrites(r)
    <3>1. req[p].session # req[r].session
      BY <2>3 DEF IInv, LockInv, InTransaction, CommittedWrites
    <3> QED BY <2>1, <2>3, <3>1 DEF IInv, TypeOK, CommittedWrites
  <2> QED BY <2>2, <2>3
<1> QED BY <1>1, <1>2, <1>3 DEF CheckedInv, Checked, InTransaction

LEMMA NextChecked == ASSUME IInv, CheckedInv, [Next]_vars PROVE CheckedInv'
<1>1. ASSUME UNCHANGED <<session, license, req>> PROVE CheckedInv'
  BY <1>1 DEF CheckedInv, Checked
<1>2. CASE Tick
  BY <1>1, <1>2 DEF Tick
<1>3. CASE Operator
  <2>1. ASSUME NEW l \in License, DisableAccount(l) PROVE CheckedInv'
    BY <1>1, <2>1 DEF DisableAccount
  <2>2. ASSUME NEW l \in License, NEW st \in {"active", "revoked"}, SetLicenseStatus(l, st)
        PROVE  CheckedInv'
    <3>1. \A r \in Request : req[r].pc \in {"listDevices", "commit"} => req[r].license # l
      BY <2>2 DEF SetLicenseStatus, LicenseFree, HoldsLicense
    <3>2. \A k : k # l => license'[k] = license[k]
      BY <2>2 DEF SetLicenseStatus, IInv, TypeOK
    <3> QED BY <2>2, <3>1, <3>2 DEF SetLicenseStatus, CheckedInv, Checked
  <2>3. ASSUME NEW d \in DeviceId, RevokeDevice(d) PROVE CheckedInv'
    BY <1>1, <2>3 DEF RevokeDevice
  <2> QED BY <1>3, <2>1, <2>2, <2>3 DEF Operator
<1>4. ASSUME NEW r \in Request, Arrive(r) PROVE CheckedInv'
  <2>1. ASSUME NEW u \in Session, NEW l \in License, LoginCheck(r, u, l) PROVE CheckedInv'
    <3> DEFINE q == [Idle EXCEPT !.pc = "insertSession", !.session = u,
                                 !.license = l, !.policyNow = now]
    <3>1. Checked(q)
      BY DEF Checked, Idle, InTransaction
    <3> QED BY <2>1, <3>1, MoveChecked DEF LoginCheck
  <2>2. ASSUME NEW u \in Session, NEW a, NEW m, BeginVerify(r, u, a, m) PROVE CheckedInv'
    <3> DEFINE q == [Idle EXCEPT !.pc = "lockChallenge", !.session = u, !.answers = a,
                                 !.machine = m, !.policyNow = now]
    <3>1. Checked(q)
      BY DEF Checked, Idle, InTransaction
    <3> QED BY <2>2, <3>1, MoveChecked DEF BeginVerify
  <2> QED BY <1>4, <2>1, <2>2 DEF Arrive
<1>5. ASSUME NEW r \in Request, Locking(r) PROVE CheckedInv'
  <2>1. req[r] \in RequestState
    BY DEF IInv, TypeOK
  <2>2. CASE LockChallenge(r)
    <3>1. CASE ChallengeAccepted(r)
      <4> DEFINE q == [req[r] EXCEPT !.pc = "lockLicense",
                                     !.license = session[req[r].session].license]
      <4>1. q.pc = "lockLicense" /\ q.session = req[r].session /\ q.policyNow = req[r].policyNow
        BY <2>1 DEF RequestState
      <4>2. req' = [req EXCEPT ![r] = q] /\ UNCHANGED <<session, license>>
        BY <2>2, <3>1 DEF LockChallenge
      <4> HIDE DEF q
      <4>3. Checked(q)
        BY <3>1, <4>1 DEF ChallengeAccepted, Checked
      <4> QED BY <4>2, <4>3, MoveChecked
    <3>2. CASE ~ChallengeAccepted(r)
      BY <2>2, <3>2, FinishChecked DEF LockChallenge
    <3> QED BY <3>1, <3>2
  <2>3. CASE LockLicense(r)
    <3>1. CASE LicenseAccepted(r)
      <4> DEFINE q == [req[r] EXCEPT !.pc = "listDevices"]
      <4>1. q.pc = "listDevices" /\ q.session = req[r].session /\ q.policyNow = req[r].policyNow
            /\ q.license = req[r].license
        BY <2>1 DEF RequestState
      <4>2. req' = [req EXCEPT ![r] = q] /\ UNCHANGED <<session, license>>
        BY <2>3, <3>1 DEF LockLicense
      <4>3. Checked(req[r]) /\ req[r].pc = "lockLicense"
        BY <2>3 DEF CheckedInv, LockLicense
      <4> HIDE DEF q
      <4>4. Checked(q)
        BY <3>1, <4>1, <4>3 DEF LicenseAccepted, Checked, InTransaction
      <4> QED BY <4>2, <4>4, MoveChecked
    <3>2. CASE ~LicenseAccepted(r)
      BY <2>3, <3>2, FinishChecked DEF LockLicense
    <3> QED BY <3>1, <3>2
  <2>4. CASE CreatePendingSession(r)
    BY <2>4, SessionWriteChecked DEF CreatePendingSession
  <2> QED BY <1>5, <2>2, <2>3, <2>4 DEF Locking
<1>6. ASSUME NEW r \in Request, ListDevices(r) PROVE CheckedInv'
  <2>1. CASE RefuseDevice(r)
    BY <1>6, <2>1, FinishChecked DEF ListDevices, RefuseDevice
  <2>2. ASSUME NEW w, NEW d,
               req' = [req EXCEPT ![r] =
                         [@ EXCEPT !.pc = "commit", !.write = w, !.target = d]]
        PROVE  CheckedInv'
    <3> DEFINE q == [req[r] EXCEPT !.pc = "commit", !.write = w, !.target = d]
    <3>1. req[r] \in RequestState
      BY DEF IInv, TypeOK
    <3>2. q.pc = "commit" /\ q.session = req[r].session /\ q.policyNow = req[r].policyNow
          /\ q.license = req[r].license
      BY <3>1 DEF RequestState
    <3>3. req' = [req EXCEPT ![r] = q] /\ UNCHANGED <<session, license>>
      BY <1>6, <2>2 DEF ListDevices
    <3>4. Checked(req[r]) /\ req[r].pc = "listDevices"
      BY <1>6 DEF CheckedInv, ListDevices
    <3> HIDE DEF q
    <3>5. Checked(q)
      BY <3>2, <3>4 DEF Checked, InTransaction
    <3> QED BY <3>3, <3>5, MoveChecked
  <2> QED BY <1>6, <2>1, <2>2 DEF ListDevices, UpdateMatched, CreateUnmatched
<1>7. ASSUME NEW r \in Request, Commit(r) \/ CommitUnacknowledged(r) PROVE CheckedInv'
  BY <1>7, SessionWriteChecked DEF Commit, CommitUnacknowledged, CommittedWrites
<1>8. ASSUME NEW r \in Request, IssueToken(r) \/ Timeout(r) \/ Abort(r) PROVE CheckedInv'
  BY <1>8, FinishChecked DEF IssueToken, Timeout, Abort
<1>9. CASE UNCHANGED vars
  BY <1>1, <1>9 DEF vars
<1> QED BY <1>2, <1>3, <1>4, <1>5, <1>6, <1>7, <1>8, <1>9 DEF Next, Working

\* The checks Verify made under its locks hold until it commits.
THEOREM CheckedInvariance == Spec => []CheckedInv
<1>1. Init => CheckedInv
  BY DEF Init, CheckedInv, Checked, Idle, InTransaction
<1> QED BY <1>1, Invariance, NextChecked, PTL DEF Spec

\* What a commit writes: the row of an active device of the license, under the
\* key of the machine, and a session that was pending.
LEMMA CommitWrites ==
    ASSUME IInv, NEW r \in Request, CommittedWrites(r)
    PROVE  LET q == req[r] IN
           /\ q.pc = "commit" /\ q.session \in Session /\ q.license \in License
           /\ q.license = session[q.session].license /\ q.machine.tpm \in TpmKey
           /\ q.target \in DeviceId /\ q.write \in {"create", "update"}
           /\ session[q.session].status = "pending" /\ ~session[q.session].consumed
           /\ \A e \in DeviceId \ {q.target} : device'[e] = device[e]
           /\ \A u \in Session \ {q.session} : session'[u] = session[u]
           /\ session'[q.session].consumed
           /\ device'[q.target].status = "active" /\ device'[q.target].license = q.license
           /\ device'[q.target].signals.tpm = q.machine.tpm
           /\ q.write = "create" => device[q.target].status = "none"
           /\ q.write = "update" =>
                 /\ device[q.target].status = "active" /\ device[q.target].license = q.license
                 /\ device[q.target].signals.tpm = q.machine.tpm
<1> DEFINE q == req[r]
           d == q.target
<1>1. /\ q.session \in Session /\ q.machine \in Machine /\ d \in DeviceId
      /\ device[d] \in DeviceRow /\ session[q.session] \in SessionRow
      /\ q.write \in {"create", "update"} /\ q.pc = "commit"
  BY DEF IInv, TypeOK, SessionInv, DeviceInv, CommittedWrites
<1>2. /\ session[q.session].status = "pending" /\ ~session[q.session].consumed
      /\ q.license = session[q.session].license /\ q.license \in License
  BY <1>1 DEF IInv, SessionInv, InTransaction, CommittedWrites
<1>3. q.machine \in DeviceSignals
  BY <1>1, VerificationAssumption
<1>4. /\ q.write = "create" => device[d].status = "none"
      /\ q.write = "update" => /\ device[d].status = "active"
                               /\ device[d].license = q.license
                               /\ device[d].signals.tpm = q.machine.tpm
  BY <1>1 DEF IInv, DeviceInv
<1>5. /\ device' = [device EXCEPT ![d] = WrittenRow(r)]
      /\ session' = [session EXCEPT ![q.session].status = "verified",
                                    ![q.session].consumed = TRUE]
  BY DEF CommittedWrites
<1>6. /\ \A e \in DeviceId \ {d} : device'[e] = device[e]
      /\ \A u \in Session \ {q.session} : session'[u] = session[u]
      /\ session'[q.session].consumed /\ device'[d] = WrittenRow(r)
  BY <1>1, <1>5 DEF IInv, TypeOK, SessionRow
<1>7. WrittenRow(r).status = "active" /\ WrittenRow(r).license = q.license
      /\ WrittenRow(r).signals.tpm = q.machine.tpm
  <2>1. CASE q.write = "create"
    BY <2>1 DEF WrittenRow
  <2>2. CASE q.write = "update"
    <3>1. [q.machine EXCEPT !.tpm = device[d].signals.tpm].tpm = q.machine.tpm
      BY <1>3, <1>4, <2>2 DEF DeviceSignals
    <3> QED BY <1>1, <1>4, <2>2, <3>1 DEF WrittenRow, DeviceRow
  <2> QED BY <1>1, <2>1, <2>2
<1> QED BY <1>1, <1>2, <1>3, <1>4, <1>6, <1>7 DEF DeviceSignals

\* A session is verified by the commit of a transaction of its own only.
LEMMA OnlyCommitVerifies ==
    ASSUME IInv, [Next]_vars, NEW s \in Session, Verifying(s)
    PROVE  \E r \in Request : CommittedWrites(r) /\ req[r].session = s
<1>1. session'[s] # session[s]
  BY DEF Verifying
<1>2. ASSUME NEW r \in Request, CreatePendingSession(r) PROVE FALSE
  <2>1. session'[s].status \in {session[s].status, "pending"}
    BY <1>2 DEF CreatePendingSession, IInv, TypeOK
  <2> QED BY <2>1 DEF Verifying
<1>3. \E r \in Request : CommittedWrites(r)
  BY <1>1, <1>2 DEF Next, vars, Tick, Operator, DisableAccount, SetLicenseStatus, RevokeDevice,
        Arrive, LoginCheck, BeginVerify, Locking, LockChallenge, LockLicense, Working,
        ListDevices, Commit, IssueToken, Timeout, CommitUnacknowledged, Abort
<1> QED BY <1>1, <1>3, CommitWrites

\* A session becomes verified only while its license is active and through an
\* active device of that license: operators wait for the row locks of Verify.
THEOREM VerifiedOnlyWhileLiveHolds == Spec => VerifiedOnlyWhileLive
<1> DEFINE Live == \A s \in Session : Verifying(s) =>
         \E r \in Request :
            /\ req[r].pc = "commit" /\ req[r].session = s
            /\ license[session[s].license] = "active"
            /\ device'[req[r].target].status = "active"
            /\ device'[req[r].target].license = session[s].license
<1>1. ASSUME IInv, CheckedInv, [Next]_vars PROVE Live
  <2> SUFFICES ASSUME NEW s \in Session, Verifying(s)
               PROVE  \E r \in Request :
                         /\ req[r].pc = "commit" /\ req[r].session = s
                         /\ license[session[s].license] = "active"
                         /\ device'[req[r].target].status = "active"
                         /\ device'[req[r].target].license = session[s].license
    OBVIOUS
  <2>1. PICK r \in Request : CommittedWrites(r) /\ req[r].session = s
    BY <1>1, OnlyCommitVerifies
  <2>2. license[req[r].license] = "active"
    BY <1>1, <2>1 DEF CheckedInv, Checked, CommittedWrites
  <2> QED BY <1>1, <2>1, <2>2, CommitWrites
<1> HIDE DEF Live
<1>2. IInv /\ CheckedInv /\ [Next]_vars => [Live]_vars
  BY <1>1
<1> QED BY <1>2, Invariance, CheckedInvariance, PTL
        DEF Spec, VerifiedOnlyWhileLive, Live

\* A commit the server learns of is less than VerifyTimeout past the expiry of
\* the challenge and of the license, however long it waited for its locks.
THEOREM LateCommitBoundedHolds == Spec => LateCommitBounded
<1> DEFINE Bounded == \A r \in Request :
         (req[r].pc = "commit" /\ req'[r].pc = "issueToken") =>
            /\ now < session[req[r].session].expiresAt + VerifyTimeout
            /\ now < LicenseExpiresAt[req[r].license] + VerifyTimeout
<1>1. ASSUME IInv, CheckedInv, [Next]_vars PROVE Bounded
  <2> SUFFICES ASSUME NEW r \in Request, req[r].pc = "commit", req'[r].pc = "issueToken"
               PROVE  /\ now < session[req[r].session].expiresAt + VerifyTimeout
                      /\ now < LicenseExpiresAt[req[r].license] + VerifyTimeout
    OBVIOUS
  <2>1. \A q \in Request : req[q] \in RequestState
    BY <1>1 DEF IInv, TypeOK
  <2>2. \A q \in Request : q # r /\ req' # req =>
          ~Arrive(q) /\ ~Locking(q) /\ ~Working(q) /\ ~CommitUnacknowledged(q) /\ ~Abort(q)
    <3> SUFFICES ASSUME NEW q \in Request, q # r,
                        \/ Arrive(q) \/ Locking(q) \/ Working(q)
                        \/ CommitUnacknowledged(q) \/ Abort(q)
                 PROVE  req'[r] = req[r]
      OBVIOUS
    <3>1. \E x : req' = [req EXCEPT ![q] = x]
      BY DEF Arrive, LoginCheck, BeginVerify, Locking, LockChallenge, LockLicense,
             CreatePendingSession, Working, ListDevices, UpdateMatched, CreateUnmatched,
             RefuseDevice, Commit, IssueToken, Timeout, CommitUnacknowledged, Abort, Finish
    <3> QED BY <1>1, <3>1 DEF IInv, TypeOK
  <2>3. req' # req
    OBVIOUS
  <2>4. \/ Arrive(r) \/ Locking(r) \/ Working(r) \/ CommitUnacknowledged(r) \/ Abort(r)
    BY <1>1, <2>2, <2>3 DEF Next, vars, Tick, Operator, DisableAccount, SetLicenseStatus,
                            RevokeDevice
  <2>5. ~Finish(r)
    BY <1>1 DEF Finish, Idle, IInv, TypeOK
  <2>6. InTime(r)
    BY <2>4, <2>5 DEF Arrive, LoginCheck, BeginVerify, Locking, LockChallenge, LockLicense,
          CreatePendingSession, Working, ListDevices, Commit, IssueToken, Timeout,
          CommitUnacknowledged, Abort
  <2>7. /\ session[req[r].session].expiresAt > req[r].policyNow
        /\ LicenseExpiresAt[req[r].license] > req[r].policyNow
    BY <1>1 DEF CheckedInv, Checked, InTransaction
  <2>8. req[r].session \in Session /\ req[r].license \in License
    BY <1>1 DEF IInv, SessionInv, InTransaction
  <2>9. /\ now \in Nat /\ req[r].policyNow \in Nat /\ VerifyTimeout \in Nat
        /\ session[req[r].session].expiresAt \in Nat /\ LicenseExpiresAt[req[r].license] \in Nat
    BY <1>1, <2>1, <2>8, VerificationAssumption DEF IInv, TypeOK, RequestState, SessionRow
  <2> QED BY <2>6, <2>7, <2>9 DEF InTime
<1> HIDE DEF Bounded
<1>2. IInv /\ CheckedInv /\ [Next]_vars => [Bounded]_vars
  BY <1>1
<1> QED BY <1>2, Invariance, CheckedInvariance, PTL DEF Spec, LateCommitBounded, Bounded

-----------------------------------------------------------------------------
(* The unique (license, TPM key) of the devices table, and the refinement   *)
(* of Activation that rests on it.                                          *)

RowsDistinct ==
    \A d, e \in DeviceId :
        /\ device[d].status # "none" /\ device[e].status # "none"
        /\ device[d].license = device[e].license
        /\ device[d].signals.tpm = device[e].signals.tpm
        => d = e

\* No row holds the key that a transaction is about to insert.
Fresh(q) ==
    q.pc = "commit" /\ q.write = "create" => ~KeyTaken(q.license, q.machine.tpm)

KeyInv == RowsDistinct /\ \A r \in Request : Fresh(req[r])

\* One request moves and no device row changes.
LEMMA MoveKey ==
    ASSUME IInv, KeyInv, NEW r \in Request, NEW q, Fresh(q),
           req' = [req EXCEPT ![r] = q], UNCHANGED device
    PROVE  KeyInv'
<1>1. \A p \in Request : req'[p] = IF p = r THEN q ELSE req[p]
  BY DEF IInv, TypeOK
<1>2. \A x : Fresh(x)' <=> Fresh(x)
  BY DEF Fresh, KeyTaken, DevicesOf
<1>3. RowsDistinct'
  BY DEF KeyInv, RowsDistinct
<1> QED BY <1>1, <1>2, <1>3 DEF KeyInv, Fresh

LEMMA FinishKey ==
    ASSUME IInv, KeyInv, NEW r \in Request, Finish(r), UNCHANGED device
    PROVE  KeyInv'
<1>1. Fresh(Idle)
  BY DEF Fresh, Idle
<1> QED BY <1>1, MoveKey DEF Finish

\* The commit inserts a fresh key or keeps the key of the row it updates; a
\* transaction that inserts at the same time does so for another license.
LEMMA CommitKey ==
    ASSUME IInv, KeyInv, NEW r \in Request, CommittedWrites(r),
           Finish(r) \/ req' = [req EXCEPT ![r].pc = "issueToken"]
    PROVE  KeyInv'
<1> DEFINE l == req[r].license
           d == req[r].target
           k == req[r].machine.tpm
<1>1. /\ d \in DeviceId /\ \A e \in DeviceId \ {d} : device'[e] = device[e]
      /\ device'[d].status = "active" /\ device'[d].license = l
      /\ device'[d].signals.tpm = k /\ req[r].pc = "commit" /\ l \in License
      /\ req[r].write \in {"create", "update"}
      /\ req[r].write = "create" => device[d].status = "none"
      /\ req[r].write = "update" =>
            device[d].status = "active" /\ device[d].license = l /\ device[d].signals.tpm = k
  BY CommitWrites
<1>2. req[r].write = "create" =>
        \A e \in DeviceId : ~(device[e].license = l /\ device[e].signals.tpm = k)
  BY <1>1 DEF KeyInv, Fresh, KeyTaken, DevicesOf
<1>3. RowsDistinct'
  BY <1>1, <1>2 DEF KeyInv, RowsDistinct
<1>4. \A p \in Request \ {r} : req'[p] = req[p]
  BY DEF Finish, IInv, TypeOK
<1>5. Fresh(req[r])'
  BY DEF Finish, IInv, TypeOK, RequestState, Idle, Fresh
<1>6. ASSUME NEW p \in Request \ {r} PROVE Fresh(req[p])'
  <2> SUFFICES ASSUME req[p].pc = "commit", req[p].write = "create"
               PROVE  ~KeyTaken(req[p].license, req[p].machine.tpm)'
    BY <1>4 DEF Fresh
  <2>1. req[p].license # l
    BY <1>1 DEF IInv, LockInv
  <2>2. ~KeyTaken(req[p].license, req[p].machine.tpm)
    BY DEF KeyInv, Fresh
  <2>3. req'[p].license = req[p].license /\ req'[p].machine = req[p].machine
    BY <1>4
  <2> QED BY <1>1, <2>1, <2>2, <2>3 DEF KeyTaken, DevicesOf
<1> QED BY <1>3, <1>5, <1>6 DEF KeyInv

LEMMA NextKey == ASSUME IInv, KeyInv, [Next]_vars PROVE KeyInv'
<1>1. ASSUME UNCHANGED <<device, req>> PROVE KeyInv'
  BY <1>1 DEF KeyInv, RowsDistinct, Fresh, KeyTaken, DevicesOf
<1>2. CASE Tick \/ UNCHANGED vars
  BY <1>1, <1>2 DEF Tick, vars
<1>3. CASE Operator
  <2>1. ASSUME NEW l \in License, DisableAccount(l) PROVE KeyInv'
    BY <1>1, <2>1 DEF DisableAccount
  <2>2. ASSUME NEW l \in License, NEW st \in {"active", "revoked"}, SetLicenseStatus(l, st)
        PROVE  KeyInv'
    BY <1>1, <2>2 DEF SetLicenseStatus
  <2>3. ASSUME NEW d \in DeviceId, RevokeDevice(d) PROVE KeyInv'
    <3>1. /\ UNCHANGED req /\ device[d].status = "active"
          /\ \A e \in DeviceId : /\ device'[e].license = device[e].license
                                 /\ device'[e].signals = device[e].signals
                                 /\ e # d => device'[e].status = device[e].status
      BY <2>3 DEF RevokeDevice, IInv, TypeOK, DeviceRow
    <3>2. RowsDistinct'
      BY <3>1 DEF KeyInv, RowsDistinct
    <3>3. \A l, k : KeyTaken(l, k)' <=> KeyTaken(l, k)
      BY <3>1 DEF KeyTaken, DevicesOf
    <3> QED BY <3>1, <3>2, <3>3 DEF KeyInv, Fresh
  <2> QED BY <1>3, <2>1, <2>2, <2>3 DEF Operator
<1>4. ASSUME NEW r \in Request, NEW q, q.pc # "commit", req' = [req EXCEPT ![r] = q],
             UNCHANGED device
      PROVE  KeyInv'
  <2>1. Fresh(q)
    BY <1>4 DEF Fresh
  <2> QED BY <1>4, <2>1, MoveKey
<1>5. ASSUME NEW r \in Request, Arrive(r) PROVE KeyInv'
  <2>1. ASSUME NEW u \in Session, NEW l \in License, LoginCheck(r, u, l) PROVE KeyInv'
    BY <1>4, <2>1 DEF LoginCheck, Idle
  <2>2. ASSUME NEW u \in Session, NEW a, NEW m, BeginVerify(r, u, a, m) PROVE KeyInv'
    BY <1>4, <2>2 DEF BeginVerify, Idle
  <2> QED BY <1>5, <2>1, <2>2 DEF Arrive
<1>6. ASSUME NEW r \in Request, Locking(r) PROVE KeyInv'
  <2>1. req[r] \in RequestState
    BY DEF IInv, TypeOK
  <2>2. CASE LockChallenge(r) /\ ChallengeAccepted(r)
    <3> DEFINE q == [req[r] EXCEPT !.pc = "lockLicense",
                                   !.license = session[req[r].session].license]
    <3>1. q.pc # "commit"
      BY <2>1 DEF RequestState
    <3> QED BY <1>4, <2>2, <3>1 DEF LockChallenge
  <2>3. CASE LockLicense(r) /\ LicenseAccepted(r)
    <3> DEFINE q == [req[r] EXCEPT !.pc = "listDevices"]
    <3>1. q.pc # "commit"
      BY <2>1 DEF RequestState
    <3>2. req' = [req EXCEPT ![r] = q]
      BY <2>3 DEF LockLicense
    <3> QED BY <1>4, <2>3, <3>1, <3>2 DEF LockLicense
  <2>4. CASE Finish(r) /\ UNCHANGED device
    BY <2>4, FinishKey
  <2> QED BY <1>6, <2>2, <2>3, <2>4
          DEF Locking, LockChallenge, LockLicense, CreatePendingSession
<1>7. ASSUME NEW r \in Request, ListDevices(r) PROVE KeyInv'
  <2>1. req[r] \in RequestState /\ UNCHANGED device
    BY <1>7 DEF IInv, TypeOK, ListDevices
  <2>2. CASE RefuseDevice(r)
    BY <2>1, <2>2, FinishKey DEF RefuseDevice
  <2>3. CASE UpdateMatched(r)
    <3>1. PICK d : req' = [req EXCEPT ![r] =
                              [@ EXCEPT !.pc = "commit", !.write = "update", !.target = d]]
      BY <2>3 DEF UpdateMatched
    <3> DEFINE q == [req[r] EXCEPT !.pc = "commit", !.write = "update", !.target = d]
    <3>2. q.write = "update"
      BY <2>1 DEF RequestState
    <3>3. req' = [req EXCEPT ![r] = q]
      BY <3>1
    <3> HIDE DEF q
    <3>4. Fresh(q)
      BY <3>2 DEF Fresh
    <3> QED BY <2>1, <3>3, <3>4, MoveKey
  <2>4. CASE CreateUnmatched(r)
    <3>1. PICK d : req' = [req EXCEPT ![r] =
                              [@ EXCEPT !.pc = "commit", !.write = "create", !.target = d]]
      BY <2>4 DEF CreateUnmatched
    <3> DEFINE q == [req[r] EXCEPT !.pc = "commit", !.write = "create", !.target = d]
    <3>2. q.license = req[r].license /\ q.machine = req[r].machine
      BY <2>1 DEF RequestState
    <3>3. req' = [req EXCEPT ![r] = q]
      BY <3>1
    <3> HIDE DEF q
    <3>4. Fresh(q)
      BY <2>4, <3>2 DEF Fresh, CreateUnmatched, CanCreate
    <3> QED BY <2>1, <3>3, <3>4, MoveKey
  <2> QED BY <1>7, <2>2, <2>3, <2>4 DEF ListDevices
<1>8. ASSUME NEW r \in Request, Commit(r) \/ CommitUnacknowledged(r) PROVE KeyInv'
  BY <1>8, CommitKey DEF Commit, CommitUnacknowledged
<1>9. ASSUME NEW r \in Request, IssueToken(r) \/ Timeout(r) \/ Abort(r) PROVE KeyInv'
  BY <1>9, FinishKey DEF IssueToken, Timeout, Abort
<1> QED BY <1>2, <1>3, <1>5, <1>6, <1>7, <1>8, <1>9 DEF Next, Working

\* Two rows of a license never hold the same TPM key, and the insert of a new one
\* does not find its key taken at the commit.
THEOREM KeyInvariance == Spec => []KeyInv
<1>1. Init => KeyInv
  BY DEF Init, KeyInv, RowsDistinct, Fresh, Idle, EmptyDevice
<1> QED BY <1>1, Invariance, NextKey, PTL DEF Spec

\* As many keys are bound to a license as it has active devices, or fewer.
LEMMA BoundWithinActive ==
    ASSUME IInv, NEW l \in License
    PROVE  /\ ActivationSpec!Cardinality(ActivationSpec!BoundTo(l)) \in Nat
           /\ ActivationSpec!Cardinality(ActivationSpec!BoundTo(l))
                 <= Cardinality(ActiveDevices(l))
<1> DEFINE S == ActiveDevices(l)
           T == ActivationSpec!BoundTo(l)
           f == [d \in S |-> <<device[d].license, device[d].signals.tpm>>]
<1>1. IsFiniteSet(S)
  BY VerificationAssumption, FS_Subset DEF ActiveDevices, DevicesOf
<1>2. \A d \in S : f[d] \in T
  <2> SUFFICES ASSUME NEW d \in S
               PROVE  f[d] \in Bindings("active") /\ f[d][1] = l
    BY DEF ActivationSpec!BoundTo
  <2>1. d \in DeviceId /\ device[d].status = "active" /\ device[d].license = l
    BY DEF ActiveDevices, DevicesOf
  <2> QED BY <2>1 DEF Bindings
<1>3. \A b \in T : \E d \in S : f[d] = b
  <2> SUFFICES ASSUME NEW b \in Bindings("active"), b[1] = l
               PROVE  \E d \in S : f[d] = b
    BY DEF ActivationSpec!BoundTo
  <2>1. PICK d \in DeviceId : /\ device[d].status = "active"
                             /\ b = <<device[d].license, device[d].signals.tpm>>
    BY DEF Bindings
  <2>2. d \in S
    BY <2>1 DEF ActiveDevices, DevicesOf
  <2> QED BY <2>1, <2>2
<1>4. f \in Surjection(S, T)
  BY <1>2, <1>3 DEF Surjection
<1> HIDE DEF S, T, f
<1>5. Cardinality(T) <= Cardinality(S) /\ Cardinality(T) \in Nat
  BY <1>1, <1>4, FS_Surjection, FS_CardinalityType
<1>6. ActivationSpec!Cardinality(T) = Cardinality(T)
  BY DEF ActivationSpec!Cardinality, Cardinality
<1> QED BY <1>5, <1>6 DEF S, T

\* The commit is the atomic step that redeems the session for the machine's key.
LEMMA CommitRedeems ==
    ASSUME IInv, KeyInv, NEW r \in Request, CommittedWrites(r)
    PROVE  ActivationSpec!Next
<1>1. PICK s, l, d, k : /\ s = req[r].session /\ l = req[r].license /\ d = req[r].target
                        /\ k = req[r].machine.tpm
  OBVIOUS
<1>2. /\ s \in Session /\ l \in License /\ k \in TpmKey /\ d \in DeviceId
      /\ req[r].pc = "commit" /\ req[r].write \in {"create", "update"}
      /\ ~session[s].consumed /\ session'[s].consumed
      /\ \A e \in DeviceId \ {d} : device'[e] = device[e]
      /\ \A u \in Session \ {s} : session'[u] = session[u]
      /\ device'[d].status = "active" /\ device'[d].license = l
      /\ device'[d].signals.tpm = k
      /\ req[r].write = "create" => device[d].status = "none"
      /\ req[r].write = "update" =>
            device[d].status = "active" /\ device[d].license = l /\ device[d].signals.tpm = k
  BY <1>1, CommitWrites
<1>3. UNCHANGED tokens
  BY DEF CommittedWrites
<1>4. s \notin {u \in Session : session[u].consumed}
  BY <1>2
<1>5. \A e \in DeviceId : device[e].license = l /\ device[e].signals.tpm = k
                         => device[e].status # "revoked"
  <2>1. CASE req[r].write = "create"
    BY <1>1, <1>2, <2>1 DEF KeyInv, Fresh, KeyTaken, DevicesOf
  <2>2. CASE req[r].write = "update"
    BY <1>2, <2>2 DEF KeyInv, RowsDistinct
  <2> QED BY <1>2, <2>1, <2>2
<1>6. <<l, k>> \notin Bindings("revoked")
  BY <1>5 DEF Bindings
<1>7. <<l, k>> \in Bindings("active")
      \/ ActivationSpec!Cardinality(ActivationSpec!BoundTo(l)) < MaxDevices[l]
  <2>1. CASE req[r].write = "create"
    <3>1. Cardinality(ActiveDevices(l)) < MaxDevices[l]
      BY <1>1, <1>2, <2>1 DEF IInv, LimitInv
    <3>2. ActivationSpec!Cardinality(ActivationSpec!BoundTo(l)) <= Cardinality(ActiveDevices(l))
      BY <1>2, BoundWithinActive
    <3>3. MaxDevices[l] \in Nat /\ Cardinality(ActiveDevices(l)) \in Nat
      <4>1. IsFiniteSet(ActiveDevices(l))
        BY VerificationAssumption, FS_Subset DEF ActiveDevices, DevicesOf
      <4> QED BY <1>2, <4>1, VerificationAssumption, FS_CardinalityType
    <3>4. ActivationSpec!Cardinality(ActivationSpec!BoundTo(l)) \in Nat
      BY <1>2, BoundWithinActive
    <3> QED BY <3>1, <3>2, <3>3, <3>4
  <2>2. CASE req[r].write = "update"
    BY <1>2, <2>2 DEF Bindings
  <2> QED BY <1>2, <2>1, <2>2
<1>8. {u \in Session : session[u].consumed}' = {u \in Session : session[u].consumed} \cup {s}
  BY <1>2
<1>9. Bindings("active")' = Bindings("active") \cup {<<l, k>>}
  BY <1>2 DEF Bindings
<1>10. Bindings("revoked")' = Bindings("revoked")
  BY <1>2 DEF Bindings
<1>11. ActivationSpec!Redeem(s, l, k)
  BY <1>3, <1>4, <1>6, <1>7, <1>8, <1>9, <1>10 DEF ActivationSpec!Redeem
<1> QED BY <1>2, <1>11 DEF ActivationSpec!Next

LEMMA RevokeRevokes ==
    ASSUME IInv, KeyInv, NEW d \in DeviceId, RevokeDevice(d)
    PROVE  ActivationSpec!Next
<1> DEFINE l == device[d].license
           k == device[d].signals.tpm
<1>1. /\ UNCHANGED <<session, tokens>> /\ device[d].status = "active"
      /\ device'[d].status = "revoked"
      /\ \A e \in DeviceId : /\ device'[e].license = device[e].license
                             /\ device'[e].signals = device[e].signals
                             /\ e # d => device'[e].status = device[e].status
  BY DEF RevokeDevice, IInv, TypeOK, DeviceRow
<1>2. l \in License /\ k \in TpmKey
  BY <1>1 DEF IInv, DeviceInv, DeviceSignals
<1>3. \A e \in DeviceId : device[e].status = "active" /\ device[e].license = l
                         /\ device[e].signals.tpm = k => e = d
  BY <1>1 DEF KeyInv, RowsDistinct
<1> HIDE DEF l, k
<1>4. <<l, k>> \in Bindings("active")
  BY <1>1 DEF Bindings, l, k
<1>5. Bindings("active")' = Bindings("active") \ {<<l, k>>}
  BY <1>1, <1>3 DEF Bindings, l, k
<1>6. Bindings("revoked")' = Bindings("revoked") \cup {<<l, k>>}
  BY <1>1 DEF Bindings, l, k
<1>7. ActivationSpec!Revoke(l, k)
  BY <1>1, <1>4, <1>5, <1>6 DEF ActivationSpec!Revoke
<1> QED BY <1>2, <1>7 DEF ActivationSpec!Next

\* The token is granted for the key that was bound by the commit, even if its
\* device was revoked since.
LEMMA IssueGrants ==
    ASSUME IInv, NEW r \in Request, IssueToken(r)
    PROVE  [ActivationSpec!Next]_(ActivationSpec!vars)
<1>1. PICK s, l, d, k, at : /\ s = req[r].session /\ l = req[r].license /\ d = req[r].target
                            /\ k = req[r].machine.tpm /\ at = req[r].policyNow
  OBVIOUS
<1>2. /\ s \in Session /\ d \in DeviceId /\ req[r].machine \in Machine
      /\ session[s].consumed /\ l \in License
      /\ device[d].status \in {"active", "revoked"} /\ device[d].license = l
      /\ device[d].signals.tpm = k
  BY <1>1 DEF IInv, TypeOK, SessionInv, DeviceInv, DeviceRow, SessionRow, InTransaction,
              IssueToken
<1>3. k \in TpmKey
  BY <1>1, <1>2, VerificationAssumption DEF DeviceSignals
<1>4. PICK token : token = [session |-> s, license |-> l, device |-> d, jkt |-> k,
                            issuedAt |-> at]
  OBVIOUS
<1>5. UNCHANGED <<session, device>> /\ (tokens' = tokens \/ tokens' = tokens \cup {token})
  BY <1>1, <1>4 DEF IssueToken
<1>6. UNCHANGED <<{u \in Session : session[u].consumed}, Bindings("active"), Bindings("revoked")>>
  BY <1>5 DEF Bindings
<1>7. CASE tokens' = tokens
  BY <1>6, <1>7 DEF ActivationSpec!vars
<1>8. CASE tokens' = tokens \cup {token}
  <2>1. token.session = s /\ token.license = l /\ token.jkt = k
    BY <1>4
  <2>2. {<<t.session, t.license, t.jkt>> : t \in tokens \cup {token}}
          = {<<t.session, t.license, t.jkt>> : t \in tokens} \cup {<<s, l, k>>}
    BY <2>1
  <2>3. {<<t.session, t.license, t.jkt>> : t \in tokens}'
          = {<<t.session, t.license, t.jkt>> : t \in tokens} \cup {<<s, l, k>>}
    BY <1>8, <2>2
  <2>4. \A g \in {<<t.session, t.license, t.jkt>> : t \in tokens} : g[1] # s
    BY <1>1 DEF IInv, TokenInv, IssueToken
  <2>5. <<l, k>> \in Bindings("active") \cup Bindings("revoked")
    BY <1>2 DEF Bindings
  <2>6. ActivationSpec!Grant(s, l, k)
    BY <1>2, <1>6, <2>3, <2>4, <2>5 DEF ActivationSpec!Grant
  <2> QED BY <1>2, <1>3, <2>6 DEF ActivationSpec!Next
<1> QED BY <1>5, <1>7, <1>8

LEMMA NextRefines ==
    ASSUME IInv, KeyInv, [Next]_vars
    PROVE  [ActivationSpec!Next]_(ActivationSpec!vars)
<1>1. ASSUME UNCHANGED <<session, device, tokens>> PROVE UNCHANGED ActivationSpec!vars
  BY <1>1 DEF ActivationSpec!vars, Bindings
<1>2. CASE Tick \/ UNCHANGED vars
  BY <1>1, <1>2 DEF Tick, vars
<1>3. CASE Operator
  BY <1>1, <1>3, RevokeRevokes DEF Operator, DisableAccount, SetLicenseStatus
<1>4. ASSUME NEW r \in Request,
             \/ Arrive(r) \/ LockChallenge(r) \/ LockLicense(r) \/ ListDevices(r)
             \/ Timeout(r) \/ Abort(r)
      PROVE  UNCHANGED ActivationSpec!vars
  BY <1>1, <1>4 DEF Arrive, LoginCheck, BeginVerify, LockChallenge, LockLicense, ListDevices,
                    Timeout, Abort
<1>5. ASSUME NEW r \in Request, CreatePendingSession(r) PROVE UNCHANGED ActivationSpec!vars
  <2>1. UNCHANGED <<device, tokens>>
    BY <1>5 DEF CreatePendingSession
  <2>2. req[r].session \in Session /\ ~session[req[r].session].consumed
    BY <1>5 DEF CreatePendingSession, IInv, SessionInv
  <2>3. \A u \in Session : session'[u].consumed <=> session[u].consumed
    BY <1>5, <2>2 DEF CreatePendingSession, IInv, TypeOK
  <2> QED BY <2>1, <2>3 DEF ActivationSpec!vars, Bindings
<1>6. ASSUME NEW r \in Request, Commit(r) \/ CommitUnacknowledged(r) PROVE ActivationSpec!Next
  BY <1>6, CommitRedeems DEF Commit, CommitUnacknowledged
<1> QED BY <1>2, <1>3, <1>4, <1>5, <1>6, IssueGrants DEF Next, Locking, Working

\* Seen through the committed rows and the tokens issued, the concurrent and
\* failing requests of /v1/device/verify implement the atomic Activation, for any
\* number of requests, sessions, licenses and devices.
THEOREM ImplementsActivationHolds == Spec => ImplementsActivation
<1>1. Init => ActivationSpec!Init
  BY DEF Init, ActivationSpec!Init, Bindings, EmptySession, EmptyDevice
<1>2. IInv /\ KeyInv /\ [Next]_vars => [ActivationSpec!Next]_(ActivationSpec!vars)
  BY NextRefines
<1> QED BY <1>1, <1>2, Invariance, KeyInvariance, PTL
        DEF Spec, ImplementsActivation, ActivationSpec!Spec
=============================================================================
