------------------------- MODULE ProtectedApiProofs -------------------------
(***************************************************************************)
(* For every number of requests, tokens and proofs and every difference of *)
(* the clocks: a proof is admitted once while its token lives, and no      *)
(* request that arrives after the account or the device is out is served.  *)
(***************************************************************************)
EXTENDS ProtectedApi, TLAPS

Busy(r) == req[r].pc \in {"consume", "load", "respond"} \/ req[r].admitted

\* A request past RequireSession carries a proof and the token it is bound to.
Presented ==
    \A r \in Request : Busy(r) =>
        req[r].proof \in Proof /\ req[r].token = BoundTo[req[r].proof]

\* A row lasts as long as the token its proof is bound to.
RowsLast == \A row \in replays : row.expires = ExpiresAt(BoundTo[row.proof])

InReplays(p) == \E row \in replays : row.proof = p

\* An admitted proof is in the table until its token is past its expiry.
Recorded ==
    \A r \in Request : req[r].admitted =>
        InReplays(req[r].proof) \/ dbNow > ExpiresAt(BoundTo[req[r].proof])

Out(a, d) == a # "active" \/ d # "active"

\* What took the account or the device out before the arrival is still so,
\* in the rows and in the profile that was read.
LateStays ==
    \A r \in Request : req[r].late =>
        /\ Out(account, device)
        /\ req[r].pc = "respond" =>
              Out(req[r].profile.account, req[r].profile.device)

ProfileRead ==
    \A r \in Request : req[r].pc = "respond" => req[r].profile \in Profile

\* No request is admitted before its proof is consumed.
Ordered == \A r \in Request : req[r].pc \in {"idle", "consume"} => ~req[r].admitted

IInv ==
    /\ TypeOK
    /\ Presented
    /\ Ordered
    /\ RowsLast
    /\ Recorded
    /\ LateStays
    /\ ProfileRead
    /\ OnceWhileTokenLive
    /\ OutIsOut

-----------------------------------------------------------------------------
\* An expiry time is a natural number.
LEMMA ExpiryNat ==
    ASSUME NEW t \in Token PROVE ExpiresAt(t) \in Nat
BY ApiAssumption DEF ExpiresAt

\* A fresh request is a request state.
LEMMA FreshType == Fresh \in RequestState
BY DEF Fresh, RequestState

\* An answered request is a request state that keeps its past, or a fresh one.
LEMMA AnsweredType ==
    ASSUME NEW q \in RequestState, NEW ok \in BOOLEAN
    PROVE  /\ Answered(q, ok) \in RequestState
           /\ Answered(q, ok).pc = "done"
           /\ Answered(q, ok).admitted = q.admitted
           /\ q.admitted => /\ Answered(q, ok).proof = q.proof
                            /\ Answered(q, ok).token = q.token
                            /\ Answered(q, ok).consumedAt = q.consumedAt
                            /\ Answered(q, ok).late = q.late
                            /\ Answered(q, ok).served = ok
           /\ ~q.admitted => ~Answered(q, ok).late /\ ~Answered(q, ok).served
<1>1. CASE q.admitted
  BY <1>1 DEF Answered, RequestState
<1>2. CASE ~q.admitted
  BY <1>2, FreshType DEF Answered, RequestState, Fresh
<1> QED BY <1>1, <1>2

\* The initial state satisfies the inductive invariant.
LEMMA InitIInv == Init => IInv
<1> SUFFICES ASSUME Init PROVE IInv OBVIOUS
<1>1. TypeOK BY FreshType DEF Init, TypeOK
<1>2. \A r \in Request : req[r] = Fresh BY DEF Init
<1>3. Presented /\ Ordered /\ Recorded /\ LateStays /\ ProfileRead /\ OnceWhileTokenLive /\ OutIsOut
  BY <1>2 DEF Presented, Ordered, Busy, Recorded, LateStays, ProfileRead, OnceWhileTokenLive,
              OutIsOut, Fresh
<1>4. RowsLast BY DEF Init, RowsLast
<1> QED BY <1>1, <1>3, <1>4 DEF IInv

\* A step that changes neither the requests nor the table, lets the clock only
\* advance, and brings neither the account nor the device back.
LEMMA OutsideIInv ==
    ASSUME IInv, UNCHANGED <<replays, req>>, TypeOK',
           now' >= now, Out(account, device) => Out(account', device')
    PROVE  IInv'
<1>0. /\ now \in Nat /\ now' \in Nat /\ DbAhead \in Int
      /\ \A t \in Token : ExpiresAt(t) \in Nat
  BY ApiAssumption, ExpiryNat DEF IInv, TypeOK
<1>1. Presented' BY DEF IInv, Presented, Busy
<1>2. RowsLast' BY DEF IInv, RowsLast, ExpiresAt
<1>3. Recorded'
  <2> SUFFICES ASSUME NEW r \in Request, req[r].admitted, ~InReplays(req[r].proof)
               PROVE  (dbNow > ExpiresAt(BoundTo[req[r].proof]))'
    BY DEF Recorded, InReplays
  <2>1. req[r].proof \in Proof BY DEF IInv, Presented, Busy
  <2>2. BoundTo[req[r].proof] \in Token BY <2>1, ApiAssumption
  <2>3. dbNow > ExpiresAt(BoundTo[req[r].proof]) BY DEF IInv, Recorded
  <2> QED BY <1>0, <2>2, <2>3 DEF dbNow, ExpiresAt
<1>4. LateStays' BY DEF IInv, LateStays
<1>5. ProfileRead' BY DEF IInv, ProfileRead
<1>6. OnceWhileTokenLive' BY DEF IInv, OnceWhileTokenLive, ExpiresAt
<1>7. OutIsOut' BY DEF IInv, OutIsOut
<1>8. Ordered' BY DEF IInv, Ordered
<1> QED BY <1>1, <1>2, <1>3, <1>4, <1>5, <1>6, <1>7, <1>8 DEF IInv

\* What the statement of ConsumeDPoP does to the table: it keeps every row of
\* a token that is not past its expiry.
LEMMA StatementKeeps ==
    ASSUME IInv, NEW r \in Request, req[r].pc = "consume",
           NEW conflict \in BOOLEAN, StatementEffect(r, conflict)
    PROVE  /\ replays' \subseteq ReplayRow
           /\ RowsLast'
           /\ \A p \in Proof : (\E row \in replays : row.proof = p) =>
                 (\E row \in replays' : row.proof = p) \/ dbNow > ExpiresAt(BoundTo[p])
           /\ ~conflict => \E row \in replays' : row.proof = req[r].proof
<1>1. /\ req[r].proof \in Proof /\ req[r].token = BoundTo[req[r].proof]
      /\ req[r].token \in Token
  BY ApiAssumption DEF IInv, Presented, Busy
<1>2. ExpiresAt(req[r].token) \in Nat BY <1>1, ExpiryNat
<1>3. Row(r) \in ReplayRow /\ Row(r).proof = req[r].proof
      /\ Row(r).expires = ExpiresAt(BoundTo[Row(r).proof])
  BY <1>1, <1>2 DEF Row, ReplayRow
<1>4. replays \subseteq ReplayRow BY DEF IInv, TypeOK
<1>5. \A row \in replays' : row \in replays \/ row = Row(r)
  BY DEF StatementEffect
<1>6. \A row \in replays : row \in replays' \/ row.expires < dbNow
  BY DEF StatementEffect, ExpiredRows
<1>7. RowsLast'
  BY <1>3, <1>5 DEF IInv, RowsLast, ExpiresAt
<1>8. \A p \in Proof : (\E row \in replays : row.proof = p) =>
         (\E row \in replays' : row.proof = p) \/ dbNow > ExpiresAt(BoundTo[p])
  <2> SUFFICES ASSUME NEW p \in Proof, NEW row \in replays, row.proof = p, row \notin replays'
               PROVE  dbNow > ExpiresAt(BoundTo[p])
    OBVIOUS
  <2>1. row.expires < dbNow BY <1>6
  <2>2. row.expires = ExpiresAt(BoundTo[p]) BY DEF IInv, RowsLast
  <2>3. row.expires \in Nat /\ dbNow \in Int
    BY <1>4, ApiAssumption DEF ReplayRow, dbNow, IInv, TypeOK
  <2> QED BY <2>1, <2>2, <2>3
<1>9. ~conflict => \E row \in replays' : row.proof = req[r].proof
  BY <1>3 DEF StatementEffect
<1>10. replays' \subseteq ReplayRow
  BY <1>3, <1>4, <1>5
<1> QED BY <1>7, <1>8, <1>9, <1>10

\* A request is answered, by a step that keeps the live rows of the table.
LEMMA AnswerIInv ==
    ASSUME IInv, NEW r \in Request, NEW ok \in BOOLEAN, ok => ~req[r].late,
           req' = [req EXCEPT ![r] = Answered(req[r], ok)],
           UNCHANGED <<now, account, license, device>>,
           replays' \subseteq ReplayRow, RowsLast',
           \A p \in Proof : (\E row \in replays : row.proof = p) =>
                 (\E row \in replays' : row.proof = p) \/ dbNow > ExpiresAt(BoundTo[p])
    PROVE  IInv'
<1> DEFINE new == Answered(req[r], ok)
<1>1. req[r] \in RequestState BY DEF IInv, TypeOK
<1>2. /\ new \in RequestState /\ new.pc = "done" /\ new.admitted = req[r].admitted
      /\ req[r].admitted => /\ new.proof = req[r].proof /\ new.token = req[r].token
                            /\ new.consumedAt = req[r].consumedAt
                            /\ new.late = req[r].late /\ new.served = ok
      /\ ~req[r].admitted => ~new.late /\ ~new.served
  BY <1>1, AnsweredType
<1>3. \A q \in Request : req'[q] = IF q = r THEN new ELSE req[q]
  BY DEF IInv, TypeOK
<1>4. TypeOK' BY <1>2 DEF IInv, TypeOK
<1> HIDE DEF new
<1>5. Presented' BY <1>2, <1>3 DEF IInv, Presented, Busy
<1>6. Recorded'
  <2> SUFFICES ASSUME NEW q \in Request, req'[q].admitted
               PROVE  \/ \E row \in replays' : row.proof = req'[q].proof
                      \/ (dbNow > ExpiresAt(BoundTo[req[q].proof]))'
    BY DEF Recorded, InReplays
  <2>1. req[q].admitted /\ req'[q].proof = req[q].proof BY <1>2, <1>3
  <2>2. req[q].proof \in Proof BY <2>1 DEF IInv, Presented, Busy
  <2>3. (\E row \in replays : row.proof = req[q].proof)
            \/ dbNow > ExpiresAt(BoundTo[req[q].proof])
    BY <2>1 DEF IInv, Recorded, InReplays
  <2>4. dbNow' = dbNow BY DEF dbNow
  <2> QED BY <2>1, <2>2, <2>3, <2>4 DEF ExpiresAt
<1>7. LateStays' BY <1>2, <1>3 DEF IInv, LateStays
<1>8. ProfileRead' BY <1>2, <1>3 DEF IInv, ProfileRead
<1>9. OnceWhileTokenLive'
  <2> SUFFICES ASSUME NEW p \in Request, NEW q \in Request, p # q,
                      req'[p].admitted, req'[q].admitted, req'[p].proof = req'[q].proof
               PROVE  \/ req'[p].consumedAt > ExpiresAt(req'[p].token)
                      \/ req'[q].consumedAt > ExpiresAt(req'[q].token)
    BY DEF OnceWhileTokenLive, ExpiresAt
  <2>1. /\ req[p].admitted /\ req'[p].proof = req[p].proof
        /\ req'[p].token = req[p].token /\ req'[p].consumedAt = req[p].consumedAt
    BY <1>2, <1>3
  <2>2. /\ req[q].admitted /\ req'[q].proof = req[q].proof
        /\ req'[q].token = req[q].token /\ req'[q].consumedAt = req[q].consumedAt
    BY <1>2, <1>3
  <2> QED BY <2>1, <2>2 DEF IInv, OnceWhileTokenLive
<1>10. OutIsOut' BY <1>2, <1>3 DEF IInv, OutIsOut
<1>11. Ordered' BY <1>2, <1>3 DEF IInv, Ordered
<1> QED BY <1>4, <1>5, <1>6, <1>7, <1>8, <1>9, <1>10, <1>11 DEF IInv

\* The checks of RequireSession.
LEMMA RequireSessionIInv ==
    ASSUME IInv, NEW r \in Request, NEW t \in Token, NEW p \in Proof,
           RequireSession(r, t, p)
    PROVE  IInv'
<1>0. req[r] \in RequestState /\ ~req[r].admitted
  BY DEF IInv, TypeOK, Ordered, RequireSession
<1>u. UNCHANGED <<now, account, license, device, replays>>
  BY DEF RequireSession, subject
<1>1. CASE ~(Verify(t) /\ VerifyDPoP(t, p))
  <2>1. req' = [req EXCEPT ![r] = Answered(req[r], FALSE)]
    BY <1>1 DEF RequireSession
  <2>2. replays' \subseteq ReplayRow /\ RowsLast'
    BY <1>u DEF IInv, TypeOK, RowsLast, ExpiresAt
  <2> QED BY <1>u, <2>1, <2>2, AnswerIInv
<1>2. CASE Verify(t) /\ VerifyDPoP(t, p)
  <2> DEFINE new == [Fresh EXCEPT !.pc = "consume", !.token = t, !.proof = p,
                                  !.late = account # "active" \/ device # "active"]
  <2>1. req' = [req EXCEPT ![r] = new] BY <1>2 DEF RequireSession
  <2>2. /\ new \in RequestState /\ new.pc = "consume" /\ new.token = t /\ new.proof = p
        /\ ~new.admitted /\ ~new.served
        /\ new.late => Out(account, device)
    <3> DEFINE late == account # "active" \/ device # "active"
    <3>1. late \in BOOLEAN /\ (late => Out(account, device)) BY DEF Out
    <3>2. new = [Fresh EXCEPT !.pc = "consume", !.token = t, !.proof = p, !.late = late]
      OBVIOUS
    <3> HIDE DEF late, new
    <3>3. new = [pc |-> "consume", token |-> t, proof |-> p, profile |-> NoProfile,
                 admitted |-> FALSE, consumedAt |-> 0, late |-> late, served |-> FALSE]
      BY <3>2 DEF Fresh
    <3> QED BY <3>1, <3>3 DEF RequestState
  <2>3. \A q \in Request : req'[q] = IF q = r THEN new ELSE req[q]
    BY <2>1 DEF IInv, TypeOK
  <2>4. TypeOK' BY <1>u, <2>1, <2>2 DEF IInv, TypeOK
  <2> HIDE DEF new
  <2>5. BoundTo[p] = t BY <1>2 DEF VerifyDPoP
  <2>6. Presented' BY <2>2, <2>3, <2>5 DEF IInv, Presented, Busy
  <2>7. Ordered' BY <2>2, <2>3 DEF IInv, Ordered
  <2>8. RowsLast' BY <1>u DEF IInv, RowsLast, ExpiresAt
  <2>9. Recorded'
    BY <1>u, <2>2, <2>3 DEF IInv, Recorded, InReplays, dbNow, ExpiresAt
  <2>10. LateStays' BY <1>u, <2>2, <2>3 DEF IInv, LateStays
  <2>11. ProfileRead' BY <2>2, <2>3 DEF IInv, ProfileRead
  <2>12. OnceWhileTokenLive' BY <2>2, <2>3 DEF IInv, OnceWhileTokenLive, ExpiresAt
  <2>13. OutIsOut' BY <2>2, <2>3 DEF IInv, OutIsOut
  <2> QED BY <2>4, <2>6, <2>7, <2>8, <2>9, <2>10, <2>11, <2>12, <2>13 DEF IInv
<1> QED BY <1>1, <1>2

\* A proof that was admitted before and no longer conflicts belongs to a token
\* past its expiry.
LEMMA NoConflictMeansExpired ==
    ASSUME IInv, NEW r \in Request, NEW q \in Request, NEW first \in BOOLEAN,
           req[r].pc = "consume", req[q].admitted, req[q].proof = req[r].proof,
           ~Conflicts(r, first)
    PROVE  dbNow > ExpiresAt(req[r].token)
<1>1. /\ req[r].proof \in Proof /\ req[r].token = BoundTo[req[r].proof]
  BY DEF IInv, Presented, Busy
<1>2. CASE InReplays(req[r].proof)
  <2>1. PICK row \in replays : row.proof = req[r].proof BY <1>2 DEF InReplays
  <2>2. row \in ExpiredRows BY <2>1 DEF Conflicts
  <2>3. row.expires < dbNow BY <2>2 DEF ExpiredRows
  <2>4. row.expires = ExpiresAt(req[r].token) BY <1>1, <2>1 DEF IInv, RowsLast
  <2>5. row.expires \in Nat /\ dbNow \in Int
    BY ApiAssumption DEF IInv, TypeOK, ReplayRow, dbNow
  <2> QED BY <2>3, <2>4, <2>5
<1>3. CASE ~InReplays(req[r].proof)
  BY <1>1, <1>3 DEF IInv, Recorded
<1> QED BY <1>2, <1>3

\* The proof is consumed, or found consumed.
LEMMA ConsumeIInv ==
    ASSUME IInv, NEW r \in Request, NEW first \in BOOLEAN, ConsumeDPoP(r, first)
    PROVE  IInv'
<1> DEFINE conflict == Conflicts(r, first)
<1>0. /\ req[r] \in RequestState /\ req[r].pc = "consume" /\ ~req[r].admitted
      /\ UNCHANGED <<now, account, license, device>>
  BY DEF IInv, TypeOK, Ordered, ConsumeDPoP, subject
<1>1. conflict \in BOOLEAN /\ StatementEffect(r, conflict)
  BY DEF ConsumeDPoP, Conflicts
<1>2. /\ replays' \subseteq ReplayRow
      /\ RowsLast'
      /\ \A p \in Proof : (\E row \in replays : row.proof = p) =>
            (\E row \in replays' : row.proof = p) \/ dbNow > ExpiresAt(BoundTo[p])
      /\ ~conflict => \E row \in replays' : row.proof = req[r].proof
  <2> HIDE DEF conflict
  <2> QED BY <1>0, <1>1, StatementKeeps
<1>3. CASE conflict
  <2>1. req' = [req EXCEPT ![r] = Answered(req[r], FALSE)]
    BY <1>3 DEF ConsumeDPoP
  <2> QED BY <1>0, <1>2, <2>1, AnswerIInv
<1>4. CASE ~conflict
  <2> DEFINE new == [req[r] EXCEPT !.pc = "load", !.admitted = TRUE, !.consumedAt = dbNow]
  <2>1. req' = [req EXCEPT ![r] = new] BY <1>4 DEF ConsumeDPoP
  <2>2. dbNow \in Int BY ApiAssumption DEF IInv, TypeOK, dbNow
  <2>3. /\ new \in RequestState /\ new.pc = "load" /\ new.admitted /\ new.consumedAt = dbNow
        /\ new.token = req[r].token /\ new.proof = req[r].proof
        /\ new.late = req[r].late /\ new.served = req[r].served
    BY <1>0, <2>2 DEF RequestState
  <2>4. \A q \in Request : req'[q] = IF q = r THEN new ELSE req[q]
    BY <2>1 DEF IInv, TypeOK
  <2>5. TypeOK' BY <1>0, <1>2, <2>1, <2>3 DEF IInv, TypeOK
  <2> HIDE DEF new
  <2>6. Presented' BY <1>0, <2>3, <2>4 DEF IInv, Presented, Busy
  <2>7. Ordered' BY <2>3, <2>4 DEF IInv, Ordered
  <2>8. Recorded'
    <3> SUFFICES ASSUME NEW q \in Request, req'[q].admitted
                 PROVE  \/ \E row \in replays' : row.proof = req'[q].proof
                        \/ dbNow' > ExpiresAt(BoundTo[req'[q].proof])
      BY DEF Recorded, InReplays, ExpiresAt
    <3>1. CASE q = r BY <1>2, <1>4, <2>3, <2>4, <3>1
    <3>2. CASE q # r
      <4>1. req'[q] = req[q] /\ req[q].admitted BY <2>4, <3>2
      <4>2. req[q].proof \in Proof BY <4>1 DEF IInv, Presented, Busy
      <4>3. (\E row \in replays : row.proof = req[q].proof)
                \/ dbNow > ExpiresAt(BoundTo[req[q].proof])
        BY <4>1 DEF IInv, Recorded, InReplays
      <4>4. dbNow' = dbNow BY <1>0 DEF dbNow
      <4> QED BY <1>2, <4>1, <4>2, <4>3, <4>4
    <3> QED BY <3>1, <3>2
  <2>9. LateStays' BY <1>0, <2>3, <2>4 DEF IInv, LateStays
  <2>10. ProfileRead' BY <2>3, <2>4 DEF IInv, ProfileRead
  <2>11. \A q \in Request : q # r /\ req[q].admitted /\ req[q].proof = new.proof
            => new.consumedAt > ExpiresAt(new.token)
    BY <1>0, <1>4, <2>3, NoConflictMeansExpired
  <2>12. OnceWhileTokenLive'
    <3> SUFFICES ASSUME NEW p \in Request, NEW q \in Request, p # q,
                        req'[p].admitted, req'[q].admitted, req'[p].proof = req'[q].proof
                 PROVE  \/ req'[p].consumedAt > ExpiresAt(req'[p].token)
                        \/ req'[q].consumedAt > ExpiresAt(req'[q].token)
      BY DEF OnceWhileTokenLive, ExpiresAt
    <3>1. CASE p # r /\ q # r BY <2>4, <3>1 DEF IInv, OnceWhileTokenLive
    <3>2. CASE p = r BY <2>4, <2>11, <3>2
    <3>3. CASE q = r BY <2>4, <2>11, <3>3
    <3> QED BY <3>1, <3>2, <3>3
  <2>13. OutIsOut' BY <2>3, <2>4 DEF IInv, OutIsOut
  <2> QED BY <1>2, <2>5, <2>6, <2>7, <2>8, <2>9, <2>10, <2>12, <2>13 DEF IInv
<1> QED BY <1>3, <1>4

\* The statement took effect but its result is lost.
LEMMA UnacknowledgedIInv ==
    ASSUME IInv, NEW r \in Request, NEW first \in BOOLEAN, ConsumeUnacknowledged(r, first)
    PROVE  IInv'
<1> DEFINE conflict == Conflicts(r, first)
<1>0. /\ req[r].pc = "consume" /\ UNCHANGED <<now, account, license, device>>
      /\ req' = [req EXCEPT ![r] = Answered(req[r], FALSE)]
  BY DEF ConsumeUnacknowledged, subject
<1>1. conflict \in BOOLEAN /\ StatementEffect(r, conflict)
  BY DEF ConsumeUnacknowledged, Conflicts
<1> HIDE DEF conflict
<1>2. /\ replays' \subseteq ReplayRow
      /\ RowsLast'
      /\ \A p \in Proof : (\E row \in replays : row.proof = p) =>
            (\E row \in replays' : row.proof = p) \/ dbNow > ExpiresAt(BoundTo[p])
  BY <1>0, <1>1, StatementKeeps
<1> QED BY <1>0, <1>2, AnswerIInv

\* The profile is read from rows that are at least as new as the arrival.
LEMMA LoadProfileIInv ==
    ASSUME IInv, NEW r \in Request, LoadProfile(r)
    PROVE  IInv'
<1> DEFINE prof == [account |-> account, license |-> license, device |-> device]
           new == [req[r] EXCEPT !.pc = "respond", !.profile = prof]
<1>0. /\ req[r] \in RequestState /\ req[r].pc = "load"
      /\ UNCHANGED <<now, account, license, device, replays>>
      /\ req' = [req EXCEPT ![r] = new]
  BY DEF IInv, TypeOK, LoadProfile, subject
<1>1. prof \in Profile /\ prof.account = account /\ prof.device = device
  BY DEF IInv, TypeOK, Profile
<1> HIDE DEF prof
<1>2. /\ new \in RequestState /\ new.pc = "respond" /\ new.profile = prof
      /\ new.admitted = req[r].admitted /\ new.consumedAt = req[r].consumedAt
      /\ new.token = req[r].token /\ new.proof = req[r].proof
      /\ new.late = req[r].late /\ new.served = req[r].served
  BY <1>0, <1>1 DEF RequestState
<1>3. \A q \in Request : req'[q] = IF q = r THEN new ELSE req[q]
  BY <1>0 DEF IInv, TypeOK
<1>4. TypeOK' BY <1>0, <1>2 DEF IInv, TypeOK
<1> HIDE DEF new
<1>5. Presented' BY <1>0, <1>2, <1>3 DEF IInv, Presented, Busy
<1>6. Ordered' BY <1>2, <1>3 DEF IInv, Ordered
<1>7. RowsLast' BY <1>0 DEF IInv, RowsLast, ExpiresAt
<1>8. Recorded'
  BY <1>0, <1>2, <1>3 DEF IInv, Recorded, InReplays, dbNow, ExpiresAt
<1>9. LateStays' BY <1>0, <1>1, <1>2, <1>3 DEF IInv, LateStays
<1>10. ProfileRead' BY <1>1, <1>2, <1>3 DEF IInv, ProfileRead
<1>11. OnceWhileTokenLive'
  <2>1. \A q \in Request : /\ req'[q].admitted = req[q].admitted
                            /\ req'[q].consumedAt = req[q].consumedAt
                            /\ req'[q].token = req[q].token
                            /\ req'[q].proof = req[q].proof
    BY <1>2, <1>3
  <2> QED BY <2>1 DEF IInv, OnceWhileTokenLive, ExpiresAt
<1>12. OutIsOut' BY <1>2, <1>3 DEF IInv, OutIsOut
<1> QED BY <1>4, <1>5, <1>6, <1>7, <1>8, <1>9, <1>10, <1>11, <1>12 DEF IInv

\* The answer, and the ends without one.
LEMMA RespondIInv ==
    ASSUME IInv, NEW r \in Request, handleMe(r) \/ Abort(r)
    PROVE  IInv'
<1>0. UNCHANGED <<now, account, license, device, replays>>
  BY DEF handleMe, Abort, subject
<1>1. replays' \subseteq ReplayRow /\ RowsLast'
  BY <1>0 DEF IInv, TypeOK, RowsLast, ExpiresAt
<1>2. CASE Abort(r)
  <2>1. req' = [req EXCEPT ![r] = Answered(req[r], FALSE)] BY <1>2 DEF Abort
  <2> QED BY <1>0, <1>1, <2>1, AnswerIInv
<1>3. CASE handleMe(r)
  <2> DEFINE ok == Accepts(req[r].profile)
  <2>1. req[r].pc = "respond" /\ req' = [req EXCEPT ![r] = Answered(req[r], ok)]
    BY <1>3 DEF handleMe
  <2>2. ok \in BOOLEAN BY DEF Accepts
  <2>3. ok => ~req[r].late
    BY <2>1 DEF Accepts, IInv, LateStays, Out
  <2> HIDE DEF ok
  <2> QED BY <1>0, <1>1, <2>1, <2>2, <2>3, AnswerIInv
<1> QED BY <1>2, <1>3

\* Every step preserves the inductive invariant.
LEMMA NextIInv == IInv /\ [Next]_vars => IInv'
<1> SUFFICES ASSUME IInv, [Next]_vars PROVE IInv' OBVIOUS
<1>0. now \in Nat BY DEF IInv, TypeOK
<1>1. CASE UNCHANGED vars
  <2>1. TypeOK' BY <1>1 DEF vars, IInv, TypeOK
  <2> QED BY <1>0, <1>1, <2>1, OutsideIInv DEF vars
<1>2. CASE Tick
  <2>1. TypeOK' BY <1>2 DEF Tick, subject, IInv, TypeOK
  <2> QED BY <1>0, <1>2, <2>1, OutsideIInv DEF Tick, subject
<1>3. CASE Operator
  <2>1. TypeOK' /\ UNCHANGED <<now, replays, req>>
        /\ (Out(account, device) => Out(account', device'))
    BY <1>3 DEF Operator, DisableAccount, SetLicenseStatus, RevokeDevice, IInv, TypeOK, Out
  <2> QED BY <1>0, <2>1, OutsideIInv
<1>4. CASE \E r \in Request : Handle(r)
  <2>1. PICK r \in Request : Handle(r) BY <1>4
  <2>2. CASE \E t \in Token, p \in Proof : RequireSession(r, t, p)
    BY <2>2, RequireSessionIInv
  <2>3. CASE \E first \in CleanupFirst : ConsumeDPoP(r, first)
    BY <2>3, ApiAssumption, ConsumeIInv
  <2>4. CASE \E first \in CleanupFirst : ConsumeUnacknowledged(r, first)
    BY <2>4, ApiAssumption, UnacknowledgedIInv
  <2>5. CASE LoadProfile(r) BY <2>5, LoadProfileIInv
  <2>6. CASE handleMe(r) \/ Abort(r) BY <2>6, RespondIInv
  <2> QED BY <2>1, <2>2, <2>3, <2>4, <2>5, <2>6 DEF Handle
<1> QED BY <1>1, <1>2, <1>3, <1>4 DEF Next

-----------------------------------------------------------------------------
\* Every reachable state satisfies the inductive invariant.
THEOREM Invariance == Spec => []IInv
BY InitIInv, NextIInv, PTL DEF Spec

\* Rows and requests keep their types.
THEOREM TypeCorrectness == Spec => []TypeOK
<1>1. IInv => TypeOK BY DEF IInv
<1> QED BY <1>1, Invariance, PTL

\* ConsumeDPoP admits a proof once as long as its token is not past its expiry
\* on the database's clock, for any number of duplicates and servers.
THEOREM OnceWhileTokenLiveHolds == Spec => []OnceWhileTokenLive
<1>1. IInv => OnceWhileTokenLive BY DEF IInv
<1> QED BY <1>1, Invariance, PTL

\* handleMe answers no request that arrived after the account was disabled or
\* the device revoked.
THEOREM OutIsOutHolds == Spec => []OutIsOut
<1>1. IInv => OutIsOut BY DEF IInv
<1> QED BY <1>1, Invariance, PTL
=============================================================================
