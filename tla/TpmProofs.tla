------------------------------ MODULE TpmProofs ------------------------------
(***************************************************************************)
(* The life cycle of the TPM key (TpmKeyLifecycle) and its uses at login   *)
(* and in proofs (TpmIdentity), for any number of callers and keys.        *)
(***************************************************************************)
EXTENDS TpmIdentity, TLAPS

\* What a caller knows about the key it works on, beyond its type: an armed
\* guard is for a key nobody was told of and nobody removed; a key is configured
\* as a P-256 key and finalized with its whole policy; a created key that is
\* validated is the persisted one unless something outside removed it.
CallInv(c) ==
    /\ armed[c] => handle[c] \notin vouched /\ handle[c] \notin removed.by
    /\ pc[c] = "configure" => "p256" \in policy[handle[c]]
    /\ pc[c] = "finalize" => validateP256Key(handle[c])
    /\ pc[c] = "validate" /\ armed[c] =>
          handle[c] = stored \/ handle[c] \in removed.outside

CallersInv == \A c \in Caller : CallInv(c)
RemovedInv == removed.by \subseteq 1..made

IInv ==
    /\ LifecycleTypeOK
    /\ RemovedInv
    /\ CallersInv
    /\ PersistedKeysConform
    /\ RollbackOwnKeyOnly
    /\ ReportedKeyStays

\* The store holds no key, or one made earlier, and nobody is at work.
LEMMA InitIInv == Init => IInv
<1> SUFFICES ASSUME Init PROVE IInv
  OBVIOUS
<1> USE LifecycleAssumption DEF Init, StoreInit
<1>1. LifecycleTypeOK
  <2>1. made \in 0..MaxKeys /\ stored \in {NoKey} \cup 1..made
    BY DEF Key
  <2> QED BY <2>1 DEF LifecycleTypeOK, Key, PC, Result
<1>2. RemovedInv /\ CallersInv
  BY DEF RemovedInv, CallersInv, CallInv
<1>3. PersistedKeysConform
  <2>1. stored # NoKey => maker[stored] = Earlier
    BY DEF Key
  <2> QED BY <2>1 DEF PersistedKeysConform
<1>4. RollbackOwnKeyOnly /\ ReportedKeyStays
  BY DEF RollbackOwnKeyOnly, ReportedKeyStays
<1> QED BY <1>1, <1>2, <1>3, <1>4 DEF IInv

-----------------------------------------------------------------------------
(* Steps that leave the store and the history alone.                       *)

\* Such a step need only preserve the types and what its own caller knows.
LEMMA CallOnly ==
    ASSUME NEW c \in Caller, IInv, UNCHANGED <<store, vouched>>,
           LifecycleTypeOK', CallInv(c)',
           \A d \in Caller \ {c} : /\ pc'[d] = pc[d]
                                   /\ handle'[d] = handle[d]
                                   /\ armed'[d] = armed[d]
    PROVE  IInv'
<1> USE DEF IInv, store
<1>1. RemovedInv' /\ PersistedKeysConform' /\ RollbackOwnKeyOnly' /\ ReportedKeyStays'
  BY DEF RemovedInv, PersistedKeysConform, RollbackOwnKeyOnly, ReportedKeyStays,
         validateP256Key, isSigningOnlyNonExportablePolicy
<1>2. ASSUME NEW d \in Caller PROVE CallInv(d)'
  <2>1. CASE d = c BY <2>1
  <2>2. CASE d # c
    BY <2>2 DEF CallersInv, CallInv, validateP256Key, isSigningOnlyNonExportablePolicy
  <2> QED BY <2>1, <2>2
<1>3. CallersInv'
  BY <1>2 DEF CallersInv
<1> QED BY <1>1, <1>3

\* A call that returns forgets its handle and disarms its guard.
LEMMA ReturnStep ==
    ASSUME NEW c \in Caller, NEW r \in Result, IInv, Return(c, r),
           UNCHANGED <<store, vouched>>
    PROVE  IInv'
<1> USE DEF IInv, LifecycleTypeOK, store, Return
<1>1. LifecycleTypeOK'
  BY DEF PC
<1>2. CallInv(c)'
  BY DEF CallInv
<1> QED BY <1>1, <1>2, CallOnly

\* ensureKey opens the provider.
LEMMA EnsureStep == ASSUME NEW c \in Caller, IInv, ensureKey(c) PROVE IInv'
<1>1. CASE Return(c, "ProviderFailed")
  BY <1>1, ReturnStep DEF ensureKey, Result
<1>2. CASE ~Return(c, "ProviderFailed")
  <2> USE <1>2 DEF IInv, LifecycleTypeOK, store, ensureKey, Goto
  <2>1. LifecycleTypeOK'
    BY DEF PC, Result
  <2>2. CallInv(c)'
    BY DEF CallInv, CallersInv
  <2> QED BY <2>1, <2>2, CallOnly
<1> QED BY <1>1, <1>2

\* openKey adopts the persisted key without arming the guard.
LEMMA OpenStep == ASSUME NEW c \in Caller, IInv, openKey(c) PROVE IInv'
<1>1. CASE Return(c, "OpenFailed")
  BY <1>1, ReturnStep DEF openKey, Result
<1>2. CASE ~Return(c, "OpenFailed")
  <2> USE <1>2 DEF IInv, LifecycleTypeOK, store, openKey, Goto
  <2>1. ~armed[c]
    OBVIOUS
  <2>2. LifecycleTypeOK'
    BY <2>1 DEF PC
  <2>3. CallInv(c)'
    BY <2>1 DEF CallInv
  <2> QED BY <2>2, <2>3, CallOnly
<1> QED BY <1>1, <1>2

\* A process that dies leaves the store as it is.
LEMMA CrashStep == ASSUME NEW c \in Caller, IInv, Crash(c) PROVE IInv'
BY ReturnStep DEF Crash, Result

-----------------------------------------------------------------------------
(* Steps that change the store or vouch for a key.                         *)

\* Every key made so far is a key, and none is NoKey.
LEMMA MadeKeys ==
    ASSUME LifecycleTypeOK
    PROVE  /\ \A k \in 1..made : k \in Key /\ k # NoKey
           /\ \A c \in Caller : pc[c] \notin {"idle", "open", "create", "reopen"} =>
                 handle[c] \in 1..made /\ handle[c] \in Key
<1>1. \A k \in 1..made : k \in Key /\ k # NoKey
  BY LifecycleAssumption DEF LifecycleTypeOK, Key
<1>2. ASSUME NEW c \in Caller, pc[c] \notin {"idle", "open", "create", "reopen"}
      PROVE  handle[c] \in 1..made
  BY <1>2 DEF LifecycleTypeOK
<1> QED BY <1>1, <1>2

\* A key just made is new to everybody.
LEMMA NewKeyFacts ==
    ASSUME IInv, NEW m \in Caller \cup {Earlier}, NEW P \in SUBSET Requirement,
           NewKey(m, P)
    PROVE  /\ made' = made + 1 /\ made' \in 0..MaxKeys /\ made' \in Key
           /\ policy' \in [Key -> SUBSET Requirement] /\ policy'[made'] = P
           /\ maker' \in [Key -> Caller \cup {Earlier}] /\ maker'[made'] = m
           /\ \A k \in 1..made : k \in Key /\ policy'[k] = policy[k] /\ maker'[k] = maker[k]
           /\ made' \notin 1..made /\ 1..made \subseteq 1..made' /\ made' \in 1..made'
BY LifecycleAssumption DEF IInv, LifecycleTypeOK, NewKey, Key

\* createKey: a private key with the guard armed, or the way to reopen.
LEMMA CreateStep == ASSUME NEW c \in Caller, IInv, createKey(c) PROVE IInv'
<1>1. CASE Return(c, "CreateFailed") /\ UNCHANGED <<made, policy, maker>>
  BY <1>1, ReturnStep DEF createKey, store, Result
<1>2. CASE Goto(c, "reopen") /\ UNCHANGED <<handle, armed, result, made, policy, maker>>
  <2> USE <1>2 DEF IInv, LifecycleTypeOK, store, createKey, Goto
  <2>1. LifecycleTypeOK'
    BY DEF PC
  <2>2. CallInv(c)'
    BY DEF CallInv, CallersInv
  <2> QED BY <2>1, <2>2, CallOnly
<1>3. CASE /\ stored = NoKey
           /\ NewKey(c, {"p256"})
           /\ handle' = [handle EXCEPT ![c] = made + 1]
           /\ armed' = [armed EXCEPT ![c] = TRUE]
           /\ Goto(c, "configure")
           /\ UNCHANGED result
  <2> USE <1>3 DEF IInv, createKey
  <2>1. {"p256"} \in SUBSET Requirement
    BY DEF Requirement
  <2> DEFINE k == made + 1
  <2>2. /\ made' = k /\ made' \in 0..MaxKeys /\ k \in Key
        /\ policy' \in [Key -> SUBSET Requirement] /\ policy'[k] = {"p256"}
        /\ maker' \in [Key -> Caller \cup {Earlier}] /\ maker'[k] = c
        /\ \A j \in 1..made : j \in Key /\ policy'[j] = policy[j] /\ maker'[j] = maker[j]
        /\ k \notin 1..made /\ 1..made \subseteq 1..made' /\ k \in 1..made'
    BY <2>1, NewKeyFacts
  <2>3. NoKey \notin Key
    BY LifecycleAssumption DEF Key
  <2> HIDE DEF k
  <2>4. handle' = [handle EXCEPT ![c] = k]
    BY DEF k
  <2>5. LifecycleTypeOK'
    BY <2>2, <2>3, <2>4 DEF LifecycleTypeOK, Goto, PC
  <2>6. RemovedInv' /\ RollbackOwnKeyOnly' /\ ReportedKeyStays' /\ PersistedKeysConform'
    BY <2>2 DEF RemovedInv, RollbackOwnKeyOnly, ReportedKeyStays, PersistedKeysConform
  <2>7. ASSUME NEW d \in Caller PROVE CallInv(d)'
    <3>1. CASE d = c
      BY <3>1, <2>2, <2>4 DEF CallInv, LifecycleTypeOK, RemovedInv, Goto
    <3>2. CASE d # c
      BY <3>2, <2>2, <2>4 DEF CallInv, CallersInv, LifecycleTypeOK, Goto,
            validateP256Key, isSigningOnlyNonExportablePolicy
    <3> QED BY <3>1, <3>2
  <2> QED BY <2>5, <2>6, <2>7 DEF CallersInv
<1> QED BY <1>1, <1>2, <1>3 DEF createKey

\* configureCreatedKey only adds requirements, so no key loses conformity, and
\* the key goes to finalize with all of them.
LEMMA ConfigureStep == ASSUME NEW c \in Caller, IInv, configureCreatedKey(c) PROVE IInv'
<1> USE DEF IInv
<1>1. /\ handle[c] \in Key /\ armed[c] = TRUE /\ pc[c] = "configure"
      /\ UNCHANGED <<stored, made, maker, removed, vouched, handle, armed>>
  BY MadeKeys DEF LifecycleTypeOK, configureCreatedKey, Fail
<1>2. PICK set \in SUBSET {"exportDisabled", "signingOnly"} :
         /\ policy' = [policy EXCEPT ![handle[c]] = policy[handle[c]] \cup set]
         /\ \/ /\ set = {"exportDisabled", "signingOnly"}
               /\ pc' = [pc EXCEPT ![c] = "finalize"] /\ result' = result
            \/ /\ pc' = [pc EXCEPT ![c] = "rollback"]
               /\ result' = [result EXCEPT ![c] = "ConfigureFailed"]
  BY <1>1 DEF configureCreatedKey, Fail, Goto
<1>3. policy' \in [Key -> SUBSET Requirement] /\ \A k \in Key : policy[k] \subseteq policy'[k]
  BY <1>1, <1>2 DEF LifecycleTypeOK, Requirement
<1>4. LifecycleTypeOK'
  BY <1>1, <1>2, <1>3 DEF LifecycleTypeOK, PC, Result
<1>5. \A k \in Key : validateP256Key(k) => validateP256Key(k)'
  BY <1>3 DEF validateP256Key, isSigningOnlyNonExportablePolicy
<1>6. RemovedInv' /\ RollbackOwnKeyOnly' /\ ReportedKeyStays'
  BY <1>1 DEF RemovedInv, RollbackOwnKeyOnly, ReportedKeyStays
<1>7. PersistedKeysConform'
  <2>1. stored # NoKey => stored \in Key
    BY MadeKeys DEF LifecycleTypeOK
  <2> QED BY <2>1, <1>1, <1>5 DEF PersistedKeysConform
<1>8. ASSUME NEW d \in Caller PROVE CallInv(d)'
  <2>1. handle[d] # NoKey => handle[d] \in Key
    BY MadeKeys DEF LifecycleTypeOK
  <2>2. CASE d # c
    BY <2>1, <2>2, <1>1, <1>2, <1>3, <1>5 DEF CallInv, CallersInv, LifecycleTypeOK
  <2>3. CASE d = c
    BY <2>3, <1>1, <1>2 DEF CallInv, CallersInv, LifecycleTypeOK,
          validateP256Key, isSigningOnlyNonExportablePolicy
  <2> QED BY <2>2, <2>3
<1> QED BY <1>4, <1>6, <1>7, <1>8 DEF CallersInv

\* A caller with an armed guard that fails goes on to the rollback.
LEMMA FailStep ==
    ASSUME NEW c \in Caller, NEW r \in Result, IInv, Fail(c, r),
           UNCHANGED <<store, vouched>>
    PROVE  IInv'
<1>1. CASE ~armed[c]
  BY <1>1, ReturnStep DEF Fail
<1>2. CASE armed[c]
  <2> USE <1>2 DEF IInv, LifecycleTypeOK, store, Fail, Goto
  <2>1. LifecycleTypeOK'
    BY DEF PC
  <2>2. CallInv(c)'
    BY DEF CallInv, CallersInv
  <2> QED BY <2>1, <2>2, CallOnly
<1> QED BY <1>1, <1>2

\* finalizeCreatedKey persists a key with its whole policy, under a free name.
LEMMA FinalizeStep == ASSUME NEW c \in Caller, IInv, finalizeCreatedKey(c) PROVE IInv'
<1>1. CASE Fail(c, "FinalizeFailed") /\ UNCHANGED stored
  BY <1>1, FailStep DEF finalizeCreatedKey, store, Result
<1>2. CASE /\ stored = NoKey /\ stored' = handle[c] /\ Goto(c, "validate")
           /\ UNCHANGED <<handle, armed, result>>
  <2> USE <1>2 DEF IInv, finalizeCreatedKey
  <2>1. LifecycleTypeOK'
    BY DEF LifecycleTypeOK, Goto, PC
  <2>2. RemovedInv' /\ RollbackOwnKeyOnly'
    BY DEF RemovedInv, RollbackOwnKeyOnly
  <2>3. PersistedKeysConform'
    BY DEF PersistedKeysConform, CallersInv, CallInv, validateP256Key,
           isSigningOnlyNonExportablePolicy
  <2>4. NoKey \notin vouched
    BY MadeKeys DEF LifecycleTypeOK
  <2>5. ReportedKeyStays'
    BY <2>4 DEF ReportedKeyStays
  <2>6. ASSUME NEW d \in Caller PROVE CallInv(d)'
    BY DEF CallersInv, CallInv, LifecycleTypeOK, Goto, validateP256Key,
           isSigningOnlyNonExportablePolicy
  <2> QED BY <2>1, <2>2, <2>3, <2>5, <2>6 DEF CallersInv
<1> QED BY <1>1, <1>2 DEF finalizeCreatedKey

\* validateKey vouches for a key of its own that is still there.
LEMMA ValidateStep == ASSUME NEW c \in Caller, IInv, validateKey(c) PROVE IInv'
<1>1. CASE Fail(c, "ValidationFailed") /\ UNCHANGED vouched
  BY <1>1, FailStep DEF validateKey, Result
<1>2. CASE /\ Return(c, "Success")
           /\ vouched' = IF armed[c] THEN vouched \cup {handle[c]} ELSE vouched
  <2>1. CASE ~armed[c]
    BY <1>2, <2>1, ReturnStep DEF validateKey, Result
  <2>2. CASE armed[c]
    <3> USE <1>2, <2>2 DEF IInv, validateKey, store, Return
    <3>1. LifecycleTypeOK'
      <4>1. handle[c] \in 1..made
        BY MadeKeys
      <4> QED BY <4>1 DEF LifecycleTypeOK, PC, Result
    <3>2. RemovedInv' /\ PersistedKeysConform'
      BY DEF RemovedInv, PersistedKeysConform, validateP256Key,
             isSigningOnlyNonExportablePolicy
    <3>3. RollbackOwnKeyOnly' /\ ReportedKeyStays'
      BY DEF RollbackOwnKeyOnly, ReportedKeyStays, CallersInv, CallInv
    <3>4. ASSUME NEW d \in Caller PROVE CallInv(d)'
      BY DEF CallersInv, CallInv, LifecycleTypeOK, validateP256Key,
             isSigningOnlyNonExportablePolicy
    <3> QED BY <3>1, <3>2, <3>3, <3>4 DEF CallersInv
  <2> QED BY <2>1, <2>2
<1> QED BY <1>1, <1>2 DEF validateKey

\* The rollback removes the caller's own key, which nobody else has armed a
\* guard for and nobody was told of.
LEMMA DeleteStep == ASSUME NEW c \in Caller, IInv, deleteCreatedKey(c) PROVE IInv'
<1>1. result[c] \in Result
  BY DEF IInv, LifecycleTypeOK
<1>2. CASE UNCHANGED <<stored, removed>>
  BY <1>1, <1>2, ReturnStep DEF deleteCreatedKey, store
<1>3. CASE /\ stored = handle[c] /\ stored' = NoKey
           /\ removed' = [removed EXCEPT !.by = removed.by \cup {handle[c]}]
  <2> USE <1>3 DEF IInv, deleteCreatedKey, Return
  <2>1. /\ armed[c] /\ handle[c] \in 1..made /\ handle[c] \in Key
        /\ maker[handle[c]] = c /\ handle[c] \notin vouched
    BY MadeKeys DEF LifecycleTypeOK, CallersInv, CallInv
  <2>2. /\ removed'.by = removed.by \cup {handle[c]} /\ removed'.outside = removed.outside
        /\ removed' \in [by : SUBSET Key, outside : SUBSET Key]
    BY <2>1 DEF LifecycleTypeOK
  <2>3. LifecycleTypeOK'
    BY <1>1, <2>2 DEF LifecycleTypeOK, PC
  <2>4. RemovedInv' /\ RollbackOwnKeyOnly' /\ PersistedKeysConform'
    BY <2>1, <2>2 DEF RemovedInv, RollbackOwnKeyOnly, PersistedKeysConform
  <2>5. ReportedKeyStays'
    BY <2>1, <2>2 DEF ReportedKeyStays
  <2>6. ASSUME NEW d \in Caller PROVE CallInv(d)'
    BY <2>1, <2>2 DEF CallersInv, CallInv, LifecycleTypeOK, validateP256Key,
           isSigningOnlyNonExportablePolicy
  <2> QED BY <2>3, <2>4, <2>5, <2>6 DEF CallersInv
<1> QED BY <1>2, <1>3 DEF deleteCreatedKey

\* What happens outside clears the store or fills an empty one.
LEMMA OutsideStep == ASSUME IInv, Outside PROVE IInv'
<1> USE DEF IInv, Outside, call
<1>1. CASE /\ stored # NoKey /\ stored' = NoKey
           /\ removed' = [removed EXCEPT !.outside = removed.outside \cup {stored}]
           /\ UNCHANGED <<made, policy, maker>>
  <2>1. /\ removed'.by = removed.by /\ removed'.outside = removed.outside \cup {stored}
        /\ removed' \in [by : SUBSET Key, outside : SUBSET Key]
    BY <1>1, MadeKeys DEF LifecycleTypeOK
  <2>2. LifecycleTypeOK'
    BY <1>1, <2>1 DEF LifecycleTypeOK
  <2>3. RemovedInv' /\ RollbackOwnKeyOnly' /\ PersistedKeysConform' /\ ReportedKeyStays'
    BY <1>1, <2>1 DEF RemovedInv, RollbackOwnKeyOnly, PersistedKeysConform, ReportedKeyStays
  <2>4. ASSUME NEW d \in Caller PROVE CallInv(d)'
    BY <1>1, <2>1 DEF CallersInv, CallInv, validateP256Key, isSigningOnlyNonExportablePolicy
  <2> QED BY <2>2, <2>3, <2>4 DEF CallersInv
<1>2. ASSUME stored = NoKey, stored' = made + 1, UNCHANGED removed,
             NEW P \in SUBSET Requirement, NewKey(Earlier, P)
      PROVE  IInv'
  <2>1. /\ made' = made + 1 /\ made' \in 0..MaxKeys /\ made' \in Key
        /\ policy' \in [Key -> SUBSET Requirement] /\ policy'[made'] = P
        /\ maker' \in [Key -> Caller \cup {Earlier}] /\ maker'[made'] = Earlier
        /\ \A k \in 1..made : k \in Key /\ policy'[k] = policy[k] /\ maker'[k] = maker[k]
        /\ made' \notin 1..made /\ 1..made \subseteq 1..made' /\ made' \in 1..made'
    BY <1>2, NewKeyFacts
  <2>2. NoKey \notin Key /\ Earlier \notin Caller
    BY LifecycleAssumption DEF Key
  <2>3. stored' = made'
    BY <1>2, <2>1
  <2>4. LifecycleTypeOK'
    BY <1>2, <2>1, <2>2, <2>3 DEF LifecycleTypeOK
  <2>5. RemovedInv' /\ RollbackOwnKeyOnly' /\ PersistedKeysConform'
    BY <1>2, <2>1, <2>2, <2>3 DEF RemovedInv, RollbackOwnKeyOnly, PersistedKeysConform
  <2>6. ReportedKeyStays'
    BY <1>2, <2>1, <2>2 DEF ReportedKeyStays, LifecycleTypeOK
  <2>7. ASSUME NEW d \in Caller PROVE CallInv(d)'
    BY <1>2, <2>1, <2>2 DEF CallersInv, CallInv, LifecycleTypeOK, validateP256Key,
           isSigningOnlyNonExportablePolicy
  <2> QED BY <2>4, <2>5, <2>6, <2>7 DEF CallersInv
<1> QED BY <1>1, <1>2

\* Every step of every caller, of the outside and of nobody keeps the invariant.
LEMMA NextIInv == IInv /\ [Next]_lifecycleVars => IInv'
<1> SUFFICES ASSUME IInv, [Next]_lifecycleVars PROVE IInv'
  OBVIOUS
<1>1. CASE UNCHANGED lifecycleVars
  BY <1>1 DEF lifecycleVars, store, call, IInv, LifecycleTypeOK, RemovedInv, CallersInv,
              CallInv, PersistedKeysConform, RollbackOwnKeyOnly, ReportedKeyStays,
              validateP256Key, isSigningOnlyNonExportablePolicy
<1>2. ASSUME NEW c \in Caller, ensureKey(c) \/ CallStep(c) PROVE IInv'
  BY <1>2, EnsureStep, OpenStep, CreateStep, ConfigureStep, FinalizeStep, ValidateStep,
     DeleteStep, CrashStep DEF CallStep
<1> QED BY <1>1, <1>2, OutsideStep DEF Next

-----------------------------------------------------------------------------
\* The inductive invariant holds for any number of callers and keys.
THEOREM Invariance == Spec => []IInv
BY InitIInv, NextIInv, PTL DEF Spec

\* Handles, guards and results keep their types and match the step of
\* ensureKeyLifecycle a caller is at.
THEOREM TypeCorrectness == Spec => []LifecycleTypeOK
BY Invariance, PTL DEF IInv

\* Every key this program persisted satisfies the whole policy, whatever failed
\* and whoever crashed (configureCreatedKey before finalizeCreatedKey).
THEOREM PersistedKeysConformHolds == Spec => []PersistedKeysConform
BY Invariance, PTL DEF IInv

\* The guard DeleteCreatedKeyOnFailure removes keys of its own call only.
THEOREM RollbackOwnKeyOnlyHolds == Spec => []RollbackOwnKeyOnly
BY Invariance, PTL DEF IInv

\* A key its maker's ensureKey reported stays until something outside removes it.
THEOREM ReportedKeyStaysHolds == Spec => []ReportedKeyStays
BY Invariance, PTL DEF IInv

-----------------------------------------------------------------------------
(* The users of the key.                                                   *)

Gone(k) == k \in removed.by \cup removed.outside

\* A key that was read: it conforms, and it is the persisted one or was removed.
Seen(k) == k \in 1..made /\ validateP256Key(k) /\ (k = stored \/ Gone(k))

UseRecord ==
    [step : {"idle", "loginSign", "buildBlob", "buildSign"},
     first : Key \cup {NoKey}, blob : Key \cup {NoKey}, token : Key \cup {NoKey},
     proof : {NoProof} \cup [jwk : Key \cup {NoKey}, signer : Key \cup {NoKey}]]

Good(u) ==
    /\ \A k \in {u.first, u.blob, u.token} \ {NoKey} : Seen(k)
    /\ u.proof # NoProof =>
          /\ u.proof.jwk = u.token /\ Seen(u.proof.signer)
          /\ u.proof.signer = u.proof.jwk \/ Gone(u.proof.jwk)
    /\ u.step \in {"buildBlob", "buildSign"} =>
          u.first = u.token /\ u.first # NoKey /\ u.proof = NoProof
    /\ u.step = "loginSign" => u.blob # NoKey

UseInv ==
    /\ IInv
    /\ use \in [Caller -> UseRecord]
    /\ \A c \in Caller : Good(use[c])

\* What the store does to a key that was read: its policy is not taken back, and
\* it leaves the store only by being removed.
LEMMA StoreStep ==
    ASSUME IInv, [Next]_lifecycleVars
    PROVE  /\ 1..made \subseteq 1..made'
           /\ \A k \in 1..made : validateP256Key(k) => validateP256Key(k)'
           /\ \A k : Gone(k) => Gone(k)'
           /\ stored' = stored \/ stored = NoKey \/ stored \in removed'.by \cup removed'.outside
<1> DEFINE Kept == /\ 1..made \subseteq 1..made'
                   /\ \A k \in 1..made : policy[k] \subseteq policy'[k]
                   /\ removed.by \subseteq removed'.by
                   /\ removed.outside \subseteq removed'.outside
                   /\ stored' = stored \/ stored = NoKey \/ stored \in removed'.by \cup removed'.outside
<1> USE DEF IInv
<1>1. ASSUME UNCHANGED <<stored, made, policy, removed>> PROVE Kept
  BY <1>1
<1>2. ASSUME NEW c \in Caller, createKey(c) PROVE Kept
  <2>1. CASE UNCHANGED <<made, policy, maker>>
    BY <1>2, <2>1 DEF createKey
  <2>2. CASE NewKey(c, {"p256"})
    <3>1. {"p256"} \in SUBSET Requirement
      BY DEF Requirement
    <3> QED BY <1>2, <2>2, <3>1, NewKeyFacts DEF createKey
  <2> QED BY <1>2, <2>1, <2>2 DEF createKey
<1>3. ASSUME NEW c \in Caller, configureCreatedKey(c) PROVE Kept
  <2>1. handle[c] \in Key /\ UNCHANGED <<stored, made, removed>>
    BY <1>3, MadeKeys DEF configureCreatedKey
  <2>2. PICK set \in SUBSET Requirement :
           policy' = [policy EXCEPT ![handle[c]] = policy[handle[c]] \cup set]
    BY <1>3 DEF configureCreatedKey, Requirement
  <2> QED BY <2>1, <2>2, MadeKeys DEF LifecycleTypeOK
<1>4. ASSUME NEW c \in Caller, finalizeCreatedKey(c) PROVE Kept
  BY <1>4 DEF finalizeCreatedKey
<1>5. ASSUME NEW c \in Caller, deleteCreatedKey(c) PROVE Kept
  <2>1. UNCHANGED <<made, policy>>
    BY <1>5 DEF deleteCreatedKey
  <2>2. CASE UNCHANGED <<stored, removed>>
    BY <2>1, <2>2
  <2>3. CASE /\ stored = handle[c]
             /\ removed' = [removed EXCEPT !.by = removed.by \cup {handle[c]}]
    BY <2>1, <2>3 DEF LifecycleTypeOK
  <2> QED BY <1>5, <2>2, <2>3 DEF deleteCreatedKey
<1>6. ASSUME Outside PROVE Kept
  <2>1. CASE /\ UNCHANGED <<made, policy, maker>>
             /\ removed' = [removed EXCEPT !.outside = removed.outside \cup {stored}]
    BY <2>1 DEF LifecycleTypeOK
  <2>2. ASSUME NEW P \in SUBSET Requirement, NewKey(Earlier, P), stored = NoKey,
               UNCHANGED removed
        PROVE  Kept
    BY <2>2, NewKeyFacts
  <2> QED BY <1>6, <2>1, <2>2 DEF Outside
<1>7. ASSUME NEW c \in Caller,
             ensureKey(c) \/ openKey(c) \/ validateKey(c) \/ Crash(c)
      PROVE  Kept
  BY <1>7 DEF ensureKey, openKey, validateKey, Crash, store
<1>8. Kept
  BY <1>1, <1>2, <1>3, <1>4, <1>5, <1>6, <1>7 DEF Next, CallStep, lifecycleVars, store
<1> QED BY <1>8 DEF Gone, validateP256Key, isSigningOnlyNonExportablePolicy

\* So what was known of a user stays known while the store changes.
LEMMA UsersKeep ==
    ASSUME UseInv, [Next]_lifecycleVars, UNCHANGED use PROVE UseInv'
<1>1. IInv'
  BY NextIInv DEF UseInv
<1>2. \A k : Seen(k) => Seen(k)'
  <2> SUFFICES ASSUME NEW k, Seen(k) PROVE Seen(k)'
    OBVIOUS
  <2>1. k # NoKey
    BY MadeKeys DEF UseInv, IInv, Seen
  <2>2. /\ 1..made \subseteq 1..made'
        /\ validateP256Key(k) => validateP256Key(k)'
        /\ Gone(k) => Gone(k)'
        /\ stored' = stored \/ stored = NoKey \/ stored \in removed'.by \cup removed'.outside
    BY StoreStep DEF UseInv, Seen
  <2>3. k = stored => k = stored' \/ Gone(k)'
    BY <2>1, <2>2 DEF Gone
  <2> QED BY <2>2, <2>3 DEF Seen
<1>3. ASSUME NEW c \in Caller PROVE Good(use[c])'
  <2>1. use'[c] = use[c] /\ Good(use[c])
    BY DEF UseInv
  <2>2. \A k : Gone(k) => Gone(k)'
    BY StoreStep DEF UseInv
  <2> QED BY <2>1, <2>2, <1>2 DEF Good
<1> QED BY <1>1, <1>3 DEF UseInv

\* Both readers of the key return one that is seen now.
LEMMA ReadKeys ==
    ASSUME IInv, NEW k \in publicKeyBlob \cup signChallenge, k # NoKey
    PROVE  Seen(k) /\ k = stored /\ k \in Key
BY MadeKeys DEF IInv, LifecycleTypeOK, publicKeyBlob, signChallenge, Seen

\* A user's own step leaves the store alone and its record good.
LEMMA SetStep ==
    ASSUME UseInv, NEW c \in Caller, NEW u \in UseRecord, Good(u), Set(c, u),
           UNCHANGED lifecycleVars
    PROVE  UseInv'
<1>1. IInv'
  BY NextIInv DEF UseInv
<1>2. use' \in [Caller -> UseRecord]
  BY DEF Set, UseInv
<1>3. ASSUME NEW d \in Caller PROVE Good(use[d])'
  <2>1. Good(use'[d])
    BY DEF Set, UseInv
  <2> QED BY <2>1 DEF Good, Seen, Gone, validateP256Key, isSigningOnlyNonExportablePolicy,
                      lifecycleVars, store
<1> QED BY <1>1, <1>2, <1>3 DEF UseInv

\* Nothing is known of a record of no use, and giving up keeps token and proof.
LEMMA QuitStep ==
    ASSUME UseInv, NEW c \in Caller, UNCHANGED lifecycleVars, Set(c, NoUse) \/ Quit(c)
    PROVE  UseInv'
<1>1. NoUse \in UseRecord /\ Good(NoUse)
  BY DEF NoUse, UseRecord, Good
<1>2. CASE Set(c, NoUse)
  BY <1>1, <1>2, SetStep
<1>3. CASE Quit(c)
  <2> DEFINE u == [use[c] EXCEPT !.step = "idle", !.first = NoKey, !.blob = NoKey]
  <2>1. use[c] \in UseRecord /\ Good(use[c])
    BY DEF UseInv
  <2>2. u \in UseRecord
    BY <2>1 DEF UseRecord
  <2>3. Good(u)
    BY <2>1 DEF Good, UseRecord
  <2> QED BY <1>3, <2>2, <2>3, SetStep DEF Quit
<1> QED BY <1>2, <1>3

\* Each step of a login or a proof: the keys it adds were read now, a token is
\* bound to the key that was sent, a proof carries the token's key.
LEMMA UseStep == ASSUME UseInv, NEW c \in Caller, UseKey(c) PROVE UseInv'
<1> DEFINE u0 == use[c]
<1>1. u0 \in UseRecord /\ Good(u0) /\ UNCHANGED lifecycleVars
  BY DEF UseInv, UseKey
<1>2. CASE LoginBlob(c)
  <2>1. PICK k \in publicKeyBlob :
           IF k = NoKey THEN Set(c, NoUse)
           ELSE Set(c, [NoUse EXCEPT !.step = "loginSign", !.blob = k])
    BY <1>2 DEF LoginBlob
  <2>2. CASE k # NoKey
    <3>1. Seen(k) /\ k \in Key
      BY <2>2, ReadKeys DEF UseInv
    <3> DEFINE u == [NoUse EXCEPT !.step = "loginSign", !.blob = k]
    <3>2. u \in UseRecord /\ Good(u)
      BY <2>2, <3>1 DEF NoUse, UseRecord, Good
    <3> QED BY <2>1, <2>2, <3>2, <1>1, SetStep
  <2> QED BY <2>1, <2>2, <1>1, QuitStep
<1>3. CASE LoginSign(c)
  <2>1. PICK k \in signChallenge :
           IF k = use[c].blob THEN Set(c, [NoUse EXCEPT !.token = k]) ELSE Set(c, NoUse)
    BY <1>3 DEF LoginSign
  <2>2. CASE k = use[c].blob
    <3>1. k # NoKey
      BY <2>2, <1>1, <1>3 DEF LoginSign, At, Good
    <3>2. Seen(k) /\ k \in Key
      BY <3>1, ReadKeys DEF UseInv
    <3> DEFINE u == [NoUse EXCEPT !.token = k]
    <3>3. u \in UseRecord /\ Good(u)
      BY <3>1, <3>2 DEF NoUse, UseRecord, Good
    <3> QED BY <2>1, <2>2, <3>3, <1>1, SetStep
  <2> QED BY <2>1, <2>2, <1>1, QuitStep
<1>4. CASE Build(c)
  <2>1. PICK k \in publicKeyBlob :
           IF k = use[c].token
           THEN Set(c, [use[c] EXCEPT !.step = "buildBlob", !.first = k, !.proof = NoProof])
           ELSE Quit(c)
    BY <1>4 DEF Build
  <2>2. CASE k = use[c].token
    <3>1. k # NoKey
      BY <2>2, <1>4 DEF Build
    <3>2. Seen(k) /\ k \in Key
      BY <3>1, ReadKeys DEF UseInv
    <3> DEFINE u == [use[c] EXCEPT !.step = "buildBlob", !.first = k, !.proof = NoProof]
    <3>3. u \in UseRecord
      BY <1>1, <3>2 DEF UseRecord
    <3>4. Good(u)
      BY <1>1, <2>2, <3>1, <3>2 DEF UseRecord, Good
    <3> QED BY <2>1, <2>2, <3>3, <3>4, <1>1, SetStep
  <2> QED BY <2>1, <2>2, <1>1, QuitStep
<1>5. CASE BuildBlob(c)
  <2>1. PICK k \in publicKeyBlob :
           IF k = NoKey THEN Quit(c)
           ELSE Set(c, [use[c] EXCEPT !.step = "buildSign", !.blob = k])
    BY <1>5 DEF BuildBlob
  <2>2. CASE k # NoKey
    <3>1. Seen(k) /\ k \in Key
      BY <2>2, ReadKeys DEF UseInv
    <3> DEFINE u == [use[c] EXCEPT !.step = "buildSign", !.blob = k]
    <3>2. u \in UseRecord
      BY <1>1, <3>1 DEF UseRecord
    <3>3. Good(u)
      BY <1>1, <1>5, <2>2, <3>1 DEF UseRecord, Good, BuildBlob, At
    <3> QED BY <2>1, <2>2, <3>2, <3>3, <1>1, SetStep
  <2> QED BY <2>1, <2>2, <1>1, QuitStep
<1>6. CASE BuildSign(c)
  <2>1. PICK k \in signChallenge :
           IF k # NoKey /\ use[c].blob = use[c].first
           THEN Set(c, [use[c] EXCEPT !.step = "idle", !.first = NoKey, !.blob = NoKey,
                           !.proof = [jwk |-> use[c].first, signer |-> k]])
           ELSE Quit(c)
    BY <1>6 DEF BuildSign
  <2>2. CASE k # NoKey /\ use[c].blob = use[c].first
    <3>1. Seen(k) /\ k = stored /\ k \in Key
      BY <2>2, ReadKeys DEF UseInv
    <3>2. use[c].first = use[c].token /\ Seen(use[c].first) /\ use[c].first # NoKey
      BY <1>1, <1>6 DEF BuildSign, At, Good
    <3> DEFINE p == [jwk |-> use[c].first, signer |-> k]
               u == [use[c] EXCEPT !.step = "idle", !.first = NoKey, !.blob = NoKey,
                         !.proof = p]
    <3>3. u \in UseRecord
      BY <1>1, <3>1 DEF UseRecord
    <3>4. p.signer = p.jwk \/ Gone(p.jwk)
      BY <3>1, <3>2 DEF Seen
    <3>5. Good(u)
      BY <1>1, <3>1, <3>2, <3>4 DEF UseRecord, Good
    <3> QED BY <2>1, <2>2, <3>3, <3>5, <1>1, SetStep
  <2> QED BY <2>1, <2>2, <1>1, QuitStep
<1> QED BY <1>2, <1>3, <1>4, <1>5, <1>6 DEF UseKey

\* The invariant of the store and its users, for any number of both.
THEOREM UseInvariance == UseSpec => []UseInv
<1>1. UseInit => UseInv
  <2> SUFFICES ASSUME UseInit PROVE UseInv
    OBVIOUS
  <2>1. NoUse \in UseRecord /\ Good(NoUse)
    BY DEF NoUse, UseRecord, Good
  <2> QED BY <2>1, InitIInv DEF UseInit, UseInv
<1>2. UseInv /\ [UseNext]_vars => UseInv'
  <2> SUFFICES ASSUME UseInv, [UseNext]_vars PROVE UseInv'
    OBVIOUS
  <2>1. CASE [Next]_lifecycleVars /\ UNCHANGED use
    BY <2>1, UsersKeep
  <2>2. ASSUME NEW c \in Caller, UseKey(c) PROVE UseInv'
    BY <2>2, UseStep
  <2> QED BY <2>1, <2>2 DEF UseNext, Next, vars
<1> QED BY <1>1, <1>2, PTL DEF UseSpec

\* No key that fails validation is sent, bound to a token or signed with: every
\* open validates (TpmIdentity::publicKeyBlob and signChallenge).
THEOREM UsedKeysConformHolds == UseSpec => []UsedKeysConform
<1>1. UseInv => UsedKeysConform
  BY DEF UseInv, Good, Seen, UsedKeysConform
<1> QED BY <1>1, UseInvariance, PTL

\* A proof carries the key its token is bound to (DeviceProofBuilder::build).
THEOREM ProofBoundToTokenHolds == UseSpec => []ProofBoundToToken
<1>1. UseInv => ProofBoundToToken
  BY DEF UseInv, Good, ProofBoundToToken
<1> QED BY <1>1, UseInvariance, PTL

\* The key in a proof and the key that signed it differ only when the first one
\* has been removed.
THEOREM MismatchedProofIsDeadHolds == UseSpec => []MismatchedProofIsDead
<1>1. UseInv => MismatchedProofIsDead
  BY DEF UseInv, Good, Gone, MismatchedProofIsDead
<1> QED BY <1>1, UseInvariance, PTL
=============================================================================
