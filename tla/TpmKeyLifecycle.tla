-------------------------- MODULE TpmKeyLifecycle --------------------------
(***************************************************************************)
(* TpmIdentity::ensureKey: opening or creating the one persisted TPM key,  *)
(* by callers that share the key store (the threads of the client and of   *)
(* HwidObtainer, in one process or in several).                            *)
(*                                                                         *)
(* The key store is external (CNG's platform provider) and is modelled     *)
(* from the calls the code makes and the statuses it expects: a created    *)
(* key is private to its handle until it is finalized, creating or         *)
(* finalizing under a taken name fails (no overwrite flag is given), a     *)
(* handle denotes one key and deleting through it removes that key only.   *)
(* Every call may also fail for reasons of its own.                        *)
(***************************************************************************)
EXTENDS Naturals

CONSTANTS
    Caller,
    NoKey,
    Earlier,        \* the maker of a key no caller created
    MaxKeys         \* bound on the keys ever made under the name

ASSUME LifecycleAssumption ==
    /\ MaxKeys \in Nat
    /\ NoKey \notin 1..MaxKeys
    /\ Earlier \notin Caller

VARIABLES
    stored,         \* the key persisted under KeyName
    made,           \* keys made so far: 1..made
    policy,         \* the requirements each key meets
    maker,
    removed,        \* persisted keys that were deleted: by whom
    pc,
    handle,         \* CngKeyLifecycle::key_
    armed,          \* DeleteCreatedKeyOnFailure holds the lifecycle
    result,         \* the last EnsureKeyResult
    vouched         \* keys whose maker's call returned Success (history)

store == <<stored, made, policy, maker, removed>>
call == <<pc, handle, armed, result>>
lifecycleVars == <<store, call, vouched>>

Key == 1..MaxKeys
Requirement == {"p256", "exportDisabled", "signingOnly"}
Result == {"None", "Success", "ProviderFailed", "OpenFailed", "CreateFailed",
           "ConfigureFailed", "FinalizeFailed", "ValidationFailed"}
PC == {"idle", "open", "create", "reopen", "configure", "finalize", "validate",
       "rollback"}

isSigningOnlyNonExportablePolicy(k) ==
    {"exportDisabled", "signingOnly"} \subseteq policy[k]

\* validateP256Key: what a handle to k can pass when no call on it fails.
validateP256Key(k) == "p256" \in policy[k] /\ isSigningOnlyNonExportablePolicy(k)

-----------------------------------------------------------------------------
StoreInit ==
    /\ stored \in {NoKey, 1} \cap (Key \cup {NoKey})
    /\ made = IF stored = NoKey THEN 0 ELSE 1
    /\ policy \in [Key -> SUBSET Requirement]
    /\ \A k \in Key : k # stored => policy[k] = {}
    /\ maker = [k \in Key |-> Earlier]
    /\ removed = [by |-> {}, outside |-> {}]

Init ==
    /\ StoreInit
    /\ pc = [c \in Caller |-> "idle"]
    /\ handle = [c \in Caller |-> NoKey]
    /\ armed = [c \in Caller |-> FALSE]
    /\ result = [c \in Caller |-> "None"]
    /\ vouched = {}

Goto(c, label) == pc' = [pc EXCEPT ![c] = label]

\* The call returns r; the lifecycle object and its handle are destroyed.
Return(c, r) ==
    /\ pc' = [pc EXCEPT ![c] = "idle"]
    /\ handle' = [handle EXCEPT ![c] = NoKey]
    /\ armed' = [armed EXCEPT ![c] = FALSE]
    /\ result' = [result EXCEPT ![c] = r]

\* Leaving with a failure runs the guard's destructor when it is armed.
Fail(c, r) ==
    IF armed[c]
    THEN /\ Goto(c, "rollback")
         /\ result' = [result EXCEPT ![c] = r]
         /\ UNCHANGED <<handle, armed>>
    ELSE Return(c, r)

ensureKey(c) ==
    /\ pc[c] = "idle"
    /\ \/ Goto(c, "open") /\ result' = [result EXCEPT ![c] = "None"]
          /\ UNCHANGED <<handle, armed>>
       \/ Return(c, "ProviderFailed")
    /\ UNCHANGED <<store, vouched>>

openKey(c) ==
    /\ pc[c] \in {"open", "reopen"}
    /\ \/ /\ stored # NoKey
          /\ handle' = [handle EXCEPT ![c] = stored]
          /\ Goto(c, "validate")
          /\ UNCHANGED <<armed, result>>
       \/ /\ stored = NoKey /\ pc[c] = "open"
          /\ Goto(c, "create")
          /\ UNCHANGED <<handle, armed, result>>
       \/ Return(c, "OpenFailed")
    /\ UNCHANGED <<store, vouched>>

NewKey(m, properties) ==
    /\ made < MaxKeys
    /\ made' = made + 1
    /\ policy' = [policy EXCEPT ![made + 1] = properties]
    /\ maker' = [maker EXCEPT ![made + 1] = m]

createKey(c) ==
    /\ pc[c] = "create"
    /\ \/ /\ stored # NoKey
          /\ Goto(c, "reopen")
          /\ UNCHANGED <<handle, armed, result, made, policy, maker>>
       \/ /\ stored = NoKey
          /\ NewKey(c, {"p256"})
          /\ handle' = [handle EXCEPT ![c] = made + 1]
          /\ armed' = [armed EXCEPT ![c] = TRUE]
          /\ Goto(c, "configure")
          /\ UNCHANGED result
       \/ Return(c, "CreateFailed") /\ UNCHANGED <<made, policy, maker>>
    /\ UNCHANGED <<stored, removed, vouched>>

\* Mutant: a failing second NCryptSetProperty is not noticed.
configureCreatedKeyUnchecked(c) ==
    /\ pc[c] = "configure"
    /\ \E set \in {{"exportDisabled"}, {"exportDisabled", "signingOnly"}} :
          policy' = [policy EXCEPT ![handle[c]] = policy[handle[c]] \cup set]
    /\ Goto(c, "finalize")
    /\ UNCHANGED <<stored, made, maker, removed, handle, armed, result, vouched>>

\* Two properties are set; the second is tried only after the first.
configureCreatedKey(c) ==
    /\ pc[c] = "configure"
    /\ \/ /\ policy' = [policy EXCEPT ![handle[c]] =
                          policy[handle[c]] \cup {"exportDisabled", "signingOnly"}]
          /\ Goto(c, "finalize")
          /\ UNCHANGED <<handle, armed, result>>
       \/ /\ \E set \in {{}, {"exportDisabled"}} :
                policy' = [policy EXCEPT ![handle[c]] = policy[handle[c]] \cup set]
          /\ Fail(c, "ConfigureFailed")
    /\ UNCHANGED <<stored, made, maker, removed, vouched>>

\* Mutant: the key is created with the overwrite flag.
finalizeOverwrites(c) ==
    /\ pc[c] = "finalize"
    /\ stored' = handle[c]
    /\ Goto(c, "validate")
    /\ UNCHANGED <<handle, armed, result, made, policy, maker, removed, vouched>>

finalizeCreatedKey(c) ==
    /\ pc[c] = "finalize"
    /\ \/ /\ stored = NoKey
          /\ stored' = handle[c]
          /\ Goto(c, "validate")
          /\ UNCHANGED <<handle, armed, result>>
       \/ Fail(c, "FinalizeFailed") /\ UNCHANGED stored
    /\ UNCHANGED <<made, policy, maker, removed, vouched>>

\* Success disarms the guard of a key this call created.
validateKey(c) ==
    /\ pc[c] = "validate"
    /\ \/ /\ validateP256Key(handle[c])
          /\ Return(c, "Success")
          /\ vouched' = IF armed[c] THEN vouched \cup {handle[c]} ELSE vouched
       \/ Fail(c, "ValidationFailed") /\ UNCHANGED vouched
    /\ UNCHANGED store

\* NCryptDeleteKey may fail too: a finalized key then stays.
deleteCreatedKey(c) ==
    /\ pc[c] = "rollback"
    /\ Return(c, result[c])
    /\ \/ /\ stored = handle[c]
          /\ stored' = NoKey
          /\ removed' = [removed EXCEPT !.by = removed.by \cup {handle[c]}]
       \/ UNCHANGED <<stored, removed>>
    /\ UNCHANGED <<made, policy, maker, vouched>>

\* The process dies: its handle is gone, an unfinalized key with it.
Crash(c) ==
    /\ pc[c] # "idle"
    /\ Return(c, "None")
    /\ UNCHANGED <<store, vouched>>

\* Outside this program: the TPM is cleared, or other software persists a key
\* of this name with properties of its own.
Outside ==
    /\ \/ /\ stored # NoKey
          /\ stored' = NoKey
          /\ removed' = [removed EXCEPT !.outside = removed.outside \cup {stored}]
          /\ UNCHANGED <<made, policy, maker>>
       \/ /\ stored = NoKey
          /\ stored' = made + 1
          /\ \E properties \in SUBSET Requirement : NewKey(Earlier, properties)
          /\ UNCHANGED removed
    /\ UNCHANGED <<call, vouched>>

CallStep(c) ==
    \/ openKey(c)
    \/ createKey(c)
    \/ configureCreatedKey(c)
    \/ finalizeCreatedKey(c)
    \/ validateKey(c)
    \/ deleteCreatedKey(c)
    \/ Crash(c)

Next == Outside \/ \E c \in Caller : ensureKey(c) \/ CallStep(c)

Spec == Init /\ [][Next]_lifecycleVars

-----------------------------------------------------------------------------
\* The store names a key that was made, and each caller's handle and guard
\* match the step of ensureKeyLifecycle it is at: it works through a handle
\* exactly from create or open on, and configures, finalizes and rolls back
\* only a key it made itself.
LifecycleTypeOK ==
    /\ made \in 0..MaxKeys
    /\ stored \in {NoKey} \cup 1..made
    /\ policy \in [Key -> SUBSET Requirement]
    /\ maker \in [Key -> Caller \cup {Earlier}]
    /\ removed \in [by : SUBSET Key, outside : SUBSET Key]
    /\ pc \in [Caller -> PC]
    /\ handle \in [Caller -> {NoKey} \cup 1..made]
    /\ armed \in [Caller -> BOOLEAN]
    /\ result \in [Caller -> Result]
    /\ vouched \subseteq 1..made
    /\ \A c \in Caller :
          /\ handle[c] = NoKey <=> pc[c] \in {"idle", "open", "create", "reopen"}
          /\ pc[c] \in {"configure", "finalize", "rollback"} => armed[c]
          /\ armed[c] => handle[c] # NoKey /\ maker[handle[c]] = c

\* Whatever fails and whoever crashes at whatever step, a key this program
\* persisted satisfies the whole policy: what ensureKey leaves behind can be
\* adopted by the next call.
PersistedKeysConform ==
    stored # NoKey /\ maker[stored] \in Caller => validateP256Key(stored)

\* The rollback of a failed call never removes a key that the call did not
\* itself create, be it one that was there before, one of a concurrent caller
\* or one an earlier call of this caller finished.
RollbackOwnKeyOnly ==
    \A k \in removed.by : maker[k] \in Caller /\ k \notin vouched

\* A key that its maker's call reported stays the identity, through every
\* concurrent call, failure and crash, until something outside removes it.
ReportedKeyStays ==
    \A k \in vouched : k = stored \/ k \in removed.outside
=============================================================================
