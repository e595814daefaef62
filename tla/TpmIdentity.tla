----------------------------- MODULE TpmIdentity -----------------------------
(***************************************************************************)
(* The users of the TPM key, composed with its life cycle: the challenge   *)
(* signature of a login and the DPoP proof of a protected request.         *)
(*                                                                         *)
(* Both are made of several calls into TpmIdentity, each of which opens    *)
(* the key anew by its name, so the key may be another one at every step.  *)
(* A call holds one handle from its open to its end: it is one step here.  *)
(***************************************************************************)
EXTENDS TpmKeyLifecycle

CONSTANT NoProof

VARIABLE use        \* per caller: what its login and proof have read so far

vars == <<lifecycleVars, use>>

NoUse == [step |-> "idle", first |-> NoKey, blob |-> NoKey, token |-> NoKey,
          proof |-> NoProof]

\* What publicKeyBlob can return: nothing, or the key persisted now.
publicKeyBlob == {NoKey} \cup {k \in {stored} \ {NoKey} : validateP256Key(k)}

\* signChallenge opens and validates the key for itself.
signChallenge == {NoKey} \cup {k \in {stored} \ {NoKey} : validateP256Key(k)}

Free(c) == pc[c] = "idle" /\ use[c].step = "idle"
At(c, step) == use[c].step = step
Set(c, u) == use' = [use EXCEPT ![c] = u]
Quit(c) == Set(c, [use[c] EXCEPT !.step = "idle", !.first = NoKey, !.blob = NoKey])

\* A new login starts from nothing, so a failed one leaves no token.
\* TpmDeviceSigner::sign after a collection that ensured the key: first the
\* public key ...
LoginBlob(c) ==
    /\ Free(c) /\ result[c] = "Success"
    /\ \E k \in publicKeyBlob :
          IF k = NoKey THEN Set(c, NoUse)
          ELSE Set(c, [NoUse EXCEPT !.step = "loginSign", !.blob = k])

\* ... then the signature.  The server binds the token it issues to the
\* public key it was sent, if the signature verifies with that key.
LoginSign(c) ==
    /\ At(c, "loginSign")
    /\ \E k \in signChallenge :
          IF k = use[c].blob
          THEN Set(c, [NoUse EXCEPT !.token = k])
          ELSE Set(c, NoUse)

\* DeviceProofBuilder::build up to the signature: the token's thumbprint must
\* be the one of the public key.
Build(c) ==
    /\ Free(c) /\ use[c].token # NoKey
    /\ \E k \in publicKeyBlob :
          IF k = use[c].token
          THEN Set(c, [use[c] EXCEPT !.step = "buildBlob", !.first = k, !.proof = NoProof])
          ELSE Quit(c)

\* TpmProofSigner::sign: the public key again ...
BuildBlob(c) ==
    /\ At(c, "buildBlob")
    /\ \E k \in publicKeyBlob :
          IF k = NoKey THEN Quit(c)
          ELSE Set(c, [use[c] EXCEPT !.step = "buildSign", !.blob = k])

\* ... and the signature.  The proof carries the first public key.
BuildSign(c) ==
    /\ At(c, "buildSign")
    /\ \E k \in signChallenge :
          IF k # NoKey /\ use[c].blob = use[c].first
          THEN Set(c, [use[c] EXCEPT !.step = "idle", !.first = NoKey, !.blob = NoKey,
                          !.proof = [jwk |-> use[c].first, signer |-> k]])
          ELSE Quit(c)

UseKey(c) ==
    /\ LoginBlob(c) \/ LoginSign(c) \/ Build(c) \/ BuildBlob(c) \/ BuildSign(c)
    /\ UNCHANGED lifecycleVars

UseInit == Init /\ use = [c \in Caller |-> NoUse]

UseNext ==
    \/ Outside /\ UNCHANGED use
    \/ \E c \in Caller :
          \/ At(c, "idle") /\ ensureKey(c) /\ UNCHANGED use
          \/ CallStep(c) /\ UNCHANGED use
          \/ UseKey(c)

UseSpec == UseInit /\ [][UseNext]_vars

-----------------------------------------------------------------------------
\* Validation is repeated at every open, so no key that became current after
\* ensureKey validated another one (the TPM was cleared, other software made a
\* key of this name) is sent to the server, bound to a token or signed with.
UsedKeysConform ==
    \A c \in Caller :
        /\ \A k \in {use[c].first, use[c].blob, use[c].token} \ {NoKey} :
              validateP256Key(k)
        /\ use[c].proof # NoProof => validateP256Key(use[c].proof.signer)

\* A proof carries the key its token is bound to, even when the key was
\* replaced since the login.
ProofBoundToToken ==
    \A c \in Caller :
        use[c].proof # NoProof /\ At(c, "idle") => use[c].proof.jwk = use[c].token

\* The public key and the signature come from two opens.  They can disagree,
\* but only in a proof of a key that has been removed for good, which no retry
\* could have used either.
MismatchedProofIsDead ==
    \A c \in Caller : use[c].proof # NoProof =>
        \/ use[c].proof.signer = use[c].proof.jwk
        \/ use[c].proof.jwk \in removed.by \cup removed.outside
=============================================================================
