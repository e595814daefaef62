---------------------------- MODULE SessionToken ----------------------------
(***************************************************************************)
(* The client's acceptance of a session token (SessionTokenVerifier), with *)
(* the key ring built into the client, the server's signing key and the    *)
(* two clocks.  The text of a token is CompactToken's and JsonScan's       *)
(* subject; here a token is what was parsed from it.                       *)
(***************************************************************************)
EXTENDS Integers, Sequences

CONSTANTS
    KeyId, BadKeyId,        \* key ids, and one with a character not allowed
    PublicKey, BadKey,      \* keys, and one whose encoding does not decode
    kMaxClockSkewSeconds,
    kRequiredLifetimeSeconds,
    MaxDrift,               \* how far the client's clock may be off
    MaxTime,                \* bound on the server's clock
    NoSession

VARIABLES
    ring,           \* the entries of STARLOADER_ED25519_KEY_RING
    signingKey,     \* the server's key id and key
    now, drift,     \* the server's clock; the client's is now + drift
    token,          \* a token on its way to the client
    session         \* expiresAt of the session the client accepted, and when

vars == <<ring, signingKey, now, drift, token, session>>

Entry == [kid : KeyId \cup {BadKeyId}, key : PublicKey \cup {BadKey}]
clientNow == now + drift

validKeyId(kid) == kid # BadKeyId
decodeCanonicalStandardBase64Key(key) == key # BadKey

\* fromConfiguredKeyRing: all the entries, or none of them.
keys ==
    IF /\ \A i \in DOMAIN ring : validKeyId(ring[i].kid)
                                 /\ decodeCanonicalStandardBase64Key(ring[i].key)
       /\ \A i, j \in DOMAIN ring : i # j => ring[i].kid # ring[j].kid
    THEN {ring[i] : i \in DOMAIN ring}
    ELSE {}

isConfigured == keys # {}

verifySignature(t) == \E k \in keys : k.kid = t.kid /\ k.key = t.signer

\* Mutant: the issue time is not looked at.
claimsAnyAge(t, at) ==
    /\ t.matches
    /\ t.nbf <= at + kMaxClockSkewSeconds /\ t.exp > at
    /\ t.exp - t.iat = kRequiredLifetimeSeconds /\ t.nbf <= t.exp

\* The claim policy; matches says that every name in the token is the one
\* expected (issuer, audience, application, product, license and device).
claimPolicyAccepted(t, at) ==
    /\ t.matches
    /\ t.iat <= at + kMaxClockSkewSeconds
    /\ t.nbf <= at + kMaxClockSkewSeconds /\ t.exp > at
    /\ t.exp > t.iat /\ t.exp - t.iat = kRequiredLifetimeSeconds
    /\ t.nbf <= t.exp

\* verify() of a token that parsed, at the client's time.
verify(t, at) == isConfigured /\ verifySignature(t) /\ claimPolicyAccepted(t, at)

-----------------------------------------------------------------------------
Init ==
    /\ ring \in UNION {[1..n -> Entry] : n \in 0..2}
    /\ signingKey \in [kid : KeyId, key : PublicKey]
    /\ now = 0
    /\ drift \in -MaxDrift..MaxDrift
    /\ token = NoSession
    /\ session = NoSession

Tick ==
    /\ now < MaxTime
    /\ now' = now + 1
    /\ UNCHANGED <<ring, signingKey, drift, token, session>>

\* The operator gives the server another key under another name.
Rotate ==
    /\ \E k \in [kid : KeyId, key : PublicKey] :
          k.kid # signingKey.kid /\ k.key # signingKey.key /\ signingKey' = k
    /\ UNCHANGED <<ring, now, drift, token, session>>

\* TokenIssuer.Issue: a token for this client, valid from now on.
Issue ==
    /\ token = NoSession
    /\ token' = [kid |-> signingKey.kid, signer |-> signingKey.key, iat |-> now,
                 nbf |-> now, exp |-> now + kRequiredLifetimeSeconds,
                 matches |-> TRUE, honest |-> TRUE]
    /\ UNCHANGED <<ring, signingKey, now, drift, session>>

\* Any other token that reaches the client: of another product or device, with
\* other times, or under a key id with a key that is not its own.
Misdeliver ==
    /\ token = NoSession
    /\ \E kid \in KeyId, signer \in PublicKey, matches \in BOOLEAN,
          iat, nbf \in {0, now, now + MaxDrift + 1},
          life \in {kRequiredLifetimeSeconds, kRequiredLifetimeSeconds + 1} :
          token' = [kid |-> kid, signer |-> signer, iat |-> iat, nbf |-> nbf,
                    exp |-> iat + life, matches |-> matches, honest |-> FALSE]
    /\ UNCHANGED <<ring, signingKey, now, drift, session>>

Receive ==
    /\ token # NoSession
    /\ token' = NoSession
    /\ session' = IF verify(token, clientNow)
                  THEN [exp |-> token.exp, at |-> clientNow]
                  ELSE NoSession
    /\ UNCHANGED <<ring, signingKey, now, drift>>

Next == Tick \/ Rotate \/ Issue \/ Misdeliver \/ Receive

Spec == Init /\ [][Next]_vars

-----------------------------------------------------------------------------
\* However far the two clocks are apart, and whatever times a token claims, no
\* accepted session lasts longer than the lifetime and the skew on the clock
\* that will end it, and none has ended already.
SessionBounded ==
    session # NoSession =>
        /\ session.exp > session.at
        /\ session.exp <= session.at + kRequiredLifetimeSeconds + kMaxClockSkewSeconds
=============================================================================
