SPECIFICATION Spec
CONSTANTS
    t1 = t1
    t2 = t2
    p1 = p1
    p2 = p2
    Request = {r1, r2, r3}
    Token <- MCToken
    Proof <- MCProof
    NoToken = NoToken
    NoProof = NoProof
    NoProfile = NoProfile
    IssuedAt <- MCIssuedAt
    TokenLifetime = 2
    BoundTo <- MCBoundTo
    ProofIat <- MCProofIat
    ClockSkew = 1
    DbAhead = 0
    CleanupFirst = {FALSE}
    LicenseExpiresAt = 3
    MaxTime = 3
SYMMETRY Symmetry
INVARIANT
    AdmittedOnce
CHECK_DEADLOCK FALSE
