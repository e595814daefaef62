SPECIFICATION Spec
CONSTANTS
    k1 = k1
    k2 = k2
    TpmKey <- MCTpmKey
    Signal = {"none", "a", "b"}
    NoSignal = "none"
    Machine <- MCMachine
    Request = {r1, r2}
    Session = {s1, s2}
    License = {l1}
    DeviceId = {d1, d2}
    NoSession = NoSession
    NoLicense = NoLicense
    NoDevice = NoDevice
    MaxDevices <- MCOneDevice
    LicenseExpiresAt <- MCExpiresAt
    ChallengeLifetime = 1
    VerifyTimeout = 1
    TokenLifetime = 2
    MaxTime = 2
SYMMETRY Symmetry
INVARIANTS
    DeviceLimit
    OneTokenPerSession
    TokenBoundToDeviceKey
PROPERTIES
    VerifiedOnlyWhileLive
    LateCommitBounded
    ImplementsActivation
