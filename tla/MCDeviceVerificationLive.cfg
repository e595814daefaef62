SPECIFICATION FairSpec
CONSTANTS
    k1 = k1
    k2 = k2
    TpmKey <- MCTpmKey
    Signal = {"none", "a", "b"}
    NoSignal = "none"
    Machine <- MCOneMachine
    Request = {r1, r2}
    Session = {s1, s2}
    License = {l1}
    DeviceId = {d1}
    NoSession = NoSession
    NoLicense = NoLicense
    NoDevice = NoDevice
    MaxDevices <- MCOneDevice
    LicenseExpiresAt <- MCExpiresAt
    ChallengeLifetime = 1
    VerifyTimeout = 0
    TokenLifetime = 2
    MaxTime = 1
PROPERTIES
    EveryRequestEnds
