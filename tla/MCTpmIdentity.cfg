CONSTANTS
    Caller = {client, obtainer}
    NoKey = NoKey
    Earlier = Earlier
    NoProof = NoProof
    MaxKeys = 2
SYMMETRY CallerSymmetry
SPECIFICATION UseSpec
INVARIANTS
    PersistedKeysConform
    ReportedKeyStays
    
