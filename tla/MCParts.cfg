SPECIFICATION MCSpec
CONSTANTS
    Request = {r1, r2, r3}
    TpmKey = {k1, k2, k3}
    Hmac = {"none", "u1", "u2"}
    NoHmac = "none"
    Presented <- Machines
    MaxRows = 3
    Client = {c1, c2}
    Proxy = {p1, p2}
    Blank = Blank
    Garbled = Garbled
    MaxItems = 2
    MaxHops = 2
    Pin = {current, backup}
    OtherKey = OtherKey
    BadPin = BadPin
    NoReply = NoReply
    Requests = 2
    KeyId = {i1, i2}
    BadKeyId = BadKeyId
    PublicKey = {q1, q2}
    BadKey = BadKey
    NoSession = NoSession
    MaxDrift = 2
    MaxTime = 3
    kMaxClockSkewSeconds = 1
    kRequiredLifetimeSeconds = 3
    Digits = {0, 4}
    SignatureBytes = 1
    MaxLength = 9
    Character = {"a", "A", "B", "-", " "}
    FirstText <- PlainTexts
    LaterText <- SpelledTexts
    Serial <- Serials
    MaxDisk = 1
    DiskLists <- Extents
    Byte = {0, 1, 2, 3, 4}
    Beginning <- Beginnings
    MaxTail = 6
    RecordHeader = 2
    SerialAt = 2
    UuidAt = 2
    UuidOrder <- Order
    Ones = 3
    EndOfTable = 4
    MaxDword = 12
    CountSize = 1
    HeaderSize = 2
    ExtentSize = 2
    DescriptorSize = 4
    MaxDescriptor = 10
    Thread = {t1, t2}
    MaxReads = 2
    NoValue = NoValue
    MaxCollections = 3
    MaxTests = 2
    MaxKey = 3
    Idle = Idle
SYMMETRY KeySymmetry
INVARIANTS
    
    LoopDecidesByDefinition
    
    
    
    TokensAgree
    AcceptsUniqueOnly
    SessionBounded
    ParsesTable
    
    ReadingsIndependent
    
    StatusTruthful
PROPERTIES
    MarkedReplyNeverSucceeds
CHECK_DEADLOCK FALSE
