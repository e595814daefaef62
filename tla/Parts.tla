-------------------------------- MODULE Parts --------------------------------
(***************************************************************************)
(* The parts that share no state with any other: the end of the server     *)
(* process, the device loop and the address of a client, the transport and *)
(* the tokens of the client, the readers of the hardware, the fingerprint  *)
(* made of it and the tool that shows it.  A behaviour runs one of them,   *)
(* `part`, while the variables of the others stay Idle (those of           *)
(* ServerLifecycle stay as they begin), so that the state space is the sum *)
(* of theirs.                                                              *)
(***************************************************************************)
EXTENDS ServerLifecycle, Integers, Sequences, FiniteSets

CONSTANTS
    TpmKey, Hmac, NoHmac, Presented, MaxRows,                   \* DeviceMatchLoop
    Client, Proxy, Blank, Garbled, MaxItems, MaxHops,           \* ClientIP
    Pin, OtherKey, BadPin, NoReply, Requests,                   \* SecureReply
    KeyId, BadKeyId, PublicKey, BadKey, NoSession, MaxDrift,    \* SessionToken
    MaxTime, kMaxClockSkewSeconds, kRequiredLifetimeSeconds,
    MaxDword, CountSize, HeaderSize, ExtentSize,                \* HardwareReads
    DescriptorSize, MaxDescriptor,
    Digits, SignatureBytes, MaxLength,                          \* CompactToken
    Character, FirstText, LaterText, Serial,                    \* Fingerprint
    MaxDisk, DiskLists,
    Byte, Beginning, MaxTail, RecordHeader, SerialAt,           \* SmbiosParser
    UuidAt, UuidOrder, Ones, EndOfTable,
    Thread, MaxReads,                                           \* BiosQuery
    NoValue, MaxCollections, MaxTests, MaxKey,                  \* HwidObtainer
    Idle

\* The bounds and lifetimes are numbers, and a stand-in for something missing or
\* unreadable is none of the values it stands beside.
ASSUME PartsAssumption ==
    /\ {MaxDrift, MaxTime, kMaxClockSkewSeconds, kRequiredLifetimeSeconds} \subseteq Nat
    /\ {MaxDword, HeaderSize, ExtentSize, DescriptorSize, MaxDescriptor} \subseteq Nat
    /\ {MaxItems, MaxHops, SignatureBytes, MaxLength} \subseteq Nat
    /\ Digits \subseteq 0..63
    /\ Blank \notin [address : Client \cup Proxy, mapped : BOOLEAN]
    /\ Garbled \notin Client \cup Proxy

\* The extents name disks there are, and no text of the hardware holds the
\* separator of the fingerprint.
ASSUME FingerprintAssumption ==
    /\ MaxDisk \in Nat /\ DiskLists \subseteq Seq(0..MaxDisk)
    /\ FirstText \cup LaterText \cup Serial \subseteq Seq(Character) /\ "|" \notin Character

\* Tables are made of bytes, and the header of a record holds at least its type
\* and its length.
ASSUME SmbiosAssumption ==
    /\ Byte \subseteq Nat /\ Beginning \subseteq Seq(Byte)
    /\ RecordHeader \in Nat /\ RecordHeader >= 2 /\ SerialAt \in Nat

VARIABLES
    part,
    devices, presented,                                             \* DeviceMatchLoop
    sender, peer, forwarded, realIP, hops,                          \* ClientIP
    config, reply, requestActive, answers, shown,                   \* SecureReply
    ring, signingKey, now, drift, token, session,                   \* SessionToken
    compact,                                                        \* CompactToken
    one, other,                                                     \* Fingerprint
    begun, table,                                                   \* SmbiosParser
    reader, at, buffer, filled, end,                                \* HardwareReads
    secured, apartment, stage, owned, failed, serial, reads,        \* BiosQuery
    started, collection, identity, has, button, status, saving,     \* HwidObtainer
    clipboard, file, key, tests, test

-----------------------------------------------------------------------------
Match == INSTANCE DeviceMatchLoop WITH
    Signal <- Hmac, NoSignal <- NoHmac, Machine <- Presented

Address == INSTANCE ClientIP WITH
    Address <- Client \cup Proxy, Trusted <- Proxy, Junk <- Garbled

Secure == INSTANCE SecureReply

Session == INSTANCE SessionToken

Compact == INSTANCE CompactToken WITH token <- compact

Machine == INSTANCE Fingerprint

Smbios == INSTANCE SmbiosParser WITH HeaderSize <- RecordHeader

Reads == INSTANCE HardwareReads WITH Limit <- MaxDword

Bios == INSTANCE BiosQuery WITH value <- serial

Obtainer == INSTANCE HwidObtainer WITH None <- NoValue

-----------------------------------------------------------------------------
Part == {"server", "match", "address", "secure", "session", "compact", "fingerprint",
         "smbios", "reads", "bios", "obtainer"}

Begins(p, init, idle) == IF part = p THEN init ELSE idle

PartBegins ==
    /\ Init
    /\ Begins("match", Match!Init, devices = Idle /\ presented = Idle)
    /\ Begins("address", Address!Init,
          sender = Idle /\ peer = Idle /\ forwarded = Idle /\ realIP = Idle /\ hops = Idle)
    /\ Begins("secure", Secure!Init,
          config = Idle /\ reply = Idle /\ requestActive = Idle /\ answers = Idle
          /\ shown = Idle)
    /\ Begins("session", Session!Init,
          ring = Idle /\ signingKey = Idle /\ now = Idle /\ drift = Idle /\ token = Idle
          /\ session = Idle)
    /\ Begins("compact", Compact!Init, compact = Idle)
    /\ Begins("fingerprint", Machine!Init, one = Idle /\ other = Idle)
    /\ Begins("smbios", Smbios!Init, begun = Idle /\ table = Idle)
    /\ Begins("reads", Reads!Init,
          reader = Idle /\ at = Idle /\ buffer = Idle /\ filled = Idle /\ end = Idle)
    /\ Begins("bios", Bios!Init,
          secured = Idle /\ apartment = Idle /\ stage = Idle /\ owned = Idle /\ failed = Idle
          /\ serial = Idle /\ reads = Idle)
    /\ Begins("obtainer", Obtainer!Init,
          started = Idle /\ collection = Idle /\ identity = Idle /\ has = Idle
          /\ button = Idle /\ status = Idle /\ saving = Idle /\ clipboard = Idle
          /\ file = Idle /\ key = Idle /\ tests = Idle /\ test = Idle)

PartsInit == part \in Part /\ PartBegins

\* The parts that do not run.
OthersRest ==
    /\ UNCHANGED part
    /\ part # "server" => UNCHANGED vars
    /\ part # "match" => UNCHANGED <<devices, presented>>
    /\ part # "address" => UNCHANGED <<sender, peer, forwarded, realIP, hops>>
    /\ part # "secure" => UNCHANGED <<config, reply, requestActive, answers, shown>>
    /\ part # "session" => UNCHANGED <<ring, signingKey, now, drift, token, session>>
    /\ part # "compact" => UNCHANGED compact
    /\ part # "fingerprint" => UNCHANGED <<one, other>>
    /\ part # "smbios" => UNCHANGED <<begun, table>>
    /\ part # "reads" => UNCHANGED <<reader, at, buffer, filled, end>>
    /\ part # "bios" =>
          UNCHANGED <<secured, apartment, stage, owned, failed, serial, reads>>
    /\ part # "obtainer" =>
          UNCHANGED <<started, collection, identity, has, button, status, saving,
                      clipboard, file, key, tests, test>>

PartsNext ==
    \/ part = "server" /\ Next /\ OthersRest
    \/ part = "match" /\ Match!Next /\ OthersRest
    \/ part = "address" /\ Address!Next /\ OthersRest
    \/ part = "secure" /\ Secure!Next /\ OthersRest
    \/ part = "session" /\ Session!Next /\ OthersRest
    \/ part = "compact" /\ Compact!Extend /\ OthersRest
    \/ part = "fingerprint" /\ Machine!Next /\ OthersRest
    \/ part = "smbios" /\ Smbios!Next /\ OthersRest
    \/ part = "reads" /\ Reads!Next /\ OthersRest
    \/ part = "bios" /\ Bios!Next /\ OthersRest
    \/ part = "obtainer" /\ Obtainer!Next /\ OthersRest

partsVars == <<part, vars, Match!vars, Address!vars, Secure!vars, Session!vars, compact,
               Machine!vars, Smbios!vars, Reads!vars, Bios!vars, Obtainer!vars>>

PartsSpec == PartsInit /\ [][PartsNext]_partsVars

-----------------------------------------------------------------------------
(* What each part promises, as stated in its module.                       *)

\* The loop of matchDevice decides what the definitions of DeviceMatch say.
LoopDecidesByDefinition == part = "match" => Match!LoopDecidesByDefinition

\* clientIP never returns an address a client invented, and finds the client
\* behind proxies that append to the chain.
CountedAsItself == part = "address" => Address!CountedAsItself

\* ApiClient sends credentials and proofs to a holder of a pinned key only.
SentOnlyToPinnedPeer == part = "secure" => Secure!SentOnlyToPinnedPeer

\* No reply that was redirected, failed the pin check, timed out or was
\* cancelled ends in a success.
MarkedReplyNeverSucceeds ==
    [][part = "secure" => Secure!UnmarkedSuccess]_<<part, answers, reply>>

\* What the login window shows of an error is worded by the client.
ScreenTextIsLocal == part = "secure" => Secure!ScreenTextIsLocal

\* No accepted session outlasts the lifetime and the skew on the client's clock.
SessionBounded == part = "session" => Session!SessionBounded

\* The verifier and the proof builder take the same texts for tokens.
TokensAgree == part = "compact" => Compact!TokensAgree

\* Fingerprints agree exactly when what was collected agrees.
SameFingerprintSameMachine == part = "fingerprint" => Machine!SameFingerprintSameMachine

\* SmbiosParser::parse finds what the table says, damaged anywhere.
ParsesTable == part = "smbios" => Smbios!ParsesTable

\* The size-then-data readers return only bytes that the last call wrote.
OnlyWrittenBytes == part = "reads" => Reads!OnlyWrittenBytes

\* Readings of the BIOS serial leave nothing behind and depend on no other.
ReadingsIndependent == part = "bios" => Bios!ReadingsIndependent

\* The status lines of the HWID obtainer say what happened.
StatusTruthful == part = "obtainer" => Obtainer!StatusTruthful
=============================================================================
