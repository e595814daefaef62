---------------------------- MODULE CompactToken ----------------------------
(***************************************************************************)
(* The two readers of a compact token.  SessionTokenVerifier splits the    *)
(* text and decodes each segment, asking that encoding it again gives the  *)
(* segment back; DeviceProofBuilder later looks at the characters of the   *)
(* same text without decoding.  A token only one of them takes would sign  *)
(* the user in and then fail every protected request.                      *)
(*                                                                         *)
(* A character is the value of a base64url digit (0..63), Dot or Junk.     *)
(***************************************************************************)
EXTENDS Integers, Sequences

CONSTANTS
    Digits,             \* the base64url digits that occur
    SignatureBytes,     \* 64 in the code
    MaxLength           \* bound on the text

VARIABLE token

Dot == 64
Junk == 65      \* any character that is neither a digit nor a dot

-----------------------------------------------------------------------------
(* DeviceProof.cpp                                                         *)

base64UrlValue(character) == IF character \in 0..63 THEN character ELSE -1

canonicalBase64UrlSegment(segment) ==
    /\ segment # <<>> /\ Len(segment) % 4 # 1
    /\ \A i \in DOMAIN segment : base64UrlValue(segment[i]) >= 0
    /\ Len(segment) % 4 = 2 => base64UrlValue(segment[Len(segment)]) % 16 = 0
    /\ Len(segment) % 4 = 3 => base64UrlValue(segment[Len(segment)]) % 4 = 0

Dots(text) == {i \in DOMAIN text : text[i] = Dot}
SignatureLength == (8 * SignatureBytes + 5) \div 6

\* Mutant: an empty payload passes the dot arithmetic and is not looked at.
validCompactIgnoringPayload(text) ==
    \E first, second \in Dots(text) :
        /\ Dots(text) = {first, second} /\ first < second
        /\ Len(text) - second = SignatureLength
        /\ canonicalBase64UrlSegment(SubSeq(text, 1, first - 1))
        /\ canonicalBase64UrlSegment(SubSeq(text, second + 1, Len(text)))

validCompactAccessToken(text) ==
    \E first, second \in Dots(text) :
        /\ Dots(text) = {first, second}
        /\ first > 1 /\ second > first + 1 /\ second < Len(text)
        /\ Len(text) - second = SignatureLength
        /\ canonicalBase64UrlSegment(SubSeq(text, 1, first - 1))
        /\ canonicalBase64UrlSegment(SubSeq(text, first + 1, second - 1))
        /\ canonicalBase64UrlSegment(SubSeq(text, second + 1, Len(text)))

-----------------------------------------------------------------------------
(* SessionTokenVerifier.cpp; bytes are sequences of bits.                  *)

\* QByteArray::fromBase64 skips what is not a digit and drops the bits that do
\* not fill a byte.
DigitsOf(encoded) ==
    LET kept[i \in 0..Len(encoded)] ==
            IF i = 0 THEN <<>>
            ELSE IF base64UrlValue(encoded[i]) >= 0 THEN Append(kept[i - 1], encoded[i])
            ELSE kept[i - 1]
    IN  kept[Len(encoded)]

fromBase64(encoded) ==
    LET digits == DigitsOf(encoded)
        bit(b) == (digits[(b \div 6) + 1] \div 2^(5 - (b % 6))) % 2
    IN  [b \in 1..(8 * ((6 * Len(digits)) \div 8)) |-> bit(b - 1)]

toBase64(bits) ==
    LET bit(b) == IF b <= Len(bits) THEN bits[b] ELSE 0
    IN  [i \in 1..((Len(bits) + 5) \div 6) |->
            32 * bit(6 * i - 5) + 16 * bit(6 * i - 4) + 8 * bit(6 * i - 3)
            + 4 * bit(6 * i - 2) + 2 * bit(6 * i - 1) + bit(6 * i)]

decodeCanonicalBase64Url(encoded) ==
    /\ encoded # <<>>
    /\ fromBase64(encoded) # <<>>
    /\ toBase64(fromBase64(encoded)) = encoded

\* verify() as far as the shape of the text: three parts, all canonical, and a
\* signature of the right size.
VerifierTakes(text) ==
    \E first, second \in Dots(text) :
        /\ Dots(text) = {first, second} /\ first < second
        /\ decodeCanonicalBase64Url(SubSeq(text, 1, first - 1))
        /\ decodeCanonicalBase64Url(SubSeq(text, first + 1, second - 1))
        /\ decodeCanonicalBase64Url(SubSeq(text, second + 1, Len(text)))
        /\ Len(fromBase64(SubSeq(text, second + 1, Len(text)))) = 8 * SignatureBytes

-----------------------------------------------------------------------------
Init == token = <<>>

Extend ==
    /\ Len(token) < MaxLength
    /\ \E character \in Digits \cup {Dot, Junk} : token' = Append(token, character)

Spec == Init /\ [][Extend]_token

-----------------------------------------------------------------------------
\* What the verifier takes as a token the proof builder takes too, and nothing
\* else.
TokensAgree == validCompactAccessToken(token) <=> VerifierTakes(token)
=============================================================================
