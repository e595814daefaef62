----------------------------- MODULE DeviceMatch -----------------------------
(***************************************************************************)
(* Scoring of a presented machine against the stored device rows of a      *)
(* license: domain.ScoreDevice and the decision service.matchDevice makes  *)
(* with it.  A signal is the HMAC of a normalised hardware identifier; the *)
(* TPM signal is the SHA-256 of the public key.  Only equality of signals  *)
(* matters, so both are elements of uninterpreted sets.                    *)
(*                                                                         *)
(* The decision is stated declaratively over a function from row           *)
(* identifiers to rows; DeviceMatchLoop holds the loop as it is coded.     *)
(***************************************************************************)
EXTENDS Integers, FiniteSets

CONSTANTS
    TpmKey,     \* SHA-256 digests of TPM public keys (never empty)
    Signal,     \* HMACs of the other identifiers, NoSignal among them
    NoSignal    \* the empty string: the identifier could not be collected

ASSUME SignalAssumption == NoSignal \in Signal /\ NoSignal \notin TpmKey

deviceMatchThreshold == 70

\* What /v1/device/verify derives from a request (protectedDeviceInput).
DeviceSignals ==
    [tpm : TpmKey, smbios : Signal, motherboard : Signal, bios : Signal,
     systemDisk : Signal, machineGuid : Signal]

signalMatches(stored, presented) ==
    stored # NoSignal /\ presented # NoSignal /\ stored = presented

Points(weight, stored, presented) ==
    IF signalMatches(stored, presented) THEN weight ELSE 0

\* Weights with which the non-TPM signals reach the threshold by themselves.
\* (mutant)
ScoreDeviceHeavyBoard(stored, presented) ==
    Points(50, stored.tpm, presented.tpm) +
    Points(50, stored.smbios, presented.smbios) +
    Points(20, stored.motherboard, presented.motherboard)

ScoreDevice(stored, presented) ==
    Points(50, stored.tpm, presented.tpm) +
    Points(20, stored.smbios, presented.smbios) +
    Points(15, stored.motherboard, presented.motherboard) +
    Points(5, stored.bios, presented.bios) +
    Points(5, stored.systemDisk, presented.systemDisk) +
    Points(5, stored.machineGuid, presented.machineGuid)

\* A device row has a status and signals.  A revoked row refuses the request
\* when its TPM key is presented again, or when the score says it is the same
\* machine.
Refuses(row, presented) ==
    /\ row.status = "revoked"
    /\ \/ row.signals.tpm = presented.tpm
       \/ ScoreDevice(row.signals, presented) >= deviceMatchThreshold

\* An active row the request may be bound to.
Eligible(row, presented) ==
    /\ row.status = "active"
    /\ ScoreDevice(row.signals, presented) >= deviceMatchThreshold

\* rows is a function from row identifiers to rows.
AnyRefuses(rows, presented) ==
    \E d \in DOMAIN rows : Refuses(rows[d], presented)

Candidates(rows, presented) ==
    {d \in DOMAIN rows : Eligible(rows[d], presented)}

BestMatches(rows, presented) ==
    {d \in Candidates(rows, presented) :
        \A e \in Candidates(rows, presented) :
            ScoreDevice(rows[e].signals, presented)
                <= ScoreDevice(rows[d].signals, presented)}

ActiveRows(rows) == {d \in DOMAIN rows : rows[d].status = "active"}
=============================================================================
