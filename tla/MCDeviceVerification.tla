------------------------ MODULE MCDeviceVerification ------------------------
(* Two machines with their own TPM keys, the second one after its SMBIOS    *)
(* UUID and motherboard changed (same key, score below the threshold), and *)
(* a third key behind the first machine's board.                           *)
EXTENDS DeviceVerification, TLC

CONSTANTS k1, k2

Hardware(k, board) ==
    [tpm |-> k, smbios |-> board, motherboard |-> board, bios |-> "none",
     systemDisk |-> "none", machineGuid |-> "none"]

MCMachine == {Hardware(k1, "a"), Hardware(k2, "b"), Hardware(k2, "a")}
MCOneMachine == {Hardware(k1, "a")}
MCTpmKey == {k1, k2}
MCOneDevice == [l \in License |-> 1]
MCExpiresAt == [l \in License |-> 2]

Symmetry == Permutations(Request) \cup Permutations(Session)
            \cup Permutations(DeviceId)
=============================================================================
