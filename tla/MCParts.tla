------------------------------ MODULE MCParts ------------------------------
(***************************************************************************)
(* Parts for TLC, and beside them an algorithm of the client that has      *)
(* nothing but an input: the scan for repeated names in JSON.              *)
(***************************************************************************)
EXTENDS Parts, TLC

VARIABLES value, text, damage       \* JsonScan

-----------------------------------------------------------------------------
\* Machines that differ in the TPM key, in one heavy and in one light signal,
\* with identifiers that could not be collected among them.
Machines ==
    {[tpm |-> k, smbios |-> s, motherboard |-> b, bios |-> "none",
      systemDisk |-> x, machineGuid |-> "none"] :
        k \in TpmKey, s \in {"none", "u1"}, b \in {"none", "u1"}, x \in {"u1", "u2"}}

\* Signals that are missing or read "a", in two spellings; two disks whose
\* serials agree, differ or are missing, one or both in the system volume.
PlainTexts == {<<>>, <<"a">>}
SpelledTexts == {<<>>, <<"-", "A", " ">>}
Serials == {<<>>, <<"a">>, <<"B", " ">>}
Extents == {<<0>>, <<1, 0, 1>>}

\* Values nested one level below an object or array.
Json == INSTANCE JsonScan WITH MaxDepth <- 1, Nesting <- 1

\* Tables that begin with a record of one kind or another, and six bytes of any
\* of five values behind it: room for a second record or a second string.
Beginnings ==
    {<<>>, <<1, 4, 1, 2, 0, 0>>, <<2, 3, 1, 4, 0, 0>>, <<4, 2, 0, 0>>, <<3, 2, 0, 0>>,
     <<2, 3, 2, 1, 0>>}

Order == <<2, 1>>

KeySymmetry == Permutations(KeyId) \cup Permutations(PublicKey) \cup Permutations(Pin)

-----------------------------------------------------------------------------
jsonVars == <<value, text, damage>>

MCInit ==
    /\ part \in Part \cup {"json"}
    /\ PartBegins
    /\ Begins("json", Json!Init, value = Idle /\ text = Idle /\ damage = Idle)

MCNext ==
    \/ PartsNext /\ UNCHANGED jsonVars
    \/ part = "json" /\ (Json!Truncate \/ Json!Trail) /\ OthersRest

MCSpec == MCInit /\ [][MCNext]_<<partsVars, jsonVars>>

-----------------------------------------------------------------------------
\* The scan accepts a text exactly when no object names a member twice.
AcceptsUniqueOnly == part = "json" => Json!AcceptsUniqueOnly
=============================================================================
