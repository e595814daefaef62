----------------------------- MODULE Fingerprint -----------------------------
(***************************************************************************)
(* From collected signals to the fingerprint: normalizeHardwareValue,      *)
(* DiskReader::serialSignal, HardwareCollector::collect and                *)
(* Fingerprint::generate, on pairs of machines.  A text is a sequence of   *)
(* characters; SHA-256 is external and taken as injective, so that         *)
(* fingerprints are compared by what is hashed.                            *)
(***************************************************************************)
EXTENDS Naturals, Sequences, FiniteSets

CONSTANTS
    FirstText,  \* texts a signal may have
    LaterText,  \* texts it may have in another spelling
    Serial,     \* texts the serial of a disk may have
    MaxDisk,    \* the greatest disk number
    DiskLists   \* disk numbers of the system volume's extents, as reported

VARIABLES one, other
vars == <<one, other>>

Members(list) == {list[i] : i \in DOMAIN list}

\* The list without some of its items.
Without(list, unwanted) ==
    LET kept[i \in 0..Len(list)] ==
            IF i = 0 THEN <<>>
            ELSE IF list[i] \in unwanted THEN kept[i - 1]
            ELSE Append(kept[i - 1], list[i])
    IN  kept[Len(list)]

\* Of the letters a and b have a lower case, and white space is the blank.
Upper(c) == CASE c = "a" -> "A" [] c = "b" -> "B" [] OTHER -> c

Removed == {" ", "-", "{", "}"}

\* trimmed, toUpper, and the removal of blanks, dashes and braces.
normalizeHardwareValue(value) ==
    Without([i \in DOMAIN value |-> Upper(value[i])], Removed)

\* The numbers of a set, each once and in order: sort and unique.
Ordered(S) ==
    CHOOSE list \in [1..Cardinality(S) -> S] :
        /\ Members(list) = S
        /\ \A i, j \in DOMAIN list : i < j => list[i] < list[j]

\* QStringList::join.
Join(texts) ==
    LET joined[i \in 0..Len(texts)] ==
            IF i = 0 THEN <<>>
            ELSE IF i = 1 THEN texts[1]
            ELSE joined[i - 1] \o <<"|">> \o texts[i]
    IN  joined[Len(texts)]

\* The serials of the disks that have one, joined.
serialSignal(numbers, serial) ==
    LET disks == Ordered(Members(numbers))
        serials == [i \in DOMAIN disks |-> normalizeHardwareValue(serial[disks[i]])]
    IN  Join(Without(serials, {<<>>}))

\* A machine: the serials of its disks, how the extents of its system volume name
\* them, and the other signals; a signal that cannot be read is empty.
Machine(Value) ==
    [uuid : Value, board : Value, bios : Value, guid : Value, tpm : Value,
     disk : [0..MaxDisk -> Serial], extents : DiskLists]

\* HardwareCollector::collect.
collect(machine) ==
    [smbiosUuid |-> machine.uuid, motherboardSerial |-> machine.board,
     biosSerial |-> machine.bios,
     systemDiskSerial |-> serialSignal(machine.extents, machine.disk),
     machineGuid |-> machine.guid, tpmPublicKeyHash |-> machine.tpm]

\* Mutant: nothing between the signals.
appendBare(value) == normalizeHardwareValue(value)

append(value) == normalizeHardwareValue(value) \o <<"|">>

generate(identity) ==
    append(identity.smbiosUuid) \o append(identity.motherboardSerial)
    \o append(identity.biosSerial) \o append(identity.systemDiskSerial)
    \o append(identity.machineGuid) \o append(identity.tpmPublicKeyHash)

-----------------------------------------------------------------------------
Init == one \in Machine(FirstText) /\ other = one

\* Any other machine, or the same one as a later collection may see it.
Next == other = one /\ other' \in Machine(LaterText) /\ UNCHANGED one

Spec == Init /\ [][Next]_vars

Said(value) == normalizeHardwareValue(value)

\* The disks of the volume whose serial can be read.
Readable(m) == {d \in Members(m.extents) : Said(m.disk[d]) # <<>>}

Signals(m) == <<Said(m.uuid), Said(m.board), Said(m.bios), Said(m.guid), Said(m.tpm)>>
DiskSerials(m) ==
    LET disks == Ordered(Readable(m)) IN [i \in DOMAIN disks |-> Said(m.disk[disks[i]])]

\* Two collections give the same fingerprint exactly when they agree in every
\* signal and on the serials of the disks that could be read: letter case,
\* blanks, dashes and braces, and the order and repetition of the extents change
\* nothing, and no value slides from one signal into the next.  (Values hold no
\* "|", which normalisation keeps.)
SameFingerprintSameMachine ==
    generate(collect(one)) = generate(collect(other)) <=>
        Signals(one) = Signals(other) /\ DiskSerials(one) = DiskSerials(other)
=============================================================================
