---------------------------- MODULE HardwareReads ----------------------------
(***************************************************************************)
(* The readers that ask Windows for a size and then for the data: disk     *)
(* extents and the storage descriptor (DiskReader), MachineGuid            *)
(* (RegistryReader), the firmware table (SmbiosReader) and the TPM public  *)
(* key (TpmIdentity).                                                      *)
(*                                                                         *)
(* The machine may change between the two calls and a driver's numbers     *)
(* are not trusted: each call is answered with any numbers in 0..Limit     *)
(* (external).  A read is modelled by what the code then takes from the    *)
(* buffer: the bytes up to `end`.  Sizes are scaled down: a DWORD holds    *)
(* 0..Limit, each of the three headers (extents, descriptor, firmware)     *)
(* takes HeaderSize and an extent ExtentSize; a wide character keeps its   *)
(* two bytes.                                                              *)
(***************************************************************************)
EXTENDS Integers

CONSTANTS
    Limit,              \* largest DWORD
    CountSize,          \* the count of extents, at the start of the header
    HeaderSize, ExtentSize,
    DescriptorSize,     \* sizeof(STORAGE_DEVICE_DESCRIPTOR)
    MaxDescriptor       \* the megabyte diskSerial accepts at most

VARIABLES
    reader,
    at,         \* "size" and "data", the calls, then "done"
    buffer,     \* bytes allocated
    filled,     \* bytes the last call wrote into the buffer
    end         \* the result: bytes taken from the buffer, 0 for none

vars == <<reader, at, buffer, filled, end>>

Dword == 0..Limit
Reader == {"extents", "descriptor", "registry", "firmware", "publicKey"}
Lower(a, b) == IF a < b THEN a ELSE b

\* What a call answers: its verdict, the byte count it reports, and a number
\* inside the data (extents, descriptor size, table length, offset).
Answer == [ok : {"ok", "more", "error"}, bytes : Dword, number : Dword]

Init ==
    /\ reader \in Reader
    /\ at = "size"
    /\ buffer = 0 /\ filled = 0 /\ end = 0

Empty == at' = "done" /\ end' = 0

-----------------------------------------------------------------------------
(* DiskReader: systemDiskNumbers.                                          *)

\* 0 stands for nullopt.
checkedExtentBufferSize(count) ==
    IF count = 0 \/ count > (Limit - HeaderSize) \div ExtentSize
    THEN 0 ELSE HeaderSize + count * ExtentSize

\* Where the loop over the extents ends in the buffer.
ExtentsEnd(count) == HeaderSize + count * ExtentSize

\* The check both paths end in.
Extents(a, size) ==
    LET required == checkedExtentBufferSize(a.number) IN
    IF required = 0 \/ required > size \/ a.bytes < required
    THEN Empty ELSE at' = "done" /\ end' = ExtentsEnd(a.number)

ExtentsFirst(a) ==
    LET size == HeaderSize + ExtentSize
        required == checkedExtentBufferSize(a.number) IN
    IF a.ok = "ok"
    THEN buffer' = size /\ (IF required = 0 \/ a.bytes < required
                            THEN Empty ELSE Extents(a, size))
    ELSE IF a.ok = "error" \/ a.bytes < CountSize \/ required <= size
    THEN buffer' = size /\ Empty
    ELSE buffer' = required /\ at' = "data" /\ UNCHANGED end

ExtentsSecond(a) == IF a.ok # "ok" THEN Empty ELSE Extents(a, buffer)

-----------------------------------------------------------------------------
(* DiskReader: diskSerial.                                                 *)

DescriptorFirst(a) ==
    IF a.ok # "ok" \/ a.bytes < HeaderSize \/ a.number \notin DescriptorSize..MaxDescriptor
    THEN buffer' = 0 /\ Empty
    ELSE buffer' = a.number /\ at' = "data" /\ UNCHANGED end

usableSize(a) == Lower(a.bytes, buffer)

\* The serial runs from its offset to the first NUL within the usable bytes;
\* the NUL may be at any of them or at none.
DescriptorSecond(a) ==
    IF a.ok # "ok" \/ a.bytes < DescriptorSize
          \/ a.number = 0 \/ a.number >= usableSize(a)
    THEN Empty
    ELSE \/ \E nul \in a.number..(usableSize(a) - 1) : at' = "done" /\ end' = nul + 1
         \/ Empty

-----------------------------------------------------------------------------
(* RegistryReader: machineGuid.  `number` is the value's type, 1 for a     *)
(* string; the buffer has one zeroed character more than the value needs.  *)

RegistryBuffer(bytes) == 2 * (bytes \div 2 + 1)

RegistryFirst(a) ==
    IF a.ok # "ok" \/ a.number # 1 \/ a.bytes = 0
    THEN buffer' = 0 /\ Empty
    ELSE buffer' = RegistryBuffer(a.bytes) /\ at' = "data" /\ UNCHANGED end

\* The text is taken up to its first zero character, which may be the one
\* behind what was written.
RegistrySecond(a) ==
    IF a.ok # "ok"
    THEN Empty
    ELSE \E chars \in 1..(a.bytes \div 2 + 1) : at' = "done" /\ end' = 2 * chars

-----------------------------------------------------------------------------
(* SmbiosReader: read.  The header of the table takes HeaderSize.          *)

FirmwareFirst(a) ==
    IF a.bytes < HeaderSize
    THEN buffer' = 0 /\ Empty
    ELSE buffer' = a.bytes /\ at' = "data" /\ UNCHANGED end

\* Mutant: only the buffer, not what was written, bounds the table.
TableFitsBuffer(a) == a.number <= buffer - HeaderSize

TableFits(a) == a.number <= a.bytes - HeaderSize

FirmwareSecond(a) ==
    IF a.bytes < HeaderSize \/ a.bytes > buffer \/ ~TableFits(a)
    THEN Empty ELSE at' = "done" /\ end' = HeaderSize + a.number

-----------------------------------------------------------------------------
(* TpmIdentity: exportPublicKey.                                           *)

PublicKeyFirst(a) ==
    IF a.ok # "ok" \/ a.bytes = 0
    THEN buffer' = 0 /\ Empty
    ELSE buffer' = a.bytes /\ at' = "data" /\ UNCHANGED end

PublicKeySecond(a) == IF a.ok # "ok" THEN Empty ELSE at' = "done" /\ end' = a.bytes

-----------------------------------------------------------------------------
\* External.  The registry and the key store write and report no more than the
\* size they were told (for the registry the size it reported first, a whole
\* number of characters); an IOCTL's and the firmware's numbers may be anything.
Honoured(a) ==
    /\ reader = "registry" => a.bytes % 2 = 0
    /\ at = "data" /\ a.ok = "ok" =>
          CASE reader = "registry" -> RegistryBuffer(a.bytes) <= buffer
            [] reader = "publicKey" -> a.bytes <= buffer
            [] OTHER -> TRUE

First(a) ==
    /\ at = "size"
    /\ Honoured(a)
    /\ \/ reader = "extents" /\ ExtentsFirst(a)
       \/ reader = "descriptor" /\ DescriptorFirst(a)
       \/ reader = "registry" /\ RegistryFirst(a)
       \/ reader = "firmware" /\ FirmwareFirst(a)
       \/ reader = "publicKey" /\ PublicKeyFirst(a)
    /\ filled' = Lower(a.bytes, buffer')
    /\ UNCHANGED reader

Second(a) ==
    /\ at = "data"
    /\ Honoured(a)
    /\ \/ reader = "extents" /\ ExtentsSecond(a)
       \/ reader = "descriptor" /\ DescriptorSecond(a)
       \/ reader = "registry" /\ RegistrySecond(a)
       \/ reader = "firmware" /\ FirmwareSecond(a)
       \/ reader = "publicKey" /\ PublicKeySecond(a)
    /\ filled' = Lower(a.bytes, buffer)
    /\ UNCHANGED <<reader, buffer>>

Next == \E a \in Answer : First(a) \/ Second(a)

Spec == Init /\ [][Next]_vars

-----------------------------------------------------------------------------
\* Whatever the two calls answer and however the machine changed between them,
\* no reader takes a byte from behind its buffer, and what DiskReader,
\* SmbiosReader and TpmIdentity return was written by the last call: no byte of
\* an earlier, larger answer and none of the zeroes the buffer began with.
OnlyWrittenBytes ==
    at = "done" => end <= IF reader = "registry" THEN buffer ELSE filled
=============================================================================
