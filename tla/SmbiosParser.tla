---------------------------- MODULE SmbiosParser ----------------------------
(***************************************************************************)
(* SmbiosParser::parse on bounded byte tables, well formed or not, against *)
(* a definition of what the table says: a chain of records, each a formatted *)
(* area followed by a string set that two zero bytes end; the last system  *)
(* record (type 1) gives the UUID and the last baseboard record (type 2)   *)
(* the serial.                                                             *)
(*                                                                         *)
(* The layout is scaled down by constants (the code's values in brackets)  *)
(* so that whole tables fit the bound.  Trimming is left to the            *)
(* normalisation every value goes through (Fingerprint).                   *)
(***************************************************************************)
EXTENDS Integers, Sequences, FiniteSets

CONSTANTS
    Byte,           \* byte values that occur, 0 among them
    Beginning,      \* how the tables begin
    MaxTail,        \* bound on the bytes that follow
    HeaderSize,     \* smallest formatted area [4]
    SerialAt,       \* offset of the serial's string number [7]
    UuidAt,         \* offset of the UUID [8]
    UuidOrder,      \* which byte comes where in the UUID [3,2,1,0,5,4,7,6,8..15]
    Ones,           \* a byte with all bits set [255]
    EndOfTable      \* the record type that ends the table [127]

VARIABLES begun, table
vars == <<begun, table>>

Size(t) == Len(t)
byteAt(t, offset) == t[offset + 1]
Nothing == <<>>     \* an empty QString
None == -1          \* nullopt

Least(S) == CHOOSE x \in S : \A y \in S : x <= y

-----------------------------------------------------------------------------
\* Mutant: the pair is looked for in steps of two.
findStringSetEndStepping(t, start) ==
    LET S == {o \in start..(Size(t) - 2) :
                 (o - start) % 2 = 0 /\ byteAt(t, o) = 0 /\ byteAt(t, o + 1) = 0}
    IN IF S = {} THEN None ELSE Least(S)

findStringSetEnd(t, start) ==
    LET S == {o \in start..(Size(t) - 2) : byteAt(t, o) = 0 /\ byteAt(t, o + 1) = 0}
    IN IF S = {} THEN None ELSE Least(S)

\* The end of the string at `from`: the first zero byte, or one behind last.
StringEnd(t, from, last) ==
    Least({o \in from..last : byteAt(t, o) = 0} \cup {last + 1})

Text(t, from, to) == [i \in 1..(to - from) |-> byteAt(t, from + i - 1)]

\* The loop of smbiosString: where its string starts after k others, behind last
\* if there is none (a string that ends at last is the last one).
smbiosString(t, stringsStart, last, wanted) ==
    LET stringStart[k \in 0..(wanted - 1)] ==
            IF k = 0 THEN stringsStart
            ELSE IF stringStart[k - 1] > last THEN stringStart[k - 1]
            ELSE StringEnd(t, stringStart[k - 1], last) + 1
        start == stringStart[wanted - 1]
    IN IF wanted = 0 THEN Nothing
       ELSE IF start > last THEN Nothing
       ELSE Text(t, start, StringEnd(t, start, last))

formatUuid(formatted) ==
    LET size == Len(UuidOrder)
        uuid == [i \in 1..size |-> byteAt(formatted, UuidAt + i - 1)]
    IN IF Size(formatted) < UuidAt + size THEN Nothing
       ELSE IF \A i \in 1..size : uuid[i] = 0 THEN Nothing
       ELSE IF \A i \in 1..size : uuid[i] = Ones THEN Nothing
       ELSE [i \in 1..size |-> uuid[UuidOrder[i]]]

\* A turn of parse's loop: it ends at what is no record, or behind the record
\* that says so.
Turn(t, loop) ==
    LET type == byteAt(t, loop.recordStart)
        length == byteAt(t, loop.recordStart + 1)
        stringsStart == loop.recordStart + length
        stringsEnd == findStringSetEnd(t, stringsStart)
        formatted == SubSeq(t, loop.recordStart + 1, stringsStart)
        result == IF type = 1
                  THEN [loop.result EXCEPT !.systemUuid = formatUuid(formatted)]
                  ELSE IF type = 2 /\ length > SerialAt
                  THEN [loop.result EXCEPT !.motherboardSerial =
                           smbiosString(t, stringsStart, stringsEnd,
                                        byteAt(formatted, SerialAt))]
                  ELSE loop.result
    IN IF \/ loop.over \/ loop.recordStart + HeaderSize > Size(t)
          \/ length < HeaderSize \/ length > Size(t) - loop.recordStart
          \/ stringsEnd = None
       THEN [loop EXCEPT !.over = TRUE]
       ELSE [recordStart |-> stringsEnd + 2, result |-> result, over |-> type = EndOfTable]

\* A table has fewer records than bytes.
parse(t) ==
    LET loop[turn \in 0..Size(t)] ==
            IF turn = 0
            THEN [recordStart |-> 0, over |-> FALSE,
                  result |-> [systemUuid |-> Nothing, motherboardSerial |-> Nothing]]
            ELSE Turn(t, loop[turn - 1])
    IN  loop[Size(t)].result

-----------------------------------------------------------------------------
(* What the table says.                                                    *)

\* A well-formed record occupies [r.from, r.to).
IsRecord(t, r) ==
    /\ r.from + HeaderSize <= Size(t)
    /\ LET length == byteAt(t, r.from + 1) IN
       /\ length >= HeaderSize /\ r.from + length + 2 <= r.to
       /\ byteAt(t, r.to - 1) = 0 /\ byteAt(t, r.to - 2) = 0
       /\ \A o \in (r.from + length)..(r.to - 3) :
             ~(byteAt(t, o) = 0 /\ byteAt(t, o + 1) = 0)

\* The records of the chain: a set that holds the one at 0, if any, and with
\* each record that does not end the table the one behind it.
Chain(t) ==
    LET R == {r \in [from : 0..Size(t), to : 0..Size(t)] : IsRecord(t, r)}
        Linked(S) == \A r \in S : r.from = 0 \/ \E q \in S :
                         q.to = r.from /\ byteAt(t, q.from) # EndOfTable
    IN UNION {S \in SUBSET R : Linked(S)}

\* The k-th of the strings the record holds: between two zero bytes.
RecordString(t, r, k) ==
    LET start == r.from + byteAt(t, r.from + 1)
        starts == {start} \cup {o + 1 : o \in {z \in start..(r.to - 3) : byteAt(t, z) = 0}}
        kth == {o \in starts : Cardinality({p \in starts : p <= o}) = k}
    IN IF k = 0 \/ kth = {} THEN Nothing
       ELSE LET from == CHOOSE o \in kth : TRUE
            IN Text(t, from, Least({z \in from..(r.to - 2) : byteAt(t, z) = 0}))

LastOf(S) == CHOOSE r \in S : \A q \in S : q.from <= r.from

SystemUuid(t, records) ==
    LET S == {r \in records : byteAt(t, r.from) = 1}
    IN IF S = {} THEN Nothing
       ELSE formatUuid(Text(t, LastOf(S).from, LastOf(S).from + byteAt(t, LastOf(S).from + 1)))

MotherboardSerial(t, records) ==
    LET S == {r \in records : byteAt(t, r.from) = 2 /\ byteAt(t, r.from + 1) > SerialAt}
    IN IF S = {} THEN Nothing
       ELSE RecordString(t, LastOf(S), byteAt(t, LastOf(S).from + SerialAt))

-----------------------------------------------------------------------------
\* The firmware's table: one of the beginnings and any bytes at all behind it.
Init == begun \in Beginning /\ table = begun
Next ==
    /\ Len(table) < Len(begun) + MaxTail
    /\ \E b \in Byte : table' = Append(table, b)
    /\ UNCHANGED begun
Spec == Init /\ [][Next]_vars

\* parse finds what the table says on every table, well formed, truncated or
\* damaged anywhere, and looks at no byte outside it.
ParsesTable ==
    parse(table) = [systemUuid |-> SystemUuid(table, Chain(table)),
                    motherboardSerial |-> MotherboardSerial(table, Chain(table))]
=============================================================================
