--------------------------- MODULE DeviceMatchLoop ---------------------------
(***************************************************************************)
(* service.matchDevice as coded: one pass over the rows ListDevices        *)
(* returned, in its order, keeping the number of active rows, the best     *)
(* match so far and its score, with two early returns.  The state machine  *)
(* builds every bounded list of rows whose TPM digests are distinct (the   *)
(* table's unique constraint) one row at a time.                           *)
(***************************************************************************)
EXTENDS DeviceMatch, Sequences, SequencesExt

CONSTANTS
    Machine,    \* the signals machines present, a subset of DeviceSignals
    MaxRows     \* bound on the length of the list

VARIABLES devices, presented

vars == <<devices, presented>>

Start == [matched |-> 0, activeCount |-> 0, bestScore |-> -1, revoked |-> FALSE]

\* The loop without its first early return: a revoked row with the presented
\* TPM key refuses only when the score also reaches the threshold. (mutant)
IterationScoresRevoked(acc, row, index, p) ==
    LET counted == acc.activeCount + (IF row.status = "active" THEN 1 ELSE 0)
        score   == ScoreDevice(row.signals, p)
    IN  CASE acc.revoked -> acc
          [] ~acc.revoked /\ score < deviceMatchThreshold ->
                [acc EXCEPT !.activeCount = counted]
          [] ~acc.revoked /\ score >= deviceMatchThreshold ->
                [acc EXCEPT !.activeCount = counted,
                            !.revoked = row.status = "revoked",
                            !.matched = IF row.status = "active" THEN index ELSE 0]

\* One turn of the for loop; after an early return nothing more happens.
Iteration(acc, row, index, p) ==
    LET counted == [acc EXCEPT !.activeCount =
                        @ + (IF row.status = "active" THEN 1 ELSE 0)]
        score   == ScoreDevice(row.signals, p)
    IN  IF acc.revoked THEN acc
        ELSE IF row.status = "revoked" /\ row.signals.tpm = p.tpm
        THEN [counted EXCEPT !.revoked = TRUE, !.matched = 0]
        ELSE IF score < deviceMatchThreshold THEN counted
        ELSE IF row.status = "revoked"
        THEN [counted EXCEPT !.revoked = TRUE, !.matched = 0]
        ELSE IF row.status = "active" /\ score > acc.bestScore
        THEN [counted EXCEPT !.matched = index, !.bestScore = score]
        ELSE counted

matchDevice(list, p) ==
    LET scan[i \in 0..Len(list)] ==
            IF i = 0 THEN Start
            ELSE Iteration(scan[i - 1], list[i], i, p)
    IN  scan[Len(list)]

-----------------------------------------------------------------------------
Init == devices = <<>> /\ presented \in Machine

\* CreateDevice under the unique (license, TPM digest) constraint, followed by
\* whatever an operator does to the row's status.
AddRow(device) ==
    /\ Len(devices) < MaxRows
    /\ \A i \in DOMAIN devices : devices[i].signals.tpm # device.signals.tpm
    /\ devices' = Append(devices, device)
    /\ UNCHANGED presented

Next == \E m \in Machine, st \in {"active", "revoked"} :
            AddRow([status |-> st, signals |-> m])

Spec == Init /\ [][Next]_vars

-----------------------------------------------------------------------------
\* The loop of matchDevice, with its early returns, its skipped rows and its
\* strict comparison of scores, decides what the declarative definitions of
\* DeviceMatch say: it refuses exactly when some row refuses, and otherwise
\* returns a best eligible row, or none, and the number of active rows.
LoopDecidesByDefinition ==
    LET result == matchDevice(devices, presented)
    IN  /\ result.revoked <=> AnyRefuses(devices, presented)
        /\ ~result.revoked =>
              /\ result.matched = 0 <=> BestMatches(devices, presented) = {}
              /\ result.matched # 0 =>
                    result.matched \in BestMatches(devices, presented)
              /\ result.activeCount = Cardinality(ActiveRows(devices))
=============================================================================
