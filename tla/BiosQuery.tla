------------------------------ MODULE BiosQuery ------------------------------
(***************************************************************************)
(* BiosReader::serialNumber: a chain of COM calls on a pooled thread, each *)
(* of which may fail, the last but one after waiting five seconds.  COM is *)
(* external: an apartment per thread, one security setting per process.    *)
(* A thread serves one reading after another.                              *)
(***************************************************************************)
EXTENDS Integers, Sequences

CONSTANTS
    Thread,
    MaxReads    \* bound on the readings of a thread

VARIABLES
    secured,    \* CoInitializeSecurity has run in this process
    apartment,  \* per thread: its kind and its open CoInitializeEx calls
    stage,      \* per thread: the call it is at, 0 outside a reading
    owned,      \* per thread: what the reading has to give back
    failed,     \* per thread, history: calls of the reading that really failed
    value,      \* per thread: what the last reading returned
    reads

vars == <<secured, apartment, stage, owned, failed, value, reads>>

\* The calls in their order and what a successful one acquires.
Call == <<"CoInitializeEx", "CoInitializeSecurity", "CoCreateInstance", "namespace",
          "ConnectServer", "CoSetProxyBlanket", "strings", "ExecQuery", "Next", "Get">>
Acquired(call) ==
    CASE call = "CoCreateInstance" -> {"locator"}
      [] call = "namespace" -> {"namespaceName"}
      [] call = "ConnectServer" -> {"services"}
      [] call = "strings" -> {"queryLanguage", "query"}
      [] call = "ExecQuery" -> {"results"}
      [] call = "Next" -> {"row"}
      [] call = "Get" -> {"serial"}
      [] OTHER -> {}
Last == Len(Call)
Foreign == "foreign"    \* an apartment of another kind, opened by other code

Init ==
    /\ secured \in BOOLEAN
    /\ apartment \in [Thread -> [kind : {"none", Foreign}, opened : {0}]]
    /\ stage = [t \in Thread |-> 0]
    /\ owned = [t \in Thread |-> {}]
    /\ failed = [t \in Thread |-> {}]
    /\ value = [t \in Thread |-> "none"]
    /\ reads = [t \in Thread |-> 0]

Begin(t) ==
    /\ stage[t] = 0 /\ reads[t] < MaxReads
    /\ stage' = [stage EXCEPT ![t] = 1]
    /\ reads' = [reads EXCEPT ![t] = @ + 1]
    /\ failed' = [failed EXCEPT ![t] = {}]
    /\ UNCHANGED <<secured, apartment, owned, value>>

\* ~ComApartment.
Closed(a) == IF a.opened > 0 THEN [kind |-> "none", opened |-> a.opened - 1] ELSE a

\* The row and its value have no owner: they are given back by hand behind
\* Next() and behind Get().
Released(call) ==
    CASE call = "Next" -> {"row"}
      [] call = "Get" -> {"row", "serial"}
      [] OTHER -> {}

\* What ~ComPtr and ~BString give back.
Destroyed ==
    {"locator", "namespaceName", "services", "queryLanguage", "query", "results"}

Return(t, held, v) ==
    /\ stage' = [stage EXCEPT ![t] = 0]
    /\ owned' = [owned EXCEPT ![t] = held \ (Destroyed \cup Released(Call[stage[t]]))]
    /\ apartment' = [apartment EXCEPT ![t] = Closed(@)]
    /\ value' = [value EXCEPT ![t] = v]

\* Mutant: security set up by an earlier reading fails this one.
ToleratedOnlySuccess(result) == result = "ok"

\* RPC_E_CHANGED_MODE and RPC_E_TOO_LATE are not failures.
Tolerated(result) == result \in {"ok", "changed mode", "too late"}

\* What COM answers to the calls that depend on what was called before.
Answers(t) ==
    CASE Call[stage[t]] = "CoInitializeEx" ->
             {"error"} \cup {IF apartment[t].kind = Foreign THEN "changed mode" ELSE "ok"}
      [] Call[stage[t]] = "CoInitializeSecurity" ->
             {"error"} \cup {IF secured THEN "too late" ELSE "ok"}
      [] Call[stage[t]] = "Next" -> {"error", "error with row", "timed out", "ok"}
      [] OTHER -> {"error", "ok"}

CallReturns(t, result) ==
    /\ stage[t] > 0
    /\ result \in Answers(t)
    /\ LET call == Call[stage[t]]
           held == owned[t] \cup (IF result \in {"ok", "error with row"}
                                  THEN Acquired(call) ELSE {})
       IN /\ failed' = [failed EXCEPT ![t] =
                            IF result \in {"error", "error with row", "timed out"}
                            THEN @ \cup {call} ELSE @]
          /\ secured' = (secured \/ (call = "CoInitializeSecurity" /\ result = "ok"))
          /\ IF ~Tolerated(result)
             THEN Return(t, held, "empty")
             ELSE IF stage[t] = Last
             THEN Return(t, held, "serial")
             ELSE /\ stage' = [stage EXCEPT ![t] = @ + 1]
                  /\ owned' = [owned EXCEPT ![t] = held]
                  /\ apartment' = IF call = "CoInitializeEx" /\ result = "ok"
                                  THEN [apartment EXCEPT ![t] =
                                           [kind |-> "multithreaded", opened |-> @.opened + 1]]
                                  ELSE apartment
                  /\ UNCHANGED value
    /\ UNCHANGED reads

Next ==
    \E t \in Thread :
        \/ Begin(t)
        \/ \E result \in {"ok", "error", "error with row", "timed out", "changed mode",
                          "too late"} : CallReturns(t, result)

Spec == Init /\ [][Next]_vars

-----------------------------------------------------------------------------
\* Readings do not disturb each other.  A reading gives its thread back as it
\* found it, at whatever call it ended: no COM object or string left, the
\* apartment neither left open nor closed under the code that opened it; and a
\* serial is missing only because a call of this reading failed, not because
\* COM was set up before by an earlier reading, another thread or other code.
ReadingsIndependent ==
    \A t \in Thread : stage[t] = 0 =>
        /\ owned[t] = {} /\ apartment[t].opened = 0
        /\ value[t] = "empty" => failed[t] # {}
=============================================================================
