----------------------------- MODULE Activation -----------------------------
(***************************************************************************)
(* What /v1/device/verify promises, with no requests, locks or rows in     *)
(* flight: redeeming a login session is one atomic step that spends the    *)
(* session and binds the presented TPM key to the license, within the      *)
(* license's device limit; a key an operator revoked is never bound again; *)
(* at most one session token is granted per redeemed session, and only for *)
(* a key that was bound.                                                   *)
(***************************************************************************)
EXTENDS Integers, FiniteSets

CONSTANTS Session, License, TpmKey, MaxDevices

VARIABLES
    redeemed,   \* sessions whose challenge was spent
    active,     \* <<license, key>>: bound devices
    banned,     \* <<license, key>>: revoked devices
    granted     \* <<session, license, key>>: tokens issued

vars == <<redeemed, active, banned, granted>>

Binding == License \X TpmKey

BoundTo(l) == {b \in active : b[1] = l}

Init == redeemed = {} /\ active = {} /\ banned = {} /\ granted = {}

Redeem(s, l, k) ==
    /\ s \notin redeemed
    /\ <<l, k>> \notin banned
    /\ <<l, k>> \in active \/ Cardinality(BoundTo(l)) < MaxDevices[l]
    /\ redeemed' = redeemed \cup {s}
    /\ active' = active \cup {<<l, k>>}
    /\ UNCHANGED <<banned, granted>>

Revoke(l, k) ==
    /\ <<l, k>> \in active
    /\ active' = active \ {<<l, k>>}
    /\ banned' = banned \cup {<<l, k>>}
    /\ UNCHANGED <<redeemed, granted>>

Grant(s, l, k) ==
    /\ s \in redeemed
    /\ \A g \in granted : g[1] # s
    /\ <<l, k>> \in active \cup banned
    /\ granted' = granted \cup {<<s, l, k>>}
    /\ UNCHANGED <<redeemed, active, banned>>

Next == \E l \in License, k \in TpmKey :
            \/ Revoke(l, k)
            \/ \E s \in Session : Redeem(s, l, k) \/ Grant(s, l, k)

Spec == Init /\ [][Next]_vars
=============================================================================
