------------------------------ MODULE TierLedger ------------------------------
(***************************************************************************)
(* What users are promised about tiers, with Mollie, the ConfigMap and the *)
(* replicas abstracted away: a user becomes entitled to a tier by paying   *)
(* it or by an admin's word; only then is it claimed, by a clerk who       *)
(* serves one claim at a time; and a claim changes the tier of its own     *)
(* user, at once and at most once, or is dropped.                          *)
(* Payments implements this specification.                                 *)
(***************************************************************************)
CONSTANTS
    Users,     \* the tenants
    Tiers,     \* the tiers
    Free,      \* the tier of who has paid nothing
    Clerks     \* those who serve claims

VARIABLES
    tier,      \* [Users -> Tiers]
    entitled,  \* [Users -> SUBSET Tiers]
    claim      \* [Clerks -> SUBSET (Users \X Tiers)], at most one each

ledger == <<tier, entitled, claim>>

Init ==
    /\ tier = [u \in Users |-> Free]
    /\ entitled = [u \in Users |-> {Free}]
    /\ claim = [c \in Clerks |-> {}]

Pay(u, t) ==
    /\ entitled' = [entitled EXCEPT ![u] = @ \cup {t}]
    /\ UNCHANGED <<tier, claim>>

Grant(c, u, t) ==
    /\ claim[c] = {}
    /\ entitled' = [entitled EXCEPT ![u] = @ \cup {t}]
    /\ claim' = [claim EXCEPT ![c] = {<<u, t>>}]
    /\ UNCHANGED tier

Claim(c, u, t) ==
    /\ claim[c] = {}
    /\ t \in entitled[u]
    /\ claim' = [claim EXCEPT ![c] = {<<u, t>>}]
    /\ UNCHANGED <<tier, entitled>>

Apply(c) ==
    /\ \E k \in claim[c] : tier' = [tier EXCEPT ![k[1]] = k[2]]
    /\ claim' = [claim EXCEPT ![c] = {}]
    /\ UNCHANGED entitled

\* A failure ends one claim, a crash those of several clerks.
Drop(lost) ==
    /\ claim' = [c \in Clerks |-> IF c \in lost THEN {} ELSE claim[c]]
    /\ UNCHANGED <<tier, entitled>>

Next ==
    \/ \E u \in Users, t \in Tiers : Pay(u, t)
    \/ \E c \in Clerks, u \in Users, t \in Tiers : Grant(c, u, t) \/ Claim(c, u, t)
    \/ \E c \in Clerks : Apply(c)
    \/ \E lost \in SUBSET Clerks : Drop(lost)

Spec == Init /\ [][Next]_ledger
=============================================================================
