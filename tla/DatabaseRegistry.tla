-------------------------- MODULE DatabaseRegistry --------------------------
(***************************************************************************)
(* What the provisioning API promises about ownership, with every          *)
(* Kubernetes call abstracted away: a database is registered to one user,  *)
(* stays with that user, and once it is gone it never comes back.          *)
(* Provisioning implements this specification.                             *)
(***************************************************************************)
CONSTANTS
    Users,     \* the tenants
    DbIds,     \* the short ids that generateShortID may mint
    NoOwner,   \* the id is not (yet) the id of a database
    Deleted    \* the id was the id of a database that is gone

VARIABLE owner \* [DbIds -> Users \cup {NoOwner, Deleted}]

Init ==
    \E resident \in SUBSET DbIds : \E f \in [resident -> Users] :
        owner = [d \in DbIds |-> IF d \in resident THEN f[d] ELSE NoOwner]

Register(u, d) ==
    /\ owner[d] = NoOwner
    /\ owner' = [owner EXCEPT ![d] = u]

\* Only the owner can unregister a database.
Unregister(u, d) ==
    /\ owner[d] = u
    /\ owner' = [owner EXCEPT ![d] = Deleted]

Next == \E u \in Users, d \in DbIds : Register(u, d) \/ Unregister(u, d)

Spec == Init /\ [][Next]_owner
=============================================================================
