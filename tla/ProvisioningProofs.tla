------------------------- MODULE ProvisioningProofs -------------------------
(***************************************************************************)
(* Proofs about Provisioning for every number of tenants, databases and    *)
(* handlers, every database limit and every number of failures.            *)
(***************************************************************************)
EXTENDS Provisioning, FiniteSetTheorems, TLAPS

(***************************************************************************)
(* What a handler carries while it is busy: its user, and, but for a       *)
(* GetUsage, its database.                                                 *)
(***************************************************************************)
WellFormed ==
    \A h \in Handlers :
        /\ handler[h].step # "idle" => handler[h].op # "none"
        /\ handler[h].op # "none" => handler[h].user \in Users
        /\ handler[h].op \notin {"none", "usage"} => handler[h].db \in DbIds
        /\ handler[h].step \in {"fetch", "commit"} =>
             handler[h].op \in {"create", "cleanup", "delete"}

TypeInv == TypeOK /\ WellFormed

LEMMA CountIsNat ==
    ASSUME NEW u
    PROVE  Cardinality(Owned(u)) \in Nat
<1>1. Owned(u) \subseteq DbIds
  BY DEF Owned
<1> QED
  BY <1>1, IdAssumption, FS_Subset, FS_CardinalityType

LEMMA InitTypeInv == Init => TypeInv
<1> SUFFICES ASSUME Init PROVE TypeInv
  OBVIOUS
<1>1. PICK f \in [Resident -> Users] :
        /\ creds = [d \in DbIds |-> IF d \in Resident THEN f[d] ELSE NoOwner]
        /\ usage = [u \in Users |-> Cardinality({d \in Resident : f[d] = u})]
  BY DEF Init
<1>2. \A u \in Users : Cardinality({d \in Resident : f[d] = u}) \in Nat
  <2> TAKE u \in Users
  <2>1. {d \in Resident : f[d] = u} \subseteq DbIds
    BY IdAssumption
  <2> QED
    BY <2>1, IdAssumption, FS_Subset, FS_CardinalityType
<1>3. usage \in [Users -> Nat]
  BY <1>1, <1>2
<1>4. creds \in [DbIds -> Users \cup {NoOwner, Deleted}]
  BY <1>1, IdAssumption
<1>5. handler \in [Handlers -> HandlerStates]
  BY DEF Init, Idle, HandlerStates, Ops, Steps
<1>6. WellFormed
  BY DEF Init, Idle, WellFormed
<1> QED
  BY <1>3, <1>4, <1>5, <1>6, IdAssumption, BoundAssumption
  DEF Init, TypeInv, TypeOK

\* What a step says of "calm" and of the failures left.
LEMMA StepOutcome ==
    ASSUME NEW h \in Handlers, HandlerStep(h) \/ Crash(h)
    PROVE  Succeeds \/ \E call \in Calls : Fails(call)
<1>1. CASE \/ FetchCluster(h) \/ SkipCluster(h) \/ CommitCluster(h)
           \/ RejectCluster(h) \/ WipeKeyspaces(h) \/ Crash(h)
  BY <1>1 DEF FetchCluster, SkipCluster, CommitCluster, RejectCluster,
              WipeKeyspaces, Crash, Calls
<1>2. CASE \/ SaveCredentials(h) \/ SaveCredentialsFails(h)
           \/ DeleteCredentials(h) \/ RotateReadOwner(h) \/ UpdateCredentials(h)
  BY <1>2 DEF SaveCredentials, SaveCredentialsFails, DeleteCredentials,
              RotateReadOwner, UpdateCredentials, Calls
<1>3. CASE \/ SaveSSLCertificates(h) \/ DeleteSSLCertificates(h)
           \/ SaveAutoscale(h) \/ DeleteAutoscale(h) \/ ListRemaining(h)
  BY <1>3 DEF SaveSSLCertificates, DeleteSSLCertificates, SaveAutoscale,
              DeleteAutoscale, ListRemaining, Calls
<1>4. CASE \/ CountCreated(h) \/ CountDeleted(h) \/ CountOwned(h)
           \/ CompareCount(h) \/ FetchUsage(h) \/ CommitUsage(h) \/ RejectUsage(h)
  BY SMTT(60), <1>4 DEF CountCreated, CountDeleted, CountOwned, CompareCount, FetchUsage,
              CommitUsage, RejectUsage, Calls
<1> QED
  BY <1>1, <1>2, <1>3, <1>4 DEF HandlerStep

LEMMA StartOutcome ==
    ASSUME NEW h \in Handlers, StartRequest(h)
    PROVE  Begins
BY ZenonT(60) DEF StartRequest, StartUsage, StartCreate, StartDelete, StartRotate,
       StartAutoscale, Start

LEMMA CalmIsBoolean ==
    ASSUME TypeOK, [Next]_vars
    PROVE  calm' \in BOOLEAN
<1>1. CASE UNCHANGED vars
  BY <1>1 DEF vars, TypeOK
<1>2. CASE Begins \/ Succeeds
  BY <1>2 DEF Begins, Succeeds, TypeOK
<1>3. ASSUME NEW call \in Calls, Fails(call)
      PROVE  calm' \in BOOLEAN
  BY <1>3 DEF Fails
<1> QED
  BY <1>1, <1>2, <1>3, StartOutcome, StepOutcome DEF Next

LEMMA NextTypeInv == TypeInv /\ [Next]_vars => TypeInv'
<1> SUFFICES ASSUME TypeInv, [Next]_vars PROVE TypeInv'
  OBVIOUS
<1>0. calm' \in BOOLEAN
  BY CalmIsBoolean DEF TypeInv
<1> USE <1>0 DEF TypeInv, TypeOK, WellFormed
<1>1. CASE UNCHANGED vars
  BY <1>1 DEF vars
<1>2. ASSUME NEW h \in Handlers, StartRequest(h)
      PROVE  TypeInv'
  <2>1. ASSUME NEW u \in Users, NEW op \in Ops \ {"none"}, NEW step \in Steps,
               NEW d \in DbIds, Start(h, op, step, u, d),
               step \in {"fetch", "commit"} => op \in {"create", "cleanup", "delete"},
               minted' \subseteq DbIds
        PROVE  TypeInv'
    BY ZenonT(60), <2>1 DEF Start, Begins, Idle, HandlerStates, Ops, Steps, cluster,
                sidecars, usageStore
  <2>2. ASSUME NEW u \in Users, StartUsage(h, u)
        PROVE  TypeInv'
    BY <2>2 DEF StartUsage, Begins, Idle, HandlerStates, Ops, Steps, cluster,
                sidecars, usageStore, history
  <2>3. ASSUME NEW u \in Users, NEW d \in DbIds, StartCreate(h, u, d)
        PROVE  TypeInv'
    <3>1. minted' \subseteq DbIds
      BY <2>3 DEF StartCreate
    <3>2. Start(h, "create", "fetch", u, d)
      BY <2>3 DEF StartCreate
    <3> QED
      BY <2>1, <3>1, <3>2 DEF Ops, Steps
  <2>4. ASSUME NEW u \in Users, NEW d \in DbIds, StartDelete(h, u, d)
        PROVE  TypeInv'
    <3>1. Start(h, "delete", "fetch", u, d) /\ minted' \subseteq DbIds
      BY <2>4 DEF StartDelete
    <3> QED
      BY <2>1, <3>1 DEF Ops, Steps
  <2>5. ASSUME NEW u \in Users, NEW d \in DbIds,
               StartRotate(h, u, d) \/ StartAutoscale(h, u, d)
        PROVE  TypeInv'
    <3>1. /\ minted' \subseteq DbIds
          /\ \/ Start(h, "rotate", "owner", u, d)
             \/ Start(h, "autoscale", "autoscale", u, d)
      BY <2>5 DEF StartRotate, StartAutoscale
    <3> QED
      BY <2>1, <3>1 DEF Ops, Steps
  <2> QED
    BY <1>2, <2>2, <2>3, <2>4, <2>5 DEF StartRequest
<1>3. ASSUME NEW h \in Handlers, HandlerStep(h)
      PROVE  TypeInv'
  <2> USE DEF Succeeds, Fails, Goto, Finish, At, Idle, HandlerStates, Ops, Steps
  <2>0. faults \in Nat /\ faults > 0 => faults - 1 \in Nat
    OBVIOUS
  <2>1. CASE FetchCluster(h)
    <3>1. keyspaces \in SUBSET DbIds
      OBVIOUS
    <3> DEFINE r == [handler[h] EXCEPT !.step = "commit", !.snap = keyspaces]
    <3>2. r \in HandlerStates
      BY ZenonT(60), <3>1
    <3>3. handler' = [handler EXCEPT ![h] = r]
      BY <2>1 DEF FetchCluster
    <3> HIDE DEF r
    <3>4. handler' \in [Handlers -> HandlerStates]
      BY <3>2, <3>3
    <3> USE DEF r
    <3> QED
      BY <2>1, <3>4 DEF FetchCluster, sidecars, usageStore, history
  <2>2. CASE SkipCluster(h)
    BY <2>0, <2>2 DEF SkipCluster, cluster, sidecars, usageStore, history
  <2>3. CASE CommitCluster(h)
    BY <2>3 DEF CommitCluster, Wanted, sidecars, usageStore
  <2>4. CASE RejectCluster(h)
    BY <2>0, <2>4 DEF RejectCluster, sidecars, usageStore, history
  <2>5. CASE SaveCredentials(h)
    BY <2>5 DEF SaveCredentials, cluster, sidecars, usageStore, history
  <2>6. CASE SaveCredentialsFails(h)
    BY <2>0, <2>6 DEF SaveCredentialsFails, cluster, sidecars, usageStore, history
  <2>7. CASE DeleteCredentials(h)
    BY <2>0, <2>7 DEF DeleteCredentials, cluster, sidecars, usageStore, history
  <2>8. CASE SaveSSLCertificates(h) \/ DeleteSSLCertificates(h)
    BY <2>0, <2>8 DEF SaveSSLCertificates, DeleteSSLCertificates, cluster,
                      usageStore, history
  <2>9. CASE RotateReadOwner(h)
    BY <2>0, <2>9 DEF RotateReadOwner, cluster, sidecars, usageStore, history
  <2>10. CASE UpdateCredentials(h)
    BY <2>0, <2>10 DEF UpdateCredentials, cluster, sidecars, usageStore, history
  <2>11. CASE SaveAutoscale(h) \/ DeleteAutoscale(h)
    BY <2>0, <2>11 DEF SaveAutoscale, DeleteAutoscale, cluster, usageStore, history
  <2>12. CASE CountCreated(h)
    BY <2>0, <2>12 DEF CountCreated, WillStore, AfterCount, cluster, sidecars,
                       usageStore, history
  <2>13. CASE CountDeleted(h)
    BY <2>0, <2>13 DEF CountDeleted, WillStore, AfterCount, Decremented, cluster,
                       sidecars, usageStore, history
  <2>14. CASE CountOwned(h)
    BY <2>0, <2>14, CountIsNat DEF CountOwned, cluster, sidecars, usageStore, history
  <2>15. CASE CompareCount(h)
    BY <2>0, <2>15 DEF CompareCount, cluster, sidecars, usageStore, history
  <2>16. CASE FetchUsage(h)
    BY <2>0, <2>16 DEF FetchUsage, AfterCount, cluster, sidecars, history
  <2>17. CASE CommitUsage(h)
    BY <2>17 DEF CommitUsage, AfterCount, cluster, sidecars, history
  <2>18. CASE RejectUsage(h)
    BY <2>0, <2>18 DEF RejectUsage, AfterCount, cluster, sidecars, history
  <2>19. CASE ListRemaining(h)
    BY <2>0, <2>19 DEF ListRemaining, cluster, sidecars, usageStore, history
  <2>20. CASE WipeKeyspaces(h)
    BY <2>0, <2>20 DEF WipeKeyspaces, cluster, sidecars, usageStore, history
  <2> QED
    BY <1>3, <2>1, <2>2, <2>3, <2>4, <2>5, <2>6, <2>7, <2>8, <2>9, <2>10, <2>11,
       <2>12, <2>13, <2>14, <2>15, <2>16, <2>17, <2>18, <2>19, <2>20
    DEF HandlerStep
<1>4. ASSUME NEW h \in Handlers, Crash(h)
      PROVE  TypeInv'
  BY <1>4 DEF Crash, Fails, Finish, Idle, HandlerStates, Ops, Steps, sidecars,
              history
<1> QED
  BY <1>1, <1>2, <1>3, <1>4 DEF Next

\* Every variable keeps its type, whatever the handlers do: counts stay
\* non-negative and every label names a user (usage.go, secrets.go).
THEOREM TypeCorrect == Spec => []TypeOK
<1>1. TypeInv => TypeOK
  BY DEF TypeInv
<1> QED
  BY <1>1, InitTypeInv, NextTypeInv, PTL DEF Spec

-----------------------------------------------------------------------------
(***************************************************************************)
(* The keyspace list.  A handler that may still commit holds the list as   *)
(* it is: every write of the object empties "fresh".                       *)
(***************************************************************************)
FreshSnapshot ==
    \A h \in fresh : handler[h].step = "commit" /\ handler[h].snap = keyspaces

ListInv == TypeInv /\ FreshSnapshot

LEMMA NextListInv == ListInv /\ [Next]_vars => ListInv'
<1> SUFFICES ASSUME ListInv, [Next]_vars PROVE FreshSnapshot'
  BY NextTypeInv DEF ListInv
<1> USE DEF ListInv, TypeInv, TypeOK, FreshSnapshot
<1>1. CASE UNCHANGED vars
  BY <1>1 DEF vars
<1>2. ASSUME NEW h \in Handlers, StartRequest(h)
      PROVE  FreshSnapshot'
  <2>1. /\ handler[h] = Idle
        /\ \A g \in Handlers \ {h} : handler'[g] = handler[g]
        /\ UNCHANGED <<fresh, keyspaces>>
    BY ZenonT(60), <1>2 DEF StartRequest, StartUsage, StartCreate, StartDelete, StartRotate,
                StartAutoscale, Start, cluster
  <2>2. h \notin fresh
    BY <2>1 DEF Idle
  <2> QED
    BY SMTT(60), <2>1, <2>2
<1>3. ASSUME NEW h \in Handlers, HandlerStep(h)
      PROVE  FreshSnapshot'
  <2> USE DEF Goto, Finish, At
  <2>1. CASE FetchCluster(h)
    <3>1. \A g \in Handlers \ {h} : handler'[g] = handler[g]
      BY <2>1 DEF FetchCluster
    <3>2. handler'[h].step = "commit" /\ handler'[h].snap = keyspaces
      BY <2>1 DEF FetchCluster, HandlerStates
    <3> QED
      BY <2>1, <3>1, <3>2 DEF FetchCluster
  <2>2. CASE CommitCluster(h)
    BY <2>2 DEF CommitCluster
  <2>3. CASE RejectCluster(h)
    BY <2>3 DEF RejectCluster
  <2>4. CASE WipeKeyspaces(h)
    BY <2>4 DEF WipeKeyspaces, cluster
  <2>5. CASE SkipCluster(h)
    BY <2>5 DEF SkipCluster, cluster
  <2>6. CASE \/ SaveCredentials(h) \/ SaveCredentialsFails(h)
             \/ DeleteCredentials(h) \/ RotateReadOwner(h) \/ UpdateCredentials(h)
    BY <2>6 DEF SaveCredentials, SaveCredentialsFails, DeleteCredentials,
                RotateReadOwner, UpdateCredentials, cluster
  <2>7. CASE \/ SaveSSLCertificates(h) \/ DeleteSSLCertificates(h)
             \/ SaveAutoscale(h) \/ DeleteAutoscale(h) \/ ListRemaining(h)
    BY <2>7 DEF SaveSSLCertificates, DeleteSSLCertificates, SaveAutoscale,
                DeleteAutoscale, ListRemaining, cluster
  <2>8. CASE \/ CountCreated(h) \/ CountDeleted(h) \/ CountOwned(h)
             \/ CompareCount(h)
    BY <2>8 DEF CountCreated, CountDeleted, CountOwned, CompareCount, WillStore,
                AfterCount, cluster
  <2>9. CASE FetchUsage(h) \/ CommitUsage(h) \/ RejectUsage(h)
    BY <2>9 DEF FetchUsage, CommitUsage, RejectUsage, AfterCount, cluster
  <2> QED
    BY <1>3, <2>1, <2>2, <2>3, <2>4, <2>5, <2>6, <2>7, <2>8, <2>9 DEF HandlerStep
<1>4. ASSUME NEW h \in Handlers, Crash(h)
      PROVE  FreshSnapshot'
  BY <1>4 DEF Crash, Finish
<1> QED
  BY <1>1, <1>2, <1>3, <1>4 DEF Next

LEMMA InitListInv == Init => ListInv
BY SMTT(60), InitTypeInv DEF Init, ListInv, FreshSnapshot

\* Only a commit and the clean-up after the last database write the list, and
\* a commit changes nothing but the keyspace of its own handler.
LEMMA ListChange ==
    ASSUME ListInv, Next, keyspaces' # keyspaces
    PROVE  \E h \in Handlers :
             \/ WipeKeyspaces(h)
             \/ /\ CommitCluster(h)
                /\ \/ keyspaces' = keyspaces \cup {handler[h].db}
                   \/ /\ handler[h].op # "create"
                      /\ keyspaces' = keyspaces \ {handler[h].db}
<1> PICK h \in Handlers : StartRequest(h) \/ HandlerStep(h) \/ Crash(h)
  BY DEF Next
<1>1. CommitCluster(h) \/ WipeKeyspaces(h)
  <2>1. ~StartRequest(h) /\ ~Crash(h)
    BY ZenonT(60) DEF StartRequest, StartUsage, StartCreate, StartDelete, StartRotate,
           StartAutoscale, Start, Crash, cluster
  <2>2. /\ ~FetchCluster(h) /\ ~SkipCluster(h) /\ ~RejectCluster(h)
        /\ ~SaveCredentials(h) /\ ~SaveCredentialsFails(h)
        /\ ~DeleteCredentials(h) /\ ~RotateReadOwner(h) /\ ~UpdateCredentials(h)
    BY DEF FetchCluster, SkipCluster, RejectCluster, SaveCredentials,
           SaveCredentialsFails, DeleteCredentials, RotateReadOwner,
           UpdateCredentials, cluster
  <2>3. /\ ~SaveSSLCertificates(h) /\ ~DeleteSSLCertificates(h)
        /\ ~SaveAutoscale(h) /\ ~DeleteAutoscale(h) /\ ~ListRemaining(h)
    BY DEF SaveSSLCertificates, DeleteSSLCertificates, SaveAutoscale,
           DeleteAutoscale, ListRemaining, cluster
  <2>4. /\ ~CountCreated(h) /\ ~CountDeleted(h) /\ ~CountOwned(h)
        /\ ~CompareCount(h) /\ ~FetchUsage(h) /\ ~CommitUsage(h)
        /\ ~RejectUsage(h)
    BY DEF CountCreated, CountDeleted, CountOwned, CompareCount, FetchUsage,
           CommitUsage, RejectUsage, cluster
  <2> QED
    BY <2>1, <2>2, <2>3, <2>4 DEF HandlerStep
<1>2. CASE CommitCluster(h)
  <2>1. handler[h].snap = keyspaces
    BY <1>2 DEF CommitCluster, ListInv, FreshSnapshot
  <2> QED
    BY <1>2, <2>1 DEF CommitCluster, Wanted
<1> QED
  BY <1>1, <1>2

\* No keyspace is lost to, or brought back by, another handler that fetched
\* the list earlier (Manager.CreateDatabase, Manager.DeleteDatabase).
THEOREM KeyspacesNotOverwritten == Spec => OwnKeyspaceOnly
<1> DEFINE own == keyspaces' # keyspaces =>
          \E h \in Handlers :
            \/ At(h, "delete", "wipe") /\ handler'[h] = Idle
            \/ /\ handler[h].step = "commit" /\ handler'[h].step # "commit"
               /\ \A d \in DbIds \ {handler[h].db} :
                    d \in keyspaces' <=> d \in keyspaces
<1>1. ListInv /\ [Next]_vars => [own]_vars
  <2> SUFFICES ASSUME ListInv, Next, keyspaces' # keyspaces
               PROVE  own
    BY DEF vars
  <2>1. PICK h \in Handlers :
             \/ WipeKeyspaces(h)
             \/ /\ CommitCluster(h)
                /\ \/ keyspaces' = keyspaces \cup {handler[h].db}
                   \/ keyspaces' = keyspaces \ {handler[h].db}
    BY ListChange
  <2>2. CASE WipeKeyspaces(h)
    BY <2>2 DEF WipeKeyspaces, Finish, ListInv, TypeInv, TypeOK
  <2>3. CASE CommitCluster(h)
    <3>1. handler[h].step = "commit" /\ handler'[h].step # "commit"
      BY <2>3 DEF CommitCluster, Finish, Goto, Idle, ListInv, TypeInv, TypeOK,
                  HandlerStates
    <3>2. CASE WipeKeyspaces(h)
      BY <2>2, <3>2
    <3> QED
      BY <2>1, <3>1, <3>2
  <2> QED
    BY <2>1, <2>2, <2>3
<1> QED
  BY <1>1, InitListInv, NextListInv, PTL DEF Spec, OwnKeyspaceOnly

-----------------------------------------------------------------------------
(***************************************************************************)
(* Ownership.  A create works on an id that no other create works on and   *)
(* that has no secret yet; a delete or a rotation works on a database of   *)
(* its user, or on one that is gone by now.                                *)
(***************************************************************************)
Pending(h) ==
    handler[h].op = "create" /\ handler[h].step \in {"fetch", "commit", "creds"}

CreatesApart ==
    \A h, g \in Handlers :
        Pending(h) /\ Pending(g) /\ handler[h].db = handler[g].db => h = g

OwnIds ==
    /\ \A d \in DbIds \ minted : creds[d] = NoOwner
    /\ \A h \in Handlers :
        /\ Pending(h) => /\ handler[h].db \in minted
                         /\ creds[handler[h].db] = NoOwner
        /\ handler[h].op \in {"delete", "rotate"} =>
             creds[handler[h].db] \in {handler[h].user, Deleted}

OwnerInv == TypeInv /\ CreatesApart /\ OwnIds

\* A step that writes no credentials and takes no new request keeps OwnerInv.
LEMMA QuietOwnerInv ==
    ASSUME OwnerInv, TypeInv', NEW h \in Handlers,
           \A g \in Handlers \ {h} : handler'[g] = handler[g],
           UNCHANGED <<creds, minted>>,
           \/ handler'[h] = Idle
           \/ /\ handler'[h].op = handler[h].op
              /\ handler'[h].db = handler[h].db
              /\ handler'[h].user = handler[h].user
              /\ Pending(h)' => Pending(h)
           \/ handler'[h].op = "cleanup"
    PROVE  OwnerInv'
<1>1. Pending(h)' => Pending(h) /\ handler'[h].db = handler[h].db
  BY DEF Pending, Idle
<1>2. CreatesApart'
  BY <1>1 DEF OwnerInv, CreatesApart, Pending
<1>3. OwnIds'
  BY <1>1 DEF OwnerInv, OwnIds, Pending, Idle
<1> QED
  BY <1>2, <1>3 DEF OwnerInv

LEMMA StartOwnerInv ==
    ASSUME OwnerInv, TypeInv', NEW h \in Handlers, StartRequest(h)
    PROVE  OwnerInv'
<1> USE DEF OwnerInv, TypeInv, TypeOK
<1>1. ASSUME NEW u \in Users, StartUsage(h, u)
      PROVE  OwnerInv'
  BY <1>1 DEF StartUsage, Idle, history, CreatesApart, OwnIds, Pending
<1>2. ASSUME NEW u \in Users, NEW d \in DbIds, StartCreate(h, u, d)
      PROVE  OwnerInv'
  <2>1. /\ handler'[h].op = "create" /\ handler'[h].db = d
        /\ \A g \in Handlers \ {h} : handler'[g] = handler[g]
        /\ creds' = creds /\ minted' = minted \cup {d} /\ d \notin minted
    BY <1>2 DEF StartCreate, Start, Idle
  <2>2. creds[d] = NoOwner
    BY <2>1 DEF OwnIds
  <2>3. CreatesApart'
    BY <2>1 DEF CreatesApart, OwnIds, Pending
  <2>4. OwnIds'
    BY <2>1, <2>2 DEF OwnIds, Pending
  <2> QED
    BY <2>3, <2>4
<1>3. ASSUME NEW u \in Users, NEW d \in DbIds,
             StartDelete(h, u, d) \/ StartRotate(h, u, d)
               \/ StartAutoscale(h, u, d)
      PROVE  OwnerInv'
  <2>1. /\ handler'[h].op # "create"
        /\ handler'[h].op \in {"delete", "rotate"} =>
             handler'[h].db = d /\ handler'[h].user = u
        /\ \A g \in Handlers \ {h} : handler'[g] = handler[g]
        /\ UNCHANGED <<creds, minted>>
        /\ creds[d] = u
    <3>1. PICK op \in {"delete", "rotate", "autoscale"}, step \in Steps :
            Start(h, op, step, u, d) /\ creds[d] = u /\ UNCHANGED minted
      BY <1>3 DEF StartDelete, StartRotate, StartAutoscale, Steps
    <3> QED
      BY <3>1 DEF Start, Idle
  <2> QED
    BY <2>1 DEF CreatesApart, OwnIds, Pending
<1> QED
  BY <1>1, <1>2, <1>3 DEF StartRequest

LEMMA StepOwnerInv ==
    ASSUME OwnerInv, TypeInv', NEW h \in Handlers, HandlerStep(h)
    PROVE  OwnerInv'
<1> USE DEF OwnerInv, TypeInv, TypeOK, HandlerStates, At, Goto, Finish
<1>1. CASE SaveCredentials(h) \/ SaveCredentialsFails(h)
  <2>1. /\ Pending(h) /\ ~Pending(h)'
        /\ handler'[h].op \notin {"delete", "rotate"}
        /\ \A g \in Handlers \ {h} : handler'[g] = handler[g]
        /\ minted' = minted
        /\ \A d \in DbIds \ {handler[h].db} : creds'[d] = creds[d]
    BY <1>1 DEF SaveCredentials, SaveCredentialsFails, Pending, history
  <2>2. handler[h].db \in minted /\ creds[handler[h].db] = NoOwner
    BY <2>1 DEF OwnIds
  <2>3. \A g \in Handlers \ {h} : Pending(g) => handler[g].db # handler[h].db
    BY <2>1 DEF CreatesApart
  <2>4. \A g \in Handlers \ {h} : handler[g].op \in {"delete", "rotate"} =>
              handler[g].db # handler[h].db
    BY <2>2, IdAssumption DEF OwnIds, WellFormed
  <2>5. \A g \in Handlers \ {h} :
           Pending(g) \/ handler[g].op \in {"delete", "rotate"} =>
              creds'[handler[g].db] = creds[handler[g].db]
    BY <2>1, <2>3, <2>4 DEF WellFormed, Pending
  <2>6. CreatesApart'
    BY <2>1 DEF CreatesApart, Pending
  <2>7. OwnIds'
    BY <2>1, <2>2, <2>5 DEF OwnIds, Pending
  <2> QED
    BY <2>6, <2>7
<1>2. CASE DeleteCredentials(h)
  <2>1. /\ ~Pending(h)'
        /\ handler'[h].op = "delete" /\ handler'[h].db = handler[h].db
        /\ handler'[h].user = handler[h].user
        /\ \A g \in Handlers \ {h} : handler'[g] = handler[g]
        /\ minted' = minted
        /\ \A d \in DbIds : \/ creds'[d] = creds[d]
                            \/ creds[d] \in Users /\ creds'[d] = Deleted
    BY <1>2 DEF DeleteCredentials, Pending, Live, history
  <2>2. CreatesApart'
    BY <2>1 DEF CreatesApart, Pending
  <2>3. \A g \in Handlers : Pending(g) => handler[g].db \in DbIds
    BY DEF WellFormed, Pending
  <2>4. \A d \in DbIds \ minted : creds'[d] = NoOwner
    BY <2>1, IdAssumption DEF OwnIds
  <2>5. \A g \in Handlers : Pending(g) => creds'[handler[g].db] = NoOwner
    BY <2>1, <2>3, IdAssumption DEF OwnIds
  <2>6. \A g \in Handlers : handler[g].op \in {"delete", "rotate"} =>
              creds'[handler[g].db] \in {handler[g].user, Deleted}
    BY <2>1 DEF OwnIds, WellFormed
  <2>7. \A g \in Handlers :
           /\ handler'[g].op \in {"delete", "rotate"} =>
                /\ handler[g].op \in {"delete", "rotate"}
                /\ handler'[g].db = handler[g].db
                /\ handler'[g].user = handler[g].user
           /\ Pending(g)' => Pending(g) /\ handler'[g].db = handler[g].db
    BY <1>2, <2>1 DEF DeleteCredentials, Pending
  <2>8. OwnIds'
    BY <2>1, <2>4, <2>5, <2>6, <2>7 DEF OwnIds
  <2> QED
    BY <2>2, <2>8
<1>3. CASE UpdateCredentials(h)
  <2>1. creds' = creds
    <3>1. Live(handler[h].db) => creds[handler[h].db] = handler[h].user
      BY <1>3, IdAssumption DEF UpdateCredentials, OwnIds, Live
    <3> QED
      BY <1>3, <3>1 DEF UpdateCredentials
  <2>2. /\ handler'[h] = Idle
        /\ \A g \in Handlers \ {h} : handler'[g] = handler[g]
        /\ minted' = minted
    BY <1>3 DEF UpdateCredentials, history
  <2> QED
    BY <2>1, <2>2, QuietOwnerInv
<1>4. CASE RotateReadOwner(h)
  <2>1. /\ UNCHANGED <<creds, minted>>
        /\ \A g \in Handlers \ {h} : handler'[g] = handler[g]
    BY <1>4 DEF RotateReadOwner, history
  <2>2. \/ handler'[h] = Idle
        \/ /\ handler'[h].op = "rotate" /\ handler'[h].db = handler[h].db
           /\ handler'[h].user = creds[handler[h].db]
    BY <1>4 DEF RotateReadOwner
  <2>3. CASE handler'[h] = Idle
    BY <2>1, <2>3, QuietOwnerInv
  <2>4. CASE /\ handler'[h].op = "rotate" /\ handler'[h].db = handler[h].db
             /\ handler'[h].user = creds[handler[h].db]
    BY <2>1, <2>4 DEF CreatesApart, OwnIds, Pending
  <2> QED
    BY <2>2, <2>3, <2>4
<1>5. CASE \/ FetchCluster(h) \/ SkipCluster(h) \/ CommitCluster(h)
           \/ RejectCluster(h) \/ WipeKeyspaces(h) \/ ListRemaining(h)
  <2>1. /\ UNCHANGED <<creds, minted>>
        /\ \A g \in Handlers \ {h} : handler'[g] = handler[g]
    BY <1>5 DEF FetchCluster, SkipCluster, CommitCluster, RejectCluster,
                WipeKeyspaces, ListRemaining, history
  <2>2. \/ handler'[h] = Idle
        \/ /\ handler'[h].op = handler[h].op
           /\ handler'[h].db = handler[h].db
           /\ handler'[h].user = handler[h].user
           /\ Pending(h)' => Pending(h)
    BY <1>5 DEF FetchCluster, SkipCluster, CommitCluster, RejectCluster,
                WipeKeyspaces, ListRemaining, Pending, WellFormed
  <2> QED
    BY <2>1, <2>2, QuietOwnerInv
<1>6. CASE \/ SaveSSLCertificates(h) \/ DeleteSSLCertificates(h)
           \/ SaveAutoscale(h) \/ DeleteAutoscale(h)
  <2>1. /\ UNCHANGED <<creds, minted>>
        /\ \A g \in Handlers \ {h} : handler'[g] = handler[g]
        /\ \/ handler'[h] = Idle
           \/ /\ handler'[h].op = handler[h].op
              /\ handler'[h].db = handler[h].db
              /\ handler'[h].user = handler[h].user
              /\ Pending(h)' => Pending(h)
    BY <1>6 DEF SaveSSLCertificates, DeleteSSLCertificates, SaveAutoscale,
                DeleteAutoscale, history, Pending
  <2> QED
    BY <2>1, QuietOwnerInv
<1>7. CASE \/ CountCreated(h) \/ CountDeleted(h) \/ CountOwned(h)
           \/ CompareCount(h) \/ FetchUsage(h) \/ CommitUsage(h)
           \/ RejectUsage(h)
  <2>1. /\ UNCHANGED <<creds, minted>>
        /\ \A g \in Handlers \ {h} : handler'[g] = handler[g]
    BY <1>7 DEF CountCreated, CountDeleted, CountOwned, CompareCount, FetchUsage,
                CommitUsage, RejectUsage, WillStore, AfterCount, history
  <2>2. \/ handler'[h] = Idle
        \/ /\ handler'[h].op = handler[h].op
           /\ handler'[h].db = handler[h].db
           /\ handler'[h].user = handler[h].user
           /\ Pending(h)' => Pending(h)
    BY <1>7 DEF CountCreated, CountDeleted, CountOwned, CompareCount, FetchUsage,
                CommitUsage, RejectUsage, WillStore, AfterCount, Pending
  <2> QED
    BY <2>1, <2>2, QuietOwnerInv
<1> QED
  BY <1>1, <1>2, <1>3, <1>4, <1>5, <1>6, <1>7 DEF HandlerStep

LEMMA NextOwnerInv == OwnerInv /\ [Next]_vars => OwnerInv'
<1> SUFFICES ASSUME OwnerInv, [Next]_vars PROVE OwnerInv'
  OBVIOUS
<1>1. TypeInv'
  BY NextTypeInv DEF OwnerInv
<1>2. CASE UNCHANGED vars
  BY <1>1, <1>2 DEF vars, OwnerInv, CreatesApart, OwnIds, Pending
<1>3. ASSUME NEW h \in Handlers, Crash(h)
      PROVE  OwnerInv'
  BY <1>1, <1>3, QuietOwnerInv
  DEF Crash, Finish, history, OwnerInv, TypeInv, TypeOK
<1> QED
  BY <1>1, <1>2, <1>3, StartOwnerInv, StepOwnerInv DEF Next

LEMMA InitOwnerInv == Init => OwnerInv
<1> SUFFICES ASSUME Init PROVE OwnerInv
  OBVIOUS
<1>1. \A d \in DbIds \ minted : creds[d] = NoOwner
  BY DEF Init
<1>2. CreatesApart /\ OwnIds
  BY <1>1 DEF Init, CreatesApart, OwnIds, Pending, Idle
<1> QED
  BY <1>2, InitTypeInv DEF OwnerInv

\* Provisioning implements DatabaseRegistry: whatever creates, deletes and
\* rotations overlap, fail or crash, a database keeps its owner and does not
\* come back once its secret is deleted (secrets.go).
THEOREM RegistryImplemented == Spec => RegistrySpec
<1>1. Init => Registry!Init
  <2> SUFFICES ASSUME Init PROVE Registry!Init
    OBVIOUS
  <2>1. PICK f \in [Resident -> Users] :
          creds = [d \in DbIds |-> IF d \in Resident THEN f[d] ELSE NoOwner]
    BY DEF Init
  <2> QED
    BY <2>1, IdAssumption DEF Registry!Init
<1>2. OwnerInv /\ [Next]_vars => [Registry!Next]_creds
  <2> SUFFICES ASSUME OwnerInv, Next, creds' # creds
               PROVE  \E u \in Users, d \in DbIds :
                         Registry!Register(u, d) \/ Registry!Unregister(u, d)
    BY DEF vars, Registry!Next
  <2> USE DEF OwnerInv, TypeInv, TypeOK
  <2> PICK h \in Handlers : StartRequest(h) \/ HandlerStep(h) \/ Crash(h)
    BY DEF Next
  <2> DEFINE u == handler[h].user
             d == handler[h].db
  <2>1. \/ SaveCredentials(h) \/ SaveCredentialsFails(h)
        \/ DeleteCredentials(h) \/ UpdateCredentials(h)
    <3>1. ~StartRequest(h) /\ ~Crash(h)
      BY ZenonT(60) DEF StartRequest, StartUsage, StartCreate, StartDelete, StartRotate,
             StartAutoscale, Start, Crash
    <3>2. /\ ~FetchCluster(h) /\ ~SkipCluster(h) /\ ~CommitCluster(h)
          /\ ~RejectCluster(h) /\ ~RotateReadOwner(h) /\ ~WipeKeyspaces(h)
          /\ ~ListRemaining(h)
      BY DEF FetchCluster, SkipCluster, CommitCluster, RejectCluster,
             RotateReadOwner, WipeKeyspaces, ListRemaining
    <3>3. /\ ~SaveSSLCertificates(h) /\ ~DeleteSSLCertificates(h)
          /\ ~SaveAutoscale(h) /\ ~DeleteAutoscale(h)
      BY DEF SaveSSLCertificates, DeleteSSLCertificates, SaveAutoscale,
             DeleteAutoscale
    <3>4. /\ ~CountCreated(h) /\ ~CountDeleted(h) /\ ~CountOwned(h)
          /\ ~CompareCount(h) /\ ~FetchUsage(h) /\ ~CommitUsage(h)
          /\ ~RejectUsage(h)
      BY DEF CountCreated, CountDeleted, CountOwned, CompareCount, FetchUsage,
             CommitUsage, RejectUsage
    <3> QED
      BY SMTT(60), <3>1, <3>2, <3>3, <3>4 DEF HandlerStep
  <2>2. CASE SaveCredentials(h) \/ SaveCredentialsFails(h)
    <3>1. /\ Pending(h) /\ u \in Users /\ d \in DbIds
          /\ creds' = [creds EXCEPT ![d] = u]
      BY <2>2 DEF SaveCredentials, SaveCredentialsFails, At, Pending, WellFormed
    <3>2. creds[d] = NoOwner
      BY <3>1 DEF OwnIds
    <3> QED
      BY <3>1, <3>2 DEF Registry!Register
  <2>3. CASE DeleteCredentials(h)
    <3>1. /\ u \in Users /\ d \in DbIds /\ handler[h].op = "delete"
          /\ Live(d) /\ creds' = [creds EXCEPT ![d] = Deleted]
      BY <2>3 DEF DeleteCredentials, At, WellFormed
    <3>2. creds[d] = u
      BY <3>1, IdAssumption DEF OwnIds, Live
    <3> QED
      BY <3>1, <3>2 DEF Registry!Unregister
  <2>4. CASE UpdateCredentials(h)
    <3>1. Live(d) => creds[d] = u
      BY <2>4, IdAssumption DEF UpdateCredentials, At, OwnIds, Live
    <3> QED
      BY <2>4, <3>1 DEF UpdateCredentials
  <2> QED
    BY <2>1, <2>2, <2>3, <2>4
<1> QED
  BY <1>1, <1>2, InitOwnerInv, NextOwnerInv, PTL
  DEF Spec, RegistrySpec, Registry!Spec

-----------------------------------------------------------------------------
(***************************************************************************)
(* Keyspaces of live databases.  As long as some database stays and the    *)
(* listing of the secrets does not fail, no delete takes its own database  *)
(* for the last one, and the clean-up is never reached.                    *)
(***************************************************************************)
ResidentsStay ==
    /\ \A d \in Resident : Live(d)
    /\ \A h \in Handlers : /\ handler[h].op = "delete" => handler[h].db \notin Resident
                          /\ handler[h].step # "wipe"

\* A create that is about to store the secret has its keyspace committed.
CommittedFirst ==
    \A h \in Handlers :
        At(h, "create", "creds") /\ handler[h].db \notin retired =>
            handler[h].db \in keyspaces

KeepInv == ListInv /\ ResidentsStay /\ CommittedFirst /\ LiveHasKeyspace

LEMMA InitKeepInv == Init => KeepInv
<1> SUFFICES ASSUME Init PROVE KeepInv
  OBVIOUS
<1>1. PICK f \in [Resident -> Users] :
          creds = [d \in DbIds |-> IF d \in Resident THEN f[d] ELSE NoOwner]
  BY DEF Init
<1>2. \A d \in DbIds : Live(d) <=> d \in Resident
  BY <1>1, IdAssumption DEF Live
<1>3. ResidentsStay
  BY <1>2, IdAssumption DEF Init, ResidentsStay, Idle
<1>4. CommittedFirst /\ LiveHasKeyspace
  BY <1>2 DEF Init, CommittedFirst, LiveHasKeyspace, At, Idle
<1> QED
  BY <1>3, <1>4, InitListInv DEF KeepInv

\* A step that leaves the secrets, the keyspace list and the history alone and
\* does not bring its handler to the wipe keeps KeepInv.
LEMMA QuietKeepInv ==
    ASSUME KeepInv, ListInv', NEW h \in Handlers,
           \A g \in Handlers \ {h} : handler'[g] = handler[g],
           UNCHANGED <<keyspaces, retired>>,
           \A d \in DbIds : (creds'[d] \in Users) = (creds[d] \in Users),
           handler'[h].step # "wipe",
           ~At(h, "create", "creds")',
           handler'[h].op = "delete" => handler'[h].db \notin Resident
    PROVE  KeepInv'
<1>1. ResidentsStay'
  BY IdAssumption DEF KeepInv, ResidentsStay, Live
<1>2. CommittedFirst'
  BY DEF KeepInv, CommittedFirst, At
<1>3. LiveHasKeyspace'
  BY DEF KeepInv, LiveHasKeyspace, Live
<1> QED
  BY <1>1, <1>2, <1>3 DEF KeepInv

LEMMA StepKeepInv ==
    ASSUME Resident # {}, "list" \notin Faulty,
           KeepInv, ListInv', NEW h \in Handlers, HandlerStep(h)
    PROVE  KeepInv'
<1> USE DEF ListInv, TypeInv, TypeOK, HandlerStates, At, Goto, Finish, Idle
<1>0. handler[h].step # "wipe" /\ (handler[h].op = "delete" => handler[h].db \notin Resident)
  BY DEF KeepInv, ResidentsStay
<1>1. CASE CommitCluster(h)
  <2>1. /\ \A g \in Handlers \ {h} : handler'[g] = handler[g]
        /\ handler'[h].step # "wipe"
        /\ handler'[h].op = "delete" => handler'[h].db \notin Resident
        /\ handler'[h].op = "create" => handler[h].op = "create"
                                       /\ handler'[h].db = handler[h].db
        /\ creds' = creds
    BY <1>0, <1>1 DEF CommitCluster
  <2>2. handler[h].snap = keyspaces
    BY <1>1 DEF CommitCluster, KeepInv, FreshSnapshot
  <2>3. \/ /\ handler[h].op = "create" /\ retired' = retired
           /\ keyspaces' = keyspaces \cup {handler[h].db}
        \/ /\ handler[h].op # "create"
           /\ retired' = retired \cup {handler[h].db}
           /\ keyspaces' = keyspaces \ {handler[h].db}
    BY <1>1, <2>2 DEF CommitCluster, Wanted
  <2>4. ResidentsStay'
    BY <2>1 DEF KeepInv, ResidentsStay, Live
  <2>5. CommittedFirst'
    BY <2>1, <2>3 DEF KeepInv, CommittedFirst
  <2>6. LiveHasKeyspace'
    BY <2>1, <2>3 DEF KeepInv, LiveHasKeyspace, Live
  <2> QED
    BY <2>4, <2>5, <2>6 DEF KeepInv
<1>2. CASE SaveCredentials(h) \/ SaveCredentialsFails(h)
  <2>1. /\ At(h, "create", "creds")
        /\ handler'[h].step \in {"ssl", "fetch"} /\ handler'[h].op # "delete"
        /\ \A g \in Handlers \ {h} : handler'[g] = handler[g]
        /\ UNCHANGED <<keyspaces, retired>>
        /\ \A d \in DbIds \ {handler[h].db} : creds'[d] = creds[d]
        /\ creds'[handler[h].db] \in {creds[handler[h].db], handler[h].user}
    BY <1>2 DEF SaveCredentials, SaveCredentialsFails, cluster, history, KeepInv
  <2>2. handler[h].db \in DbIds /\ handler[h].user \in Users
    BY <2>1 DEF KeepInv, WellFormed
  <2>3. ResidentsStay'
    BY <2>1, <2>2, IdAssumption DEF KeepInv, ResidentsStay, Live
  <2>4. CommittedFirst'
    BY <2>1 DEF KeepInv, CommittedFirst
  <2>5. LiveHasKeyspace'
    BY <2>1 DEF KeepInv, CommittedFirst, LiveHasKeyspace, Live
  <2> QED
    BY <2>3, <2>4, <2>5 DEF KeepInv
<1>3. CASE DeleteCredentials(h)
  <2>1. /\ handler'[h].step = "ssl" /\ handler'[h].op = "delete"
        /\ handler'[h].db = handler[h].db /\ handler[h].db \notin Resident
        /\ \A g \in Handlers \ {h} : handler'[g] = handler[g]
        /\ UNCHANGED <<keyspaces, retired>>
        /\ \A d \in DbIds \ {handler[h].db} : creds'[d] = creds[d]
        /\ creds'[handler[h].db] \in {creds[handler[h].db], Deleted}
    BY <1>0, <1>3, IdAssumption DEF DeleteCredentials, cluster, history, WellFormed
  <2>2. ResidentsStay'
    BY <2>1, IdAssumption DEF KeepInv, ResidentsStay, Live
  <2>3. CommittedFirst'
    BY <2>1 DEF KeepInv, CommittedFirst
  <2>4. LiveHasKeyspace'
    BY <2>1, IdAssumption DEF KeepInv, LiveHasKeyspace, Live
  <2> QED
    BY <2>2, <2>3, <2>4 DEF KeepInv
<1>4. CASE RotateReadOwner(h) \/ UpdateCredentials(h)
  <2>1. /\ handler'[h].step \in {"idle", "update"}
        /\ handler'[h].op # "delete"
        /\ \A g \in Handlers \ {h} : handler'[g] = handler[g]
        /\ UNCHANGED <<keyspaces, retired>>
    BY <1>4 DEF RotateReadOwner, UpdateCredentials, cluster, history
  <2>2. \A d \in DbIds : (creds'[d] \in Users) = (creds[d] \in Users)
    BY <1>4 DEF RotateReadOwner, UpdateCredentials, Live, KeepInv, WellFormed
  <2> QED
    BY <2>1, <2>2, QuietKeepInv
<1>5. CASE FetchCluster(h) \/ SkipCluster(h) \/ RejectCluster(h)
  <2>1. /\ \A g \in Handlers \ {h} : handler'[g] = handler[g]
        /\ UNCHANGED <<creds, keyspaces, retired>>
        /\ handler'[h].step # "wipe" /\ ~At(h, "create", "creds")'
        /\ handler'[h].op = "delete" => handler'[h].db \notin Resident
    BY <1>0, <1>5 DEF FetchCluster, SkipCluster, RejectCluster, cluster, history
  <2> QED
    BY <2>1, QuietKeepInv
<1>6. CASE \/ SaveSSLCertificates(h) \/ DeleteSSLCertificates(h)
           \/ SaveAutoscale(h) \/ DeleteAutoscale(h)
  <2>1. /\ \A g \in Handlers \ {h} : handler'[g] = handler[g]
        /\ UNCHANGED <<creds, keyspaces, retired>>
        /\ handler'[h].step \notin {"wipe", "creds"}
        /\ handler'[h].op = "delete" => handler'[h].db \notin Resident
    BY <1>0, <1>6 DEF SaveSSLCertificates, DeleteSSLCertificates, SaveAutoscale,
                     DeleteAutoscale, cluster, history
  <2> QED
    BY <2>1, QuietKeepInv
<1>7. CASE \/ CountCreated(h) \/ CountDeleted(h) \/ CountOwned(h)
           \/ CompareCount(h)
  <2>1. /\ \A g \in Handlers \ {h} : handler'[g] = handler[g]
        /\ UNCHANGED <<creds, keyspaces, retired>>
        /\ handler'[h].step \notin {"wipe", "creds"}
        /\ handler'[h].op = "delete" => handler'[h].db \notin Resident
    BY <1>0, <1>7 DEF CountCreated, CountDeleted, CountOwned, CompareCount,
                     WillStore, AfterCount, cluster, history
  <2> QED
    BY <2>1, QuietKeepInv
<1>8. CASE FetchUsage(h) \/ CommitUsage(h) \/ RejectUsage(h)
  <2>1. /\ \A g \in Handlers \ {h} : handler'[g] = handler[g]
        /\ UNCHANGED <<creds, keyspaces, retired>>
        /\ handler'[h].step \notin {"wipe", "creds"}
        /\ handler'[h].op = "delete" => handler'[h].db \notin Resident
    BY <1>0, <1>8 DEF FetchUsage, CommitUsage, RejectUsage, AfterCount, cluster,
                     history
  <2> QED
    BY <2>1, QuietKeepInv
<1>9. CASE ListRemaining(h)
  <2>1. Listed # {}
    BY IdAssumption DEF KeepInv, ResidentsStay, Listed
  <2>2. /\ \A g \in Handlers \ {h} : handler'[g] = handler[g]
        /\ UNCHANGED <<creds, keyspaces, retired>>
        /\ handler'[h] = Idle
    BY <1>9, <2>1 DEF ListRemaining, Fails, cluster, history
  <2> QED
    BY <2>2, QuietKeepInv
<1>10. ~WipeKeyspaces(h)
  BY <1>0 DEF WipeKeyspaces
<1> QED
  BY <1>1, <1>2, <1>3, <1>4, <1>5, <1>6, <1>7, <1>8, <1>9, <1>10 DEF HandlerStep

LEMMA NextKeepInv ==
    ASSUME Resident # {}, "list" \notin Faulty, KeepInv, [Next]_vars
    PROVE  KeepInv'
<1> USE DEF ListInv, TypeInv, TypeOK
<1>1. ListInv'
  BY NextListInv DEF KeepInv
<1>2. CASE UNCHANGED vars
  BY <1>1, <1>2 DEF vars, KeepInv, ResidentsStay, CommittedFirst,
                    LiveHasKeyspace, Live, At
<1>3. ASSUME NEW h \in Handlers, Crash(h)
      PROVE  KeepInv'
  BY <1>1, <1>3, QuietKeepInv DEF Crash, Finish, Idle, At, history
<1>4. ASSUME NEW h \in Handlers, StartRequest(h)
      PROVE  KeepInv'
  <2>1. /\ \A g \in Handlers \ {h} : handler'[g] = handler[g]
        /\ UNCHANGED <<creds, keyspaces, retired>>
        /\ handler'[h].step \in {"fetch", "owner", "autoscale", "list"}
        /\ handler'[h].op = "delete" => handler'[h].db \notin Resident
    <3>1. CASE \E u \in Users : StartUsage(h, u)
      BY <3>1 DEF StartUsage, Idle, cluster, history, KeepInv
    <3>2. ASSUME NEW u \in Users, NEW d \in DbIds, NEW op \in Ops, NEW step \in Steps,
                 Start(h, op, step, u, d),
                 step \in {"fetch", "owner", "autoscale", "list"},
                 op = "delete" => d \notin Resident
          PROVE  /\ \A g \in Handlers \ {h} : handler'[g] = handler[g]
                 /\ UNCHANGED <<creds, keyspaces, retired>>
                 /\ handler'[h].step \in {"fetch", "owner", "autoscale", "list"}
                 /\ handler'[h].op = "delete" => handler'[h].db \notin Resident
      BY <3>2 DEF Start, Idle, cluster, KeepInv
    <3> QED
      BY <1>4, <3>1, <3>2 DEF StartRequest, StartCreate, StartDelete, StartRotate,
         StartAutoscale, Ops, Steps
  <2> QED
    BY <1>1, <2>1, QuietKeepInv DEF At
<1> QED
  BY <1>2, <1>3, <1>4, StepKeepInv, <1>1 DEF Next

\* A tenant's database keeps its keyspace whatever the other requests do, if
\* some database is never deleted and the listing of the secrets never fails
\* (DeleteDatabase, CreateDatabase, vitess.go).  Without the
\* first it can be lost to the race that the run ProvisioningWipeRace shows,
\* without the second to a listing that fails and reads as empty.
THEOREM KeyspaceKept ==
    ASSUME Resident # {}, "list" \notin Faulty
    PROVE  Spec => []LiveHasKeyspace
<1>1. KeepInv /\ [Next]_vars => KeepInv'
  BY NextKeepInv
<1>2. KeepInv => LiveHasKeyspace
  BY DEF KeepInv
<1> QED
  BY <1>1, <1>2, InitKeepInv, PTL DEF Spec
-----------------------------------------------------------------------------
(***************************************************************************)
(* One request at a time.  As long as the history is calm one handler at   *)
(* most is at work, and what is missing or left over is what that handler  *)
(* has still to do.                                                        *)
(***************************************************************************)
BusyOne ==
    \A g, h \in Handlers : handler[g] # Idle /\ handler[h] # Idle => g = h

Count(u) == Cardinality(Owned(u))

\* There is a limit, and the databases are within it to begin with.
Limited == MaxDatabases # Unlimited /\ Cardinality(Resident) <= MaxDatabases

\* Nothing is missing and nothing is left over.
Settled ==
    /\ keyspaces = Listed
    /\ ssl = Listed
    /\ autoscale \subseteq Listed
    /\ \A u \in Users : usage[u] >= Count(u)
    /\ Limited => \A u \in Users : Count(u) <= MaxDatabases

Unstored == {"fetch", "commit", "creds"}
Uncounted == {"ssl", "count", "usageFetch", "usageCommit"}

\* What handler h, alone at work, has still to do.
Objects(h) ==
    LET d == handler[h].db
    IN  /\ keyspaces = IF At(h, "create", "creds") THEN Listed \cup {d}
                       ELSE IF At(h, "delete", "creds") THEN Listed \ {d} ELSE Listed
        /\ ssl = IF At(h, "create", "ssl") THEN Listed \ {d}
                 ELSE IF At(h, "delete", "ssl") THEN Listed \cup {d} ELSE Listed
        /\ autoscale \subseteq
             Listed \cup (IF handler[h].op = "delete"
                             /\ handler[h].step \in {"ssl", "count", "autoscale"}
                            THEN {d} ELSE {})

Counts(h) ==
    /\ \A u \in Users :
         usage[u] + (IF /\ handler[h].op = "create" /\ handler[h].step \in Uncounted
                        /\ u = handler[h].user
                       THEN 1 ELSE 0) >= Count(u)
    /\ Limited =>
         \A u \in Users :
           Count(u) + (IF /\ handler[h].op = "create" /\ handler[h].step \in Unstored
                          /\ u = handler[h].user
                         THEN 1 ELSE 0) <= MaxDatabases

Plan(h) ==
    LET r == handler[h]
    IN  /\ r.op # "cleanup"
        /\ r.op = "create" /\ r.step \in Uncounted => Live(r.db)
        /\ r.op = "delete" /\ r.step \in Unstored => creds[r.db] = r.user
        /\ r.op = "delete" /\ r.step \notin Unstored => ~Live(r.db)
        /\ r.op \in {"rotate", "autoscale"} => creds[r.db] = r.user
        /\ r.step = "commit" => r.snap = keyspaces
        /\ r.step \in {"usageFetch", "usageCommit"} =>
             r.op \in {"create", "usage"} /\ r.n >= Count(r.user)
        /\ r.op = "create" /\ r.step = "usageCommit" => h \in usageFresh
        /\ r.step = "reread" => r.op = "usage" /\ r.n >= Count(r.user)
        /\ r.step = "wipe" => Listed = {}

Working(h) == Objects(h) /\ Counts(h) /\ Plan(h)

AloneInv ==
    calm => /\ BusyOne
            /\ Quiet => Settled
            /\ \A h \in Handlers : handler[h] # Idle => Working(h)

CalmInv == OwnerInv /\ AloneInv

LEMMA CountType == \A u : Count(u) \in Nat /\ Count(u)' \in Nat
<1> TAKE u
<1>1. Owned(u)' \subseteq DbIds
  BY DEF Owned
<1>2. Cardinality(Owned(u)') \in Nat
  BY <1>1, IdAssumption, FS_Subset, FS_CardinalityType
<1> QED
  BY <1>2, CountIsNat DEF Count

LEMMA SameOwners ==
    ASSUME UNCHANGED creds
    PROVE  /\ Listed' = Listed
           /\ \A d : Live(d)' = Live(d)
           /\ \A u : Count(u)' = Count(u)
BY DEF Listed, Live, Count, Owned

\* Only handler h has moved, and what it has still to do is as it should be.
LEMMA AloneGoesOn ==
    ASSUME TypeOK', AloneInv, calm, NEW h \in Handlers, handler[h] # Idle \/ Quiet,
           \A g \in Handlers \ {h} : handler'[g] = handler[g],
           Working(h)'
    PROVE  AloneInv'
<1>1. \A g \in Handlers \ {h} : handler[g] = Idle /\ handler'[g] = Idle
  BY DEF AloneInv, BusyOne, Quiet
<1>2. BusyOne' /\ \A g \in Handlers : handler'[g] # Idle => Working(g)'
  BY <1>1 DEF BusyOne, Idle
<1>3. ASSUME Quiet' PROVE Settled'
  <2>1. handler'[h] = Idle
    BY <1>3 DEF Quiet, Idle
  <2> QED
    BY <2>1, CountType DEF Working, Objects, Counts, Settled, Idle, At, TypeOK
<1> QED
  BY <1>2, <1>3 DEF AloneInv, Idle

LEMMA InitCalmInv == Init => CalmInv
<1> SUFFICES ASSUME Init PROVE CalmInv
  OBVIOUS
<1>1. PICK f \in [Resident -> Users] :
        /\ creds = [d \in DbIds |-> IF d \in Resident THEN f[d] ELSE NoOwner]
        /\ usage = [u \in Users |-> Cardinality({d \in Resident : f[d] = u})]
  BY DEF Init
<1>2. Listed = Resident
  BY <1>1, IdAssumption DEF Listed, Live
<1>3. \A u \in Users : Owned(u) = {d \in Resident : f[d] = u}
  BY <1>1, IdAssumption DEF Owned
<1>4. \A u \in Users : Count(u) <= Cardinality(Resident)
  BY <1>3, IdAssumption, FS_Subset DEF Count
<1>5. Cardinality(Resident) \in Nat
  BY IdAssumption, FS_Subset, FS_CardinalityType
<1>6. Limited => \A u \in Users : Count(u) <= MaxDatabases
  BY <1>4, <1>5, CountType, BoundAssumption DEF Limited, Unlimited
<1>7. \A u \in Users : usage[u] >= Count(u)
  BY <1>1, <1>3, CountType DEF Count
<1>8. Settled
  BY <1>2, <1>6, <1>7 DEF Settled, Init
<1>9. \A h \in Handlers : handler[h] = Idle
  BY DEF Init
<1> QED
  BY <1>8, <1>9, InitOwnerInv DEF CalmInv, AloneInv, BusyOne

-----------------------------------------------------------------------------
LEMMA StartAlone ==
    ASSUME CalmInv, TypeOK', NEW h \in Handlers, StartRequest(h), calm'
    PROVE  AloneInv'
<1> USE DEF CalmInv, OwnerInv, TypeInv, TypeOK
<1>0. calm /\ Quiet /\ Settled
  BY ZenonT(60), StartOutcome DEF Begins, AloneInv
<1>1. /\ \A g \in Handlers \ {h} : handler'[g] = handler[g]
      /\ UNCHANGED <<creds, keyspaces, ssl, autoscale, usage>>
  BY ZenonT(60) DEF StartRequest, StartUsage, StartCreate, StartDelete, StartRotate,
         StartAutoscale, Start, cluster, sidecars, usageStore
<1>2. SUFFICES Working(h)'
  BY <1>0, <1>1, AloneGoesOn
<1>3. PICK u \in Users : \/ StartUsage(h, u)
                         \/ \E d \in DbIds : \/ StartCreate(h, u, d)
                                             \/ StartDelete(h, u, d)
                                             \/ StartRotate(h, u, d)
                                             \/ StartAutoscale(h, u, d)
  BY DEF StartRequest
<1>4. CASE StartUsage(h, u)
  <2>1. handler'[h].op = "usage" /\ handler'[h].step = "list"
    BY <1>4 DEF StartUsage, Idle
  <2> QED
    BY <1>0, <1>1, <2>1, SameOwners, CountType
    DEF Settled, Working, Objects, Counts, Plan, At, Unstored
<1>5. ASSUME NEW d \in DbIds, StartCreate(h, u, d)
      PROVE  Working(h)'
  <2>1. handler'[h] = [Idle EXCEPT !.op = "create", !.step = "fetch", !.user = u, !.db = d]
    BY <1>5 DEF StartCreate, Start
  <2>2. /\ handler'[h].op = "create" /\ handler'[h].step = "fetch"
        /\ handler'[h].user = u /\ handler'[h].db = d
    BY <2>1 DEF Idle
  <2>4. Limited => Count(u) + 1 <= MaxDatabases
    BY <1>5, <1>0, CountType, BoundAssumption DEF Limited, StartCreate, WithinLimit, Settled
  <2> QED
    BY <1>0, <1>1, <2>2, <2>4, SameOwners, CountType, BoundAssumption
    DEF Limited, Settled, Working, Objects, Counts, Plan, At, Unstored, Uncounted
<1>6. ASSUME NEW d \in DbIds, NEW op \in {"delete", "rotate", "autoscale"}, NEW step \in Steps,
             Start(h, op, step, u, d), creds[d] = u,
             op = "delete" => step = "fetch",
             op # "delete" => step \in {"owner", "autoscale"}
      PROVE  Working(h)'
  <2>1. handler'[h] = [Idle EXCEPT !.op = op, !.step = step, !.user = u, !.db = d]
    BY <1>6 DEF Start
  <2>2. /\ handler'[h].op = op /\ handler'[h].step = step
        /\ handler'[h].user = u /\ handler'[h].db = d
    BY <2>1 DEF Idle
  <2> QED
    BY <1>0, <1>1, <1>6, <2>2, SameOwners, CountType, BoundAssumption
    DEF Limited, Settled, Working, Objects, Counts, Plan, At, Unstored, Uncounted
<1> QED
  BY <1>3, <1>4, <1>5, <1>6 DEF StartDelete, StartRotate, StartAutoscale, Steps

-----------------------------------------------------------------------------
(***************************************************************************)
(* The steps of the one handler at work.                                   *)
(***************************************************************************)
LEMMA CalmStep ==
    ASSUME CalmInv, NEW h \in Handlers, HandlerStep(h), calm'
    PROVE  calm /\ Succeeds /\ Working(h) /\ handler[h] # Idle
<1>1. Succeeds
  BY StepOutcome DEF Fails
<1>2. handler[h].step # "idle"
  BY DEF HandlerStep, FetchCluster, SkipCluster, CommitCluster, RejectCluster,
         SaveCredentials, SaveCredentialsFails, DeleteCredentials, SaveSSLCertificates,
         DeleteSSLCertificates, RotateReadOwner, UpdateCredentials, SaveAutoscale,
         DeleteAutoscale, CountCreated, CountDeleted, CountOwned, CompareCount,
         FetchUsage, CommitUsage, RejectUsage, ListRemaining, WipeKeyspaces, At
<1>3. handler[h] # Idle
  BY <1>2 DEF Idle
<1>4. calm
  BY <1>1 DEF Succeeds
<1> QED
  BY <1>1, <1>3, <1>4 DEF CalmInv, AloneInv

\* A handler that returns, having nothing left to do.
LEMMA Returns ==
    ASSUME TypeOK, TypeOK', NEW h \in Handlers, Working(h), handler'[h] = Idle,
           UNCHANGED <<creds, keyspaces, ssl, autoscale, usage>>,
           handler[h].op = "create" => handler[h].step \in {"fetch", "commit"},
           handler[h].op = "delete" => handler[h].step \in {"fetch", "commit", "list"}
    PROVE  Working(h)'
<1>1. Settled
  BY CountType, BoundAssumption
  DEF Limited, Working, Objects, Counts, Settled, At, TypeOK, Unstored, Uncounted
<1>2. /\ handler'[h].op = "none" /\ handler'[h].step = "idle"
  BY DEF Idle
<1>3. Objects(h)'
  BY <1>1, <1>2, SameOwners DEF Objects, Settled, At
<1>4. Counts(h)'
  BY <1>1, <1>2, SameOwners, CountType, BoundAssumption DEF Counts, Limited, Settled, TypeOK
<1>5. Plan(h)'
  BY <1>2 DEF Plan
<1> QED
  BY <1>3, <1>4, <1>5 DEF Working

LEMMA OthersStay ==
    ASSUME CalmInv, NEW h \in Handlers, HandlerStep(h)
    PROVE  \A g \in Handlers \ {h} : handler'[g] = handler[g]
<1> USE DEF CalmInv, OwnerInv, TypeInv, TypeOK, Goto, Finish
<1>1. CASE \/ FetchCluster(h) \/ SkipCluster(h) \/ CommitCluster(h)
           \/ RejectCluster(h) \/ WipeKeyspaces(h)
  BY <1>1 DEF FetchCluster, SkipCluster, CommitCluster, RejectCluster, WipeKeyspaces
<1>2. CASE \/ SaveCredentials(h) \/ SaveCredentialsFails(h)
           \/ DeleteCredentials(h) \/ RotateReadOwner(h) \/ UpdateCredentials(h)
  BY <1>2 DEF SaveCredentials, SaveCredentialsFails, DeleteCredentials,
              RotateReadOwner, UpdateCredentials
<1>3. CASE \/ SaveSSLCertificates(h) \/ DeleteSSLCertificates(h)
           \/ SaveAutoscale(h) \/ DeleteAutoscale(h) \/ ListRemaining(h)
  BY <1>3 DEF SaveSSLCertificates, DeleteSSLCertificates, SaveAutoscale,
              DeleteAutoscale, ListRemaining
<1>4. CASE \/ CountCreated(h) \/ CountDeleted(h) \/ CountOwned(h) \/ CompareCount(h)
  BY <1>4 DEF CountCreated, CountDeleted, CountOwned, CompareCount, WillStore, AfterCount
<1>5. CASE FetchUsage(h) \/ CommitUsage(h) \/ RejectUsage(h)
  BY <1>5 DEF FetchUsage, CommitUsage, RejectUsage, AfterCount
<1> QED
  BY <1>1, <1>2, <1>3, <1>4, <1>5 DEF HandlerStep

\* Steps on the keyspace list.
LEMMA ClusterSteps ==
    ASSUME CalmInv, TypeOK', NEW h \in Handlers, Working(h), Succeeds,
           \/ FetchCluster(h) \/ SkipCluster(h)
           \/ CommitCluster(h) \/ RejectCluster(h)
    PROVE  Working(h)'
<1> USE DEF CalmInv, OwnerInv, TypeInv, TypeOK
<1> USE DEF At, Goto, Finish, Unstored, Uncounted
<1>1. handler[h].op \in {"create", "delete"} /\ handler[h].db \in DbIds
  BY DEF Working, Plan, WellFormed, FetchCluster, SkipCluster, CommitCluster, RejectCluster
<1>2. UNCHANGED <<creds, ssl, autoscale, usage>>
  BY DEF FetchCluster, SkipCluster, CommitCluster, RejectCluster, sidecars, usageStore
<1>3. ~Fails("cluster")
  BY DEF Succeeds, Fails
<1>4. CASE FetchCluster(h)
  <2>1. /\ handler'[h].step = "commit" /\ handler'[h].snap = keyspaces /\ keyspaces' = keyspaces
        /\ handler'[h].op = handler[h].op /\ handler'[h].db = handler[h].db
        /\ handler'[h].user = handler[h].user /\ handler[h].step = "fetch"
    BY <1>4 DEF FetchCluster, HandlerStates
  <2> QED
    BY <1>1, <1>2, <2>1, SameOwners DEF Working, Objects, Counts, Plan
<1>5. CASE SkipCluster(h)
  <2>1. handler[h].step = "fetch" /\ UNCHANGED keyspaces
    BY <1>5 DEF SkipCluster, cluster
  <2>2. handler[h].op = "delete" => Live(handler[h].db)
    BY <1>1, <2>1 DEF Working, Plan, Live, WellFormed
  <2>3. handler'[h] = Idle
    BY <1>1, <1>3, <1>5, <2>1, <2>2 DEF SkipCluster, NothingToRemove, Working, Objects, Listed
  <2> QED
    BY <1>2, <2>1, <2>3, Returns
<1>6. CASE CommitCluster(h)
  <2>0. /\ handler[h].step = "commit" /\ handler'[h].step = "creds"
        /\ handler'[h].op = handler[h].op /\ handler'[h].db = handler[h].db
        /\ handler'[h].user = handler[h].user
    BY <1>1, <1>6 DEF CommitCluster, HandlerStates
  <2>1. keyspaces' = IF handler[h].op = "create" THEN keyspaces \cup {handler[h].db}
                                                    ELSE keyspaces \ {handler[h].db}
    BY <1>6, <2>0 DEF CommitCluster, Wanted, Working, Plan
  <2> QED
    BY <1>1, <1>2, <2>0, <2>1, SameOwners DEF Working, Objects, Counts, Plan
<1>7. CASE RejectCluster(h)
  <2>1. handler[h].step = "commit" /\ UNCHANGED keyspaces /\ handler'[h] = Idle
    BY <1>7 DEF RejectCluster
  <2> QED
    BY <1>2, <2>1, Returns
<1> QED
  BY <1>4, <1>5, <1>6, <1>7

LEMMA OneOwner ==
    ASSUME NEW d \in DbIds, \A e \in DbIds \ {d} : creds'[e] = creds[e]
    PROVE  Listed' = IF Live(d)' THEN Listed \cup {d} ELSE Listed \ {d}
<1>1. \A e : e \in Listed' <=> e \in (IF Live(d)' THEN Listed \cup {d} ELSE Listed \ {d})
  BY DEF Listed, Live
<1> QED
  BY <1>1

LEMMA CredentialSteps ==
    ASSUME CalmInv, TypeOK', NEW h \in Handlers, Working(h), Succeeds,
           \/ SaveCredentials(h) \/ SaveCredentialsFails(h) \/ DeleteCredentials(h)
           \/ RotateReadOwner(h) \/ UpdateCredentials(h)
    PROVE  Working(h)'
<1> USE DEF CalmInv, OwnerInv, TypeInv, TypeOK
<1> USE DEF At, Goto, Finish, Unstored, Uncounted
<1>1. PICK d \in DbIds, u \in Users : d = handler[h].db /\ u = handler[h].user
  BY DEF WellFormed, SaveCredentials, SaveCredentialsFails, DeleteCredentials,
         RotateReadOwner, UpdateCredentials
<1>2. UNCHANGED <<keyspaces, ssl, autoscale, usage>>
  BY DEF SaveCredentials, SaveCredentialsFails, DeleteCredentials,
         RotateReadOwner, UpdateCredentials, cluster, sidecars, usageStore
<1>3. ~Fails("creds")
  BY DEF Succeeds, Fails
<1>4. CASE SaveCredentials(h)
  <2>1. /\ handler[h].op = "create" /\ handler[h].step = "creds" /\ handler'[h].step = "ssl"
        /\ handler'[h].op = "create" /\ handler'[h].db = d /\ handler'[h].user = u
    BY <1>1, <1>4 DEF SaveCredentials, HandlerStates
  <2>2. creds[d] = NoOwner /\ creds' = [creds EXCEPT ![d] = u]
    BY <1>1, <1>4, <2>1 DEF SaveCredentials, OwnIds, Pending
  <2>3. Listed' = Listed \cup {d} /\ d \notin Listed /\ Live(d)'
    <3>1. ~Live(d) /\ Live(d)' /\ \A e \in DbIds \ {d} : creds'[e] = creds[e]
      BY <1>1, <2>2, IdAssumption DEF Live
    <3> QED
      BY <1>1, <3>1, OneOwner DEF Listed
  <2>4. \A v \in Users : Count(v)' = IF v = u THEN Count(v) + 1 ELSE Count(v)
    <3> TAKE v \in Users
    <3>1. CASE v = u
      <4>1. Owned(v)' = Owned(v) \cup {d} /\ d \notin Owned(v)
        BY <1>1, <2>2, <3>1, IdAssumption DEF Owned
      <4>2. IsFiniteSet(Owned(v))
        BY IdAssumption, FS_Subset DEF Owned
      <4>3. Cardinality(Owned(v) \cup {d}) = Cardinality(Owned(v)) + 1
        BY <4>1, <4>2, FS_AddElement
      <4> QED
        BY <3>1, <4>1, <4>3 DEF Count
    <3>2. CASE v # u
      <4>1. Owned(v)' = Owned(v)
        BY <1>1, <2>2, <3>2, IdAssumption DEF Owned
      <4> QED
        BY <1>1, <3>2, <4>1 DEF Count
    <3> QED
      BY <1>1, <3>1, <3>2
  <2>5. Objects(h)'
    BY <1>1, <1>2, <2>1, <2>3 DEF Working, Objects
  <2>6. Counts(h)'
    BY <1>1, <1>2, <2>1, <2>4, CountType, BoundAssumption DEF Working, Counts, Limited
  <2> QED
    BY <1>1, <2>1, <2>3, <2>5, <2>6 DEF Working, Plan
<1>5. CASE DeleteCredentials(h)
  <2>1. /\ handler[h].op = "delete" /\ handler[h].step = "creds" /\ handler'[h].step = "ssl"
        /\ handler'[h].op = "delete" /\ handler'[h].db = d /\ handler'[h].user = u
    BY <1>1, <1>5 DEF DeleteCredentials, HandlerStates
  <2>2. creds[d] = u
    BY <1>1, <2>1 DEF Working, Plan
  <2>3. creds' = [creds EXCEPT ![d] = Deleted]
    BY <1>1, <1>3, <1>5, <2>2 DEF DeleteCredentials, Live
  <2>4. Listed' = Listed \ {d} /\ d \in Listed /\ ~Live(d)'
    <3>1. Live(d) /\ ~Live(d)' /\ \A e \in DbIds \ {d} : creds'[e] = creds[e]
      BY <1>1, <2>2, <2>3, IdAssumption DEF Live
    <3> QED
      BY <1>1, <3>1, OneOwner DEF Listed
  <2>5. \A v \in Users : Count(v)' <= Count(v)
    <3> TAKE v \in Users
    <3>1. Owned(v)' \subseteq Owned(v)
      BY <1>1, <2>3, IdAssumption DEF Owned
    <3>2. IsFiniteSet(Owned(v))
      BY IdAssumption, FS_Subset DEF Owned
    <3> QED
      BY <1>1, <3>1, <3>2, FS_Subset DEF Count
  <2>6. Objects(h)'
    BY <1>1, <1>2, <2>1, <2>4 DEF Working, Objects
  <2>7. Counts(h)'
    BY <1>1, <1>2, <2>1, <2>5, CountType, BoundAssumption DEF Working, Counts, Limited
  <2> QED
    BY <1>1, <2>1, <2>4, <2>6, <2>7 DEF Working, Plan
<1>6. CASE RotateReadOwner(h)
  <2>1. /\ handler[h].op = "rotate" /\ handler[h].step = "owner" /\ UNCHANGED creds
        /\ creds[d] = u
    BY <1>1, <1>6 DEF RotateReadOwner, Working, Plan
  <2>2. /\ handler'[h].op = "rotate" /\ handler'[h].step = "update"
        /\ handler'[h].db = d /\ handler'[h].user = u
    BY <1>1, <1>3, <1>6, <2>1 DEF RotateReadOwner, HandlerStates
  <2> QED
    BY <1>1, <1>2, <2>1, <2>2, SameOwners DEF Working, Objects, Counts, Plan
<1>7. CASE UpdateCredentials(h)
  <2>1. handler[h].op = "rotate" /\ handler[h].step = "update" /\ handler'[h] = Idle
    BY <1>1, <1>7 DEF UpdateCredentials
  <2>2. UNCHANGED creds
    BY <1>1, <1>3, <1>7, <2>1 DEF UpdateCredentials, Working, Plan
  <2> QED
    BY <1>1, <1>2, <2>1, <2>2, Returns
<1> QED
  BY <1>1, <1>3, <1>4, <1>5, <1>6, <1>7 DEF SaveCredentialsFails

LEMMA SidecarSteps ==
    ASSUME CalmInv, TypeOK', NEW h \in Handlers, Working(h), Succeeds,
           \/ SaveSSLCertificates(h) \/ DeleteSSLCertificates(h)
           \/ SaveAutoscale(h) \/ DeleteAutoscale(h)
    PROVE  Working(h)'
<1> USE DEF CalmInv, OwnerInv, TypeInv, TypeOK
<1> USE DEF At, Goto, Finish, Unstored, Uncounted
<1>1. PICK d \in DbIds, u \in Users : d = handler[h].db /\ u = handler[h].user
  BY DEF WellFormed, SaveSSLCertificates, DeleteSSLCertificates, SaveAutoscale,
         DeleteAutoscale
<1>2. UNCHANGED <<creds, keyspaces, usage>>
  BY DEF SaveSSLCertificates, DeleteSSLCertificates, SaveAutoscale, DeleteAutoscale,
         cluster, usageStore
<1>3. ~Fails("sidecar")
  BY DEF Succeeds, Fails
<1>4. CASE SaveSSLCertificates(h)
  <2>1. /\ handler[h].op = "create" /\ handler[h].step = "ssl" /\ handler'[h].step = "count"
        /\ handler'[h].op = "create" /\ handler'[h].db = d /\ handler'[h].user = u
    BY <1>1, <1>4 DEF SaveSSLCertificates, HandlerStates
  <2>2. UNCHANGED autoscale /\ ssl' = ssl \cup {d} /\ d \in Listed
    BY <1>1, <1>3, <1>4, <2>1 DEF SaveSSLCertificates, Working, Plan, Listed
  <2> QED
    BY <1>1, <1>2, <2>1, <2>2, SameOwners DEF Working, Objects, Counts, Plan
<1>5. CASE DeleteSSLCertificates(h)
  <2>1. /\ handler[h].op = "delete" /\ handler[h].step = "ssl" /\ handler'[h].step = "count"
        /\ handler'[h].op = "delete" /\ handler'[h].db = d /\ handler'[h].user = u
    BY <1>1, <1>5 DEF DeleteSSLCertificates, HandlerStates
  <2>2. UNCHANGED autoscale /\ ssl' = ssl \ {d} /\ d \notin Listed
    BY <1>1, <1>3, <1>5, <2>1 DEF DeleteSSLCertificates, Working, Plan, Listed
  <2> QED
    BY <1>1, <1>2, <2>1, <2>2, SameOwners DEF Working, Objects, Counts, Plan
<1>6. CASE SaveAutoscale(h)
  <2>1. /\ handler[h].op = "autoscale" /\ handler[h].step = "autoscale" /\ handler'[h] = Idle
        /\ UNCHANGED ssl
    BY <1>6 DEF SaveAutoscale
  <2>2. autoscale' = autoscale \cup {d} /\ d \in Listed
    BY <1>1, <1>3, <1>6, <2>1 DEF SaveAutoscale, Working, Plan, Listed, Live
  <2>3. handler'[h].op = "none" /\ handler'[h].step = "idle"
    BY <2>1 DEF Idle
  <2> QED
    BY <1>1, <1>2, <2>1, <2>2, <2>3, SameOwners DEF Working, Objects, Counts, Plan
<1>7. CASE DeleteAutoscale(h)
  <2>1. /\ handler[h].op = "delete" /\ handler[h].step = "autoscale"
        /\ handler'[h].step = "list" /\ UNCHANGED ssl
        /\ handler'[h].op = "delete" /\ handler'[h].db = d /\ handler'[h].user = u
    BY <1>1, <1>7 DEF DeleteAutoscale, HandlerStates
  <2>2. autoscale' = autoscale \ {d}
    BY <1>1, <1>3, <1>7 DEF DeleteAutoscale
  <2> QED
    BY <1>1, <1>2, <2>1, <2>2, SameOwners DEF Working, Objects, Counts, Plan
<1> QED
  BY <1>4, <1>5, <1>6, <1>7

LEMMA CountSteps ==
    ASSUME CalmInv, TypeOK', NEW h \in Handlers, Working(h), Succeeds,
           \/ CountCreated(h) \/ CountDeleted(h) \/ CountOwned(h) \/ CompareCount(h)
           \/ FetchUsage(h)
    PROVE  Working(h)'
<1> USE DEF CalmInv, OwnerInv, TypeInv, TypeOK
<1> USE DEF At, Goto, Finish, Unstored, Uncounted
<1>1. PICK u \in Users : u = handler[h].user
  BY DEF WellFormed, CountCreated, CountDeleted, CountOwned, CompareCount, FetchUsage
<1>2. UNCHANGED <<creds, keyspaces, ssl, autoscale, usage>>
  BY DEF CountCreated, CountDeleted, CountOwned, CompareCount, FetchUsage,
         cluster, sidecars, usageStore
<1>3. ~Fails("usage") /\ ~Fails("list")
  BY DEF Succeeds, Fails
<1>4. CASE CountCreated(h)
  <2>1. /\ handler[h].op = "create" /\ handler[h].step = "count"
        /\ handler'[h].step = "usageFetch" /\ handler'[h].op = "create"
        /\ handler'[h].db = handler[h].db /\ handler'[h].user = u
        /\ handler'[h].n = usage[u] + 1
    BY <1>1, <1>3, <1>4 DEF CountCreated, WillStore, HandlerStates
  <2>2. usage[u] + 1 >= Count(u)
    BY <1>1, <2>1 DEF Working, Counts
  <2> QED
    BY <1>1, <1>2, <2>1, <2>2, SameOwners DEF Working, Objects, Counts, Plan
<1>5. CASE CountDeleted(h)
  <2>1. handler[h].op = "delete" /\ handler[h].step = "count" /\ ~Live(handler[h].db)
    BY <1>5 DEF CountDeleted, Working, Plan
  <2>2. /\ handler'[h].step = "autoscale" /\ handler'[h].op = "delete"
        /\ handler'[h].db = handler[h].db /\ handler'[h].user = u
    BY <1>1, <1>3, <1>5, <2>1 DEF CountDeleted, AfterCount, HandlerStates
  <2> QED
    BY <1>1, <1>2, <2>1, <2>2, SameOwners DEF Working, Objects, Counts, Plan
<1>6. CASE CountOwned(h)
  <2>1. handler[h].op = "usage" /\ handler[h].step = "list"
    BY <1>6 DEF CountOwned
  <2>2. CASE handler'[h] = Idle
    BY <1>2, <2>1, <2>2, Returns
  <2>3. CASE handler'[h] # Idle
    <3>1. /\ handler'[h].op = "usage" /\ handler'[h].step = "reread"
          /\ handler'[h].db = handler[h].db /\ handler'[h].user = u
          /\ handler'[h].n = Count(u)
      BY <1>1, <1>3, <1>6, <2>1, <2>3 DEF CountOwned, HandlerStates, Count
    <3> QED
      BY <1>1, <1>2, <2>1, <3>1, CountType, SameOwners DEF Working, Objects, Counts, Plan
  <2> QED
    BY <2>2, <2>3
<1>7. CASE CompareCount(h)
  <2>1. handler[h].op = "usage" /\ handler[h].step = "reread"
    BY <1>7 DEF CompareCount
  <2>2. CASE handler'[h] = Idle
    BY <1>2, <2>1, <2>2, Returns
  <2>3. CASE handler'[h] # Idle
    <3>1. /\ handler'[h].op = "usage" /\ handler'[h].step = "usageFetch"
          /\ handler'[h].db = handler[h].db /\ handler'[h].user = u
          /\ handler'[h].n = handler[h].n
      BY <1>1, <1>3, <1>7, <2>1, <2>3 DEF CompareCount, HandlerStates
    <3> QED
      BY <1>1, <1>2, <2>1, <3>1, SameOwners DEF Working, Objects, Counts, Plan
  <2> QED
    BY <2>2, <2>3
<1>8. CASE FetchUsage(h)
  <2>1. handler[h].step = "usageFetch" /\ usageFresh' = usageFresh \cup {h}
    BY <1>3, <1>8 DEF FetchUsage
  <2>2. /\ handler'[h].step = "usageCommit" /\ handler'[h].op = handler[h].op
        /\ handler'[h].db = handler[h].db /\ handler'[h].user = u
        /\ handler'[h].n = handler[h].n
    BY <1>1, <1>3, <1>8 DEF FetchUsage, HandlerStates
  <2> QED
    BY <1>1, <1>2, <2>1, <2>2, SameOwners DEF Working, Objects, Counts, Plan
<1> QED
  BY <1>4, <1>5, <1>6, <1>7, <1>8

LEMMA LastSteps ==
    ASSUME CalmInv, TypeOK', NEW h \in Handlers, Working(h), Succeeds,
           \/ CommitUsage(h) \/ RejectUsage(h) \/ ListRemaining(h) \/ WipeKeyspaces(h)
    PROVE  Working(h)'
<1> USE DEF CalmInv, OwnerInv, TypeInv, TypeOK
<1> USE DEF At, Goto, Finish, Unstored, Uncounted
<1>1. UNCHANGED <<creds, ssl, autoscale>>
  BY DEF CommitUsage, RejectUsage, ListRemaining, WipeKeyspaces, sidecars
<1>2. ~Fails("usage") /\ ~Fails("list") /\ ~Fails("cluster")
  BY DEF Succeeds, Fails
<1>3. CASE CommitUsage(h)
  <2>1. /\ handler[h].step = "usageCommit" /\ handler[h].op \in {"create", "usage"}
        /\ handler[h].n >= Count(handler[h].user)
    BY <1>3 DEF CommitUsage, Working, Plan
  <2>2. PICK u \in Users : u = handler[h].user
    BY <2>1 DEF WellFormed
  <2>3. handler'[h] = Idle /\ UNCHANGED keyspaces /\ usage' = [usage EXCEPT ![u] = handler[h].n]
    BY <1>3, <2>1, <2>2 DEF CommitUsage, AfterCount, cluster
  <2>4. handler'[h].op = "none" /\ handler'[h].step = "idle"
    BY <2>3 DEF Idle
  <2>5. Objects(h)' /\ Plan(h)'
    BY <1>1, <2>1, <2>3, <2>4, SameOwners DEF Working, Objects, Plan
  <2>6. \A v \in Users : usage'[v] >= Count(v)
    BY <2>1, <2>2, <2>3 DEF Working, Counts
  <2>7. Limited => \A v \in Users : Count(v) <= MaxDatabases
    BY <2>1, CountType, BoundAssumption DEF Working, Counts, Limited
  <2>8. Counts(h)'
    BY <1>1, <2>4, <2>6, <2>7, SameOwners, CountType, BoundAssumption DEF Counts, Limited
  <2> QED
    BY <2>5, <2>8 DEF Working
<1>4. CASE RejectUsage(h)
  <2>1. handler[h].step = "usageCommit" /\ handler[h].op = "usage"
    BY <1>2, <1>4 DEF RejectUsage, Working, Plan
  <2>2. handler'[h] = Idle /\ UNCHANGED <<keyspaces, usage>>
    BY <1>4, <2>1 DEF RejectUsage, AfterCount, cluster
  <2> QED
    BY <1>1, <2>1, <2>2, Returns
<1>5. CASE ListRemaining(h)
  <2>1. handler[h].op = "delete" /\ handler[h].step = "list" /\ UNCHANGED <<keyspaces, usage>>
    BY <1>5 DEF ListRemaining, cluster, usageStore
  <2>2. CASE handler'[h] = Idle
    BY <1>1, <2>1, <2>2, Returns
  <2>3. CASE handler'[h] # Idle
    <3>1. /\ handler'[h].op = "delete" /\ handler'[h].step = "wipe" /\ Listed = {}
          /\ handler'[h].db = handler[h].db /\ handler'[h].user = handler[h].user
      BY <1>2, <1>5, <2>1, <2>3 DEF ListRemaining, HandlerStates
    <3> QED
      BY <1>1, <2>1, <3>1, SameOwners DEF Working, Objects, Counts, Plan
  <2> QED
    BY <2>2, <2>3
<1>6. CASE WipeKeyspaces(h)
  <2>1. /\ handler[h].op = "delete" /\ handler[h].step = "wipe" /\ UNCHANGED usage
        /\ keyspaces' = {} /\ handler'[h] = Idle
    BY <1>2, <1>6 DEF WipeKeyspaces, usageStore
  <2>2. Listed = {} /\ handler'[h].op = "none" /\ handler'[h].step = "idle"
    BY <2>1 DEF Working, Plan, Idle
  <2> QED
    BY <1>1, <2>1, <2>2, SameOwners DEF Working, Objects, Counts, Plan
<1> QED
  BY <1>3, <1>4, <1>5, <1>6

LEMMA NextCalmInv == CalmInv /\ [Next]_vars => CalmInv'
<1> SUFFICES ASSUME CalmInv, [Next]_vars, calm' PROVE AloneInv'
  BY NextOwnerInv, CalmIsBoolean DEF CalmInv, AloneInv, OwnerInv, TypeInv
<1>0. TypeOK'
  BY NextOwnerInv DEF CalmInv, OwnerInv, TypeInv
<1>1. CASE UNCHANGED vars
  <2>1. UNCHANGED <<creds, keyspaces, ssl, autoscale, usage, usageFresh, handler, calm>>
    BY <1>1 DEF vars
  <2>2. Settled => Settled'
    BY <2>1, SameOwners DEF Settled
  <2>3. \A h \in Handlers : Working(h) => Working(h)'
    BY <2>1, SameOwners DEF Working, Objects, Counts, Plan, At
  <2> QED
    BY <2>1, <2>2, <2>3 DEF CalmInv, AloneInv, BusyOne, Quiet, Idle
<1>2. ASSUME NEW h \in Handlers, HandlerStep(h)
      PROVE  AloneInv'
  <2>1. calm /\ Succeeds /\ Working(h) /\ handler[h] # Idle
    BY <1>2, CalmStep
  <2>2. Working(h)'
    BY <1>0, <1>2, <2>1, ClusterSteps, CredentialSteps, SidecarSteps, CountSteps, LastSteps
    DEF HandlerStep
  <2>3. \A g \in Handlers \ {h} : handler'[g] = handler[g]
    BY <1>2, OthersStay
  <2> QED
    BY <1>0, <2>1, <2>2, <2>3, AloneGoesOn DEF CalmInv
<1>3. ASSUME NEW h \in Handlers, StartRequest(h)
      PROVE  AloneInv'
  BY <1>0, <1>3, StartAlone
<1>4. ASSUME NEW h \in Handlers, Crash(h)
      PROVE  FALSE
  BY <1>4 DEF Crash, Fails
<1> QED
  BY <1>1, <1>2, <1>3, <1>4 DEF Next

LEMMA CalmAlways == Spec => []CalmInv
BY InitCalmInv, NextCalmInv, PTL DEF Spec

\* As long as requests come one at a time and no call fails, no user has more
\* databases than the tier allows (CreateDatabase, the check of the stored
\* count), if nobody had more to begin with.
THEOREM QuotaKept ==
    ASSUME Cardinality(Resident) <= MaxDatabases
    PROVE  Spec => []CalmWithinQuota
<1>1. ASSUME CalmInv PROVE CalmWithinQuota
  <2> SUFFICES ASSUME calm, MaxDatabases # Unlimited, NEW u \in Users
               PROVE  Cardinality(Owned(u)) <= MaxDatabases
    BY DEF CalmWithinQuota
  <2>1. CASE Quiet
    BY <1>1, <2>1 DEF CalmInv, AloneInv, Settled, Count, Limited
  <2>2. CASE ~Quiet
    <3>1. PICK h \in Handlers : Working(h)
      BY <1>1, <2>2 DEF Quiet, CalmInv, AloneInv
    <3>2. Count(u) <= MaxDatabases
      BY <3>1, CountType, BoundAssumption DEF Working, Counts, Limited
    <3> QED
      BY <3>2 DEF Count
  <2> QED
    BY <2>1, <2>2
<1> QED
  BY <1>1, CalmAlways, PTL

\* Requests that come one at a time, with no call that fails, leave nothing of a
\* deleted database behind and nothing of a listed one missing (CreateDatabase,
\* DeleteDatabase).
THEOREM NothingLeftOver == Spec => []CalmNoLeftovers
<1>1. CalmInv => CalmNoLeftovers
  BY DEF CalmInv, AloneInv, Settled, CalmNoLeftovers
<1> QED
  BY <1>1, CalmAlways, PTL

\* Nor do they leave a count below the number of databases (usage.go).
THEOREM CountCovers == Spec => []CalmCountCovers
<1>1. CalmInv => CalmCountCovers
  BY DEF CalmInv, AloneInv, Settled, CalmCountCovers, Count
<1> QED
  BY <1>1, CalmAlways, PTL
=============================================================================
