---------------------------- MODULE Provisioning ----------------------------
(***************************************************************************)
(* The life of a database in the Go API (api/cmd/server/main.go with the   *)
(* packages secrets, vitess and tiers): CreateDatabase, DeleteDatabase,    *)
(* RotateCredentials, SetAutoscale and GetUsage.  All state lives in       *)
(* Kubernetes objects; a handler is a goroutine of one of the replicas     *)
(* that makes one API-server call after another, so every call is one      *)
(* action and the calls of all handlers interleave.                        *)
(*                                                                         *)
(* An object fetched with Get and written back with Update carries its     *)
(* resourceVersion: the API server refuses the Update (409 Conflict) when  *)
(* the object was written in between.  "fresh" and "usageFresh" hold the   *)
(* handlers whose fetched version is still the current one.                *)
(***************************************************************************)
EXTENDS Integers, FiniteSets

CONSTANTS
    Users,         \* the tenants
    DbIds,         \* the short ids that generateShortID may mint
    NoOwner,       \* owner of an id that names no database (yet)
    Deleted,       \* owner of an id whose database is gone
    Handlers,      \* slots for the handlers that run at the same time
    Resident,      \* databases that exist at the start and that nobody deletes
    MaxDatabases,  \* the MaxDatabases of the tenants' tier, Unlimited if none
    Operations,    \* the operations that tenants ask for
    Faulty,        \* the API-server calls that may fail
    MaxFaults      \* bound on failed calls and on handlers lost to a crash

Unlimited == -1

Calls == {"cluster", "creds", "sidecar", "usage", "list", "crash"}

ASSUME IdAssumption ==
    /\ Resident \subseteq DbIds
    /\ NoOwner \notin Users
    /\ Deleted \notin Users
    /\ NoOwner # Deleted
    /\ NoOwner \notin DbIds
    /\ IsFiniteSet(DbIds)

ASSUME BoundAssumption ==
    /\ MaxDatabases \in Nat \cup {Unlimited}
    /\ Operations \subseteq {"create", "delete", "rotate", "autoscale", "usage"}
    /\ Faulty \subseteq Calls
    /\ MaxFaults \in Nat

VARIABLES
    creds,        \* owner label of the secret db-<id>-creds
    keyspaces,    \* spec.keyspaces of the one VitessCluster object
    ssl,          \* ids that have a secret db-<id>-ssl-client
    autoscale,    \* ids that have a secret autoscale-<id>
    usage,        \* database_count in the secret usage-<user>
    fresh,        \* handlers that hold the current VitessCluster version
    usageFresh,   \* handlers that hold the current version of the usage secret
    handler,      \* what each handler is doing
    minted,       \* ids handed out by generateShortID
    retired,      \* ids whose keyspace a delete, or the clean-up of a failed
                  \* create, has removed
    faults,       \* failures left
    calm          \* history: no call has failed, no two handlers were at work

cluster    == <<keyspaces, fresh>>
usageStore == <<usage, usageFresh>>
sidecars   == <<ssl, autoscale>>
history    == <<minted, retired>>
vars == <<creds, keyspaces, ssl, autoscale, usage, fresh, usageFresh,
          handler, minted, retired, faults, calm>>

Ops == {"none", "create", "cleanup", "delete", "rotate", "autoscale", "usage"}
Steps == {"idle", "fetch", "commit", "creds", "ssl", "count", "usageFetch",
          "usageCommit", "autoscale", "list", "wipe", "owner", "update",
          "reread"}

\* "n" is the count a handler computed, "snap" the keyspace list it fetched.
\* An idle handler has user NoOwner and database NoOwner.
Idle == [op |-> "none", step |-> "idle", user |-> NoOwner, db |-> NoOwner,
         n |-> 0, snap |-> {}]

HandlerStates ==
    [op: Ops, step: Steps, user: Users \cup {NoOwner}, db: DbIds \cup {NoOwner},
     n: Nat, snap: SUBSET DbIds]

TypeOK ==
    /\ creds \in [DbIds -> Users \cup {NoOwner, Deleted}]
    /\ keyspaces \subseteq DbIds
    /\ ssl \subseteq DbIds
    /\ autoscale \subseteq DbIds
    /\ usage \in [Users -> Nat]
    /\ fresh \subseteq Handlers
    /\ usageFresh \subseteq Handlers
    /\ handler \in [Handlers -> HandlerStates]
    /\ minted \subseteq DbIds
    /\ retired \subseteq DbIds
    /\ faults \in Nat
    /\ calm \in BOOLEAN

Live(d) == creds[d] \in Users

\* The databases that ListAll would return.
Listed == {d \in DbIds : Live(d)}

\* What GetUsage counts: the listed databases that carry the user's label.
Owned(u) == {d \in DbIds : creds[d] = u}

At(h, op, step) == handler[h].op = op /\ handler[h].step = step

Goto(h, step) == handler' = [handler EXCEPT ![h].step = step]

\* The handler returns, with whatever answer.
Finish(h) == handler' = [handler EXCEPT ![h] = Idle]

Fails(call) ==
    /\ call \in Faulty
    /\ faults > 0
    /\ faults' = faults - 1
    /\ calm' = FALSE

Succeeds == UNCHANGED <<faults, calm>>

Quiet == \A h \in Handlers : handler[h] = Idle

\* A request comes in, while others may still be at work.
Begins == calm' = (calm /\ Quiet) /\ UNCHANGED faults

Init ==
    /\ \E f \in [Resident -> Users] :
        /\ creds = [d \in DbIds |-> IF d \in Resident THEN f[d] ELSE NoOwner]
        /\ usage = [u \in Users |-> Cardinality({d \in Resident : f[d] = u})]
    /\ keyspaces = Resident
    /\ ssl = Resident
    /\ autoscale = {}
    /\ fresh = {}
    /\ usageFresh = {}
    /\ handler = [h \in Handlers |-> Idle]
    /\ minted = Resident
    /\ retired = {}
    /\ faults = MaxFaults
    /\ calm = TRUE
-----------------------------------------------------------------------------
(***************************************************************************)
(* Requests.  Each one starts with the reads that decide whether it goes   *)
(* on; a request that is refused there changes nothing.                    *)
(***************************************************************************)

Start(h, op, step, u, d) ==
    /\ handler[h] = Idle
    /\ op \in Operations
    /\ handler' = [handler EXCEPT
                     ![h] = [Idle EXCEPT !.op = op, !.step = step,
                                         !.user = u, !.db = d]]
    /\ Begins
    /\ UNCHANGED <<creds, cluster, sidecars, usageStore, retired>>

\* Mutant: off by one at the limit.
WithinLimitOffByOne(u) == MaxDatabases = Unlimited \/ usage[u] <= MaxDatabases

\* The tier check reads the stored count, not the databases.
WithinLimit(u) == MaxDatabases = Unlimited \/ usage[u] < MaxDatabases

StartCreate(h, u, d) ==
    /\ WithinLimit(u)
    /\ d \notin minted
    /\ minted' = minted \cup {d}
    /\ Start(h, "create", "fetch", u, d)

StartDelete(h, u, d) ==
    /\ creds[d] = u
    /\ d \notin Resident
    /\ Start(h, "delete", "fetch", u, d)
    /\ UNCHANGED minted

StartRotate(h, u, d) ==
    /\ creds[d] = u
    /\ Start(h, "rotate", "owner", u, d)
    /\ UNCHANGED minted

StartAutoscale(h, u, d) ==
    /\ creds[d] = u
    /\ Start(h, "autoscale", "autoscale", u, d)
    /\ UNCHANGED minted

\* GetUsage first reads the stored count, before it lists the databases.
StartUsage(h, u) ==
    /\ handler[h] = Idle
    /\ "usage" \in Operations
    /\ handler' = [handler EXCEPT
                     ![h] = [Idle EXCEPT !.op = "usage", !.step = "list",
                                         !.user = u, !.n = usage[u]]]
    /\ Begins
    /\ UNCHANGED <<creds, cluster, sidecars, usageStore, history>>

StartRequest(h) ==
    \E u \in Users :
        \/ StartUsage(h, u)
        \/ \E d \in DbIds : \/ StartCreate(h, u, d)
                            \/ StartDelete(h, u, d)
                            \/ StartRotate(h, u, d)
                            \/ StartAutoscale(h, u, d)

-----------------------------------------------------------------------------
(***************************************************************************)
(* The keyspace list, read and replaced by Manager.CreateDatabase and      *)
(* Manager.DeleteDatabase.  The clean-up of a failed create runs the       *)
(* latter and ignores its outcome.                                         *)
(***************************************************************************)

\* The list the handler wants to put in place of the one it fetched.
Wanted(h) ==
    LET r == handler[h]
    IN  IF r.op = "create" THEN r.snap \cup {r.db} ELSE r.snap \ {r.db}

\* Manager.DeleteDatabase returns nil when it does not find the keyspace.
NothingToRemove(h) == handler[h].op # "create" /\ handler[h].db \notin keyspaces

FetchCluster(h) ==
    /\ handler[h].step = "fetch"
    /\ ~NothingToRemove(h)
    /\ handler' = [handler EXCEPT ![h].step = "commit", ![h].snap = keyspaces]
    /\ fresh' = fresh \cup {h}
    /\ Succeeds
    /\ UNCHANGED <<creds, keyspaces, sidecars, usageStore, history>>

\* Nothing to remove, or the Get of DeleteDatabase failed, which is taken to
\* mean the same: a delete goes on to the secrets.  A create gives up.
SkipCluster(h) ==
    /\ handler[h].step = "fetch"
    /\ (NothingToRemove(h) /\ Succeeds) \/ Fails("cluster")
    /\ IF handler[h].op = "delete" THEN Goto(h, "creds") ELSE Finish(h)
    /\ UNCHANGED <<creds, cluster, sidecars, usageStore, history>>

\* Mutant: the list is written without the version of the fetched object.
CommitClusterUnversioned(h) ==
    /\ handler[h].step = "commit"
    /\ keyspaces' = Wanted(h)
    /\ fresh' = {}
    /\ retired' = IF handler[h].op = "create"
                    THEN retired ELSE retired \cup {handler[h].db}
    /\ IF handler[h].op = "cleanup" THEN Finish(h) ELSE Goto(h, "creds")
    /\ Succeeds
    /\ UNCHANGED <<creds, sidecars, usageStore, minted>>

\* An Update of the fetched object, which must still be the current version.
CommitCluster(h) ==
    /\ handler[h].step = "commit"
    /\ h \in fresh
    /\ keyspaces' = Wanted(h)
    /\ fresh' = {}
    /\ retired' = IF handler[h].op = "create"
                    THEN retired ELSE retired \cup {handler[h].db}
    /\ IF handler[h].op = "cleanup" THEN Finish(h) ELSE Goto(h, "creds")
    /\ Succeeds
    /\ UNCHANGED <<creds, sidecars, usageStore, minted>>

\* A conflict, or a failed Update: the request ends with an error.
RejectCluster(h) ==
    /\ handler[h].step = "commit"
    /\ (h \notin fresh /\ Succeeds) \/ Fails("cluster")
    /\ fresh' = fresh \ {h}
    /\ Finish(h)
    /\ UNCHANGED <<creds, keyspaces, sidecars, usageStore, history>>

-----------------------------------------------------------------------------
(***************************************************************************)
(* The secrets of a database.                                              *)
(***************************************************************************)

SaveCredentials(h) ==
    /\ At(h, "create", "creds")
    /\ creds' = [creds EXCEPT ![handler[h].db] = handler[h].user]
    /\ Goto(h, "ssl")
    /\ Succeeds
    /\ UNCHANGED <<cluster, sidecars, usageStore, history>>

\* The call reports an error, and may have taken effect all the same (the
\* request's context was cancelled).  The keyspace is cleaned up either way.
SaveCredentialsFails(h) ==
    /\ At(h, "create", "creds")
    /\ Fails("creds")
    /\ creds' \in {creds, [creds EXCEPT ![handler[h].db] = handler[h].user]}
    /\ handler' = [handler EXCEPT ![h].op = "cleanup", ![h].step = "fetch"]
    /\ UNCHANGED <<cluster, sidecars, usageStore, history>>

\* A failure (also: no such secret) is logged and the handler goes on.
DeleteCredentials(h) ==
    /\ At(h, "delete", "creds")
    /\ \/ /\ Succeeds
          /\ creds' = IF Live(handler[h].db)
                        THEN [creds EXCEPT ![handler[h].db] = Deleted] ELSE creds
       \/ Fails("creds") /\ UNCHANGED creds
    /\ Goto(h, "ssl")
    /\ UNCHANGED <<cluster, sidecars, usageStore, history>>

SaveSSLCertificates(h) ==
    /\ At(h, "create", "ssl")
    /\ \/ ssl' = ssl \cup {handler[h].db} /\ Succeeds
       \/ UNCHANGED ssl /\ Fails("sidecar")
    /\ Goto(h, "count")
    /\ UNCHANGED <<creds, cluster, autoscale, usageStore, history>>

DeleteSSLCertificates(h) ==
    /\ At(h, "delete", "ssl")
    /\ \/ ssl' = ssl \ {handler[h].db} /\ Succeeds
       \/ UNCHANGED ssl /\ Fails("sidecar")
    /\ Goto(h, "count")
    /\ UNCHANGED <<creds, cluster, autoscale, usageStore, history>>

\* The ownership label that UpdateCredentials will write is read again; when
\* the secret is gone by now it is "" and UpdateCredentials refuses.
RotateReadOwner(h) ==
    /\ At(h, "rotate", "owner")
    /\ LET owner == creds[handler[h].db]
       IN  \/ /\ owner \in Users
              /\ handler' = [handler EXCEPT ![h].step = "update",
                                            ![h].user = owner]
              /\ Succeeds
           \/ owner \notin Users /\ Finish(h) /\ Succeeds
           \/ Fails("creds") /\ Finish(h)
    /\ UNCHANGED <<creds, cluster, sidecars, usageStore, history>>

\* Mutant: Create when the Update finds no secret, as saveAutoscaleSettings does.
UpdateCredentialsUpsert(h) ==
    /\ At(h, "rotate", "update")
    /\ creds' = [creds EXCEPT ![handler[h].db] = handler[h].user]
    /\ Finish(h)
    /\ Succeeds
    /\ UNCHANGED <<cluster, sidecars, usageStore, history>>

\* Update of a freshly built secret: unconditional, but it never creates one.
UpdateCredentials(h) ==
    /\ At(h, "rotate", "update")
    /\ \/ /\ Succeeds
          /\ creds' = IF Live(handler[h].db)
                        THEN [creds EXCEPT ![handler[h].db] = handler[h].user]
                        ELSE creds
       \/ Fails("creds") /\ UNCHANGED creds
    /\ Finish(h)
    /\ UNCHANGED <<cluster, sidecars, usageStore, history>>

\* Update, and Create when that fails.
SaveAutoscale(h) ==
    /\ At(h, "autoscale", "autoscale")
    /\ \/ autoscale' = autoscale \cup {handler[h].db} /\ Succeeds
       \/ UNCHANGED autoscale /\ Fails("sidecar")
    /\ Finish(h)
    /\ UNCHANGED <<creds, cluster, ssl, usageStore, history>>

\* Mutant: the settings are left behind.
DeleteAutoscaleForgotten(h) ==
    /\ At(h, "delete", "autoscale")
    /\ Goto(h, "list")
    /\ Succeeds
    /\ UNCHANGED <<creds, cluster, sidecars, usageStore, history>>

DeleteAutoscale(h) ==
    /\ At(h, "delete", "autoscale")
    /\ \/ autoscale' = autoscale \ {handler[h].db} /\ Succeeds
       \/ UNCHANGED autoscale /\ Fails("sidecar")
    /\ Goto(h, "list")
    /\ UNCHANGED <<creds, cluster, ssl, usageStore, history>>

-----------------------------------------------------------------------------
(***************************************************************************)
(* The database count of a user.  writeUsage fetches the secret again, so  *)
(* the version check covers only its own Get and Update: the count that    *)
(* was read before may be stale by then.                                   *)
(***************************************************************************)

\* Counting ends a create and a GetUsage; a delete goes on whatever happened.
AfterCount(h) ==
    IF handler[h].op = "delete" THEN Goto(h, "autoscale") ELSE Finish(h)

\* The handler will store count n.
WillStore(h, n) ==
    handler' = [handler EXCEPT ![h].step = "usageFetch", ![h].n = n]

\* Mutant: the count that was read is stored again.
CountCreatedNotIncremented(h) ==
    /\ At(h, "create", "count")
    /\ WillStore(h, usage[handler[h].user])
    /\ Succeeds
    /\ UNCHANGED <<creds, cluster, sidecars, usageStore, history>>

\* IncrementDatabaseCount after a create: a failure is logged.
CountCreated(h) ==
    /\ At(h, "create", "count")
    /\ \/ WillStore(h, usage[handler[h].user] + 1) /\ Succeeds
       \/ AfterCount(h) /\ Fails("usage")
    /\ UNCHANGED <<creds, cluster, sidecars, usageStore, history>>

Decremented(n) == IF n > 0 THEN n - 1 ELSE n

\* DeleteDatabase asks the secret for the owner after it deleted the secret:
\* the count goes down only if the secret is still there.
CountDeleted(h) ==
    /\ At(h, "delete", "count")
    /\ \/ /\ Live(handler[h].db)
          /\ WillStore(h, Decremented(usage[handler[h].user]))
          /\ Succeeds
       \/ ~Live(handler[h].db) /\ AfterCount(h) /\ Succeeds
       \/ AfterCount(h) /\ Fails("usage")
    /\ UNCHANGED <<creds, cluster, sidecars, usageStore, history>>

\* GetUsage lists the databases and compares with the count it read first.
CountOwned(h) ==
    /\ At(h, "usage", "list")
    /\ LET owned == Cardinality(Owned(handler[h].user))
       IN  \/ /\ owned # handler[h].n
              /\ handler' = [handler EXCEPT ![h].step = "reread", ![h].n = owned]
              /\ Succeeds
           \/ owned = handler[h].n /\ Finish(h) /\ Succeeds
           \/ Finish(h) /\ Fails("list")
    /\ UNCHANGED <<creds, cluster, sidecars, usageStore, history>>

\* Mutant: the reconciliation only ever raises the count.
CompareCountRaiseOnly(h) ==
    /\ At(h, "usage", "reread")
    /\ LET raise == handler[h].n > usage[handler[h].user]
       IN  \/ raise /\ Goto(h, "usageFetch") /\ Succeeds
           \/ ~raise /\ Finish(h) /\ Succeeds
    /\ UNCHANGED <<creds, cluster, sidecars, usageStore, history>>

\* SetDatabaseCount writes only a count that differs from the stored one.
CompareCount(h) ==
    /\ At(h, "usage", "reread")
    /\ LET same == handler[h].n = usage[handler[h].user]
       IN  \/ ~same /\ Goto(h, "usageFetch") /\ Succeeds
           \/ same /\ Finish(h) /\ Succeeds
           \/ Finish(h) /\ Fails("usage")
    /\ UNCHANGED <<creds, cluster, sidecars, usageStore, history>>

FetchUsage(h) ==
    /\ handler[h].step = "usageFetch"
    /\ \/ Goto(h, "usageCommit") /\ usageFresh' = usageFresh \cup {h} /\ Succeeds
       \/ AfterCount(h) /\ UNCHANGED usageFresh /\ Fails("usage")
    /\ UNCHANGED <<creds, cluster, sidecars, usage, history>>

\* An Update that changes nothing leaves the version as it is.
CommitUsage(h) ==
    /\ handler[h].step = "usageCommit"
    /\ h \in usageFresh
    /\ LET u == handler[h].user
       IN  /\ usage' = [usage EXCEPT ![u] = handler[h].n]
           /\ usageFresh' =
                IF usage[u] = handler[h].n
                  THEN usageFresh \ {h}
                  ELSE {g \in usageFresh : handler[g].user # u}
    /\ AfterCount(h)
    /\ Succeeds
    /\ UNCHANGED <<creds, cluster, sidecars, history>>

RejectUsage(h) ==
    /\ handler[h].step = "usageCommit"
    /\ (h \notin usageFresh /\ Succeeds) \/ Fails("usage")
    /\ usageFresh' = usageFresh \ {h}
    /\ AfterCount(h)
    /\ UNCHANGED <<creds, cluster, sidecars, usage, history>>

-----------------------------------------------------------------------------
(***************************************************************************)
(* The clean-up after the last database.                                   *)
(***************************************************************************)

\* Mutant: the clean-up looks only at the databases of the calling user.
ListRemainingOfUser(h) ==
    /\ At(h, "delete", "list")
    /\ \/ Owned(handler[h].user) = {} /\ Goto(h, "wipe")
       \/ Owned(handler[h].user) # {} /\ Finish(h)
    /\ Succeeds
    /\ UNCHANGED <<creds, cluster, sidecars, usageStore, history>>

\* A failed list looks like an empty one.
ListRemaining(h) ==
    /\ At(h, "delete", "list")
    /\ \/ Listed = {} /\ Goto(h, "wipe") /\ Succeeds
       \/ Listed # {} /\ Finish(h) /\ Succeeds
       \/ Goto(h, "wipe") /\ Fails("list")
    /\ UNCHANGED <<creds, cluster, sidecars, usageStore, history>>

\* A merge patch carries no version: it takes out whatever is there by now.
\* The shards and keyspace objects that are deleted next belong to the Vitess
\* operator, which keeps them in line with spec.keyspaces.
WipeKeyspaces(h) ==
    /\ At(h, "delete", "wipe")
    /\ \/ keyspaces' = {} /\ fresh' = {} /\ Succeeds
       \/ UNCHANGED cluster /\ Fails("cluster")
    /\ Finish(h)
    /\ UNCHANGED <<creds, sidecars, usageStore, history>>

-----------------------------------------------------------------------------
\* The replica goes down, or the rollout ends the handler, between two calls.
Crash(h) ==
    /\ handler[h] # Idle
    /\ Fails("crash")
    /\ Finish(h)
    /\ fresh' = fresh \ {h}
    /\ usageFresh' = usageFresh \ {h}
    /\ UNCHANGED <<creds, keyspaces, sidecars, usage, history>>

HandlerStep(h) ==
    \/ FetchCluster(h)        \/ SkipCluster(h)
    \/ CommitCluster(h)       \/ RejectCluster(h)
    \/ SaveCredentials(h)     \/ SaveCredentialsFails(h)
    \/ DeleteCredentials(h)
    \/ SaveSSLCertificates(h) \/ DeleteSSLCertificates(h)
    \/ RotateReadOwner(h)     \/ UpdateCredentials(h)
    \/ SaveAutoscale(h)       \/ DeleteAutoscale(h)
    \/ CountCreated(h)        \/ CountDeleted(h)
    \/ CountOwned(h)          \/ CompareCount(h)
    \/ FetchUsage(h)          \/ CommitUsage(h)  \/ RejectUsage(h)
    \/ ListRemaining(h)       \/ WipeKeyspaces(h)

Next == \E h \in Handlers : StartRequest(h) \/ HandlerStep(h) \/ Crash(h)

Spec == Init /\ [][Next]_vars

(***************************************************************************)
(* A started handler goes on until it returns.  An open dashboard polls    *)
(* GetUsage every minute (useUsage, refetchInterval), and a handler slot   *)
(* is only an artefact of the model: the poll is not starved by others.    *)
(***************************************************************************)
Fairness ==
    /\ \A h \in Handlers : WF_vars(HandlerStep(h))
    /\ \A u \in Users : SF_vars(\E h \in Handlers : StartUsage(h, u))

FairSpec == Spec /\ Fairness

-----------------------------------------------------------------------------
(***************************************************************************)
(* Properties.                                                             *)
(***************************************************************************)

\* No handler's write of the keyspace list loses or brings back the keyspace
\* of another request: between two versions of the list, a handler adds or
\* removes its own keyspace and nothing else, and only the clean-up after the
\* last database takes out others.  (Two creates, or a create and a delete,
\* that both fetched the same list in vitess.go.)
OwnKeyspaceOnly ==
    [][ keyspaces' # keyspaces =>
          \E h \in Handlers :
            \/ At(h, "delete", "wipe") /\ handler'[h] = Idle
            \/ /\ handler[h].step = "commit" /\ handler'[h].step # "commit"
               /\ \A d \in DbIds \ {handler[h].db} :
                    d \in keyspaces' <=> d \in keyspaces ]_vars

\* A database whose credentials are stored has its keyspace, unless the
\* delete or the clean-up of that same database took it out: the keyspace is
\* committed before the secret is stored, and no other request's list, delete
\* or rotation takes it away.
LiveHasKeyspace ==
    \A d \in DbIds : Live(d) /\ d \notin retired => d \in keyspaces

\* Ownership: each database is registered once to one user, nothing rewrites
\* its owner, and a rotation that races a delete does not bring it back.
Registry ==
    INSTANCE DatabaseRegistry WITH owner <- creds
RegistrySpec == Registry!Spec

\* One request at a time never passes the tier's limit on databases: the stored
\* count that CreateDatabase reads before, and increments after, then covers
\* the databases a user really has.
CalmWithinQuota ==
    calm /\ MaxDatabases # Unlimited =>
        \A u \in Users : Cardinality(Owned(u)) <= MaxDatabases

\* One request at a time leaves nothing behind: every object kept for a database
\* belongs to a database that is still there, and every database has its
\* keyspace and certificate (CreateDatabase, DeleteDatabase).
CalmNoLeftovers ==
    calm /\ Quiet => /\ keyspaces = Listed
                     /\ ssl = Listed
                     /\ autoscale \subseteq Listed

\* One request at a time leaves a count that is not too low, even though a delete
\* never decrements it (DeleteDatabase reads the owner from the deleted secret).
CalmCountCovers ==
    calm /\ Quiet => \A u \in Users : usage[u] >= Cardinality(Owned(u))

\* "If this was the last database": keyspaces of databases that are listed
\* are not wiped.
WipesAfterLastOnly ==
    [][ \A h \in Handlers :
          At(h, "delete", "wipe") /\ handler'[h] = Idle /\ keyspaces' # keyspaces
            => Listed = {} ]_vars

\* However creates, deletes, lost updates, failures and crashes have left the
\* stored count, the polls of GetUsage bring it to the number of databases once
\* the databases no longer change (the ids of an instance run out).
CountReconciled ==
    <>[](\A u \in Users : usage[u] = Cardinality(Owned(u)))
=============================================================================
