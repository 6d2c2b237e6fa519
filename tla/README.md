# EuroScale startup kit: specifications, model checking and proofs

EuroScale sells small MySQL databases that live as keyspaces of one Vitess
cluster on Kubernetes. Users sign up, create databases, pay for a tier, grow
storage and compute, restrict who may connect, and restore backups. This
directory models the part of the repository that decides whether those
operations are right when they overlap, fail half-way or are repeated: the Go API
(`src/api`), the autoscale checker, the MySQL proxy, and the dashboard
(`src/dashboard`) through which users reach all of them.

The specifications are TLA+ modules. TLC checks them on small instances
(`*.cfg`), TLAPS proves the main safety properties for all values of the
constants (`*Proofs.tla`), and `PROJECT.json` links every definition to the lines
it models, every property to a run and every hazard to the properties that would
notice it.

    tlasany Provisioning.tla                                  # parse
    tlc -workers 2 -config ProvisioningShared.cfg MCProvisioning.tla
    tlapm ProvisioningProofs.tla

Contents: 1 the system, 2 the hard parts, 3 the plan, 4 the modules, 5 the runs,
6 fairness, 7 the proofs, 8 findings, 9 what is not modelled.

---

## 1. The system

### Where the state is

Nearly all state that lasts is in Kubernetes objects. The API server is the only
thing the processes share, and it offers two kinds of writes. An object that
was fetched with Get or List and is sent back with Update carries a
`resourceVersion`; the Update is refused with 409 when the object was written in
between. An object that is built from nothing, and a Patch, replace what is
there without any check. Which of the two a handler uses decides most of what can
go wrong, and the models keep the difference. The API runs as **two replicas**
(`deploy/api-deployment.yaml:10`), so a map or a mutex in memory protects nothing
from the other replica.

| object | contents | written by |
|---|---|---|
| `VitessCluster.spec.keyspaces` | one keyspace per database | create, delete (Update); clean-up after the last delete (Patch) |
| secret `db-<id>-creds` | owner, login, password, IP whitelist of the database | create, delete, rotate, whitelist |
| secret `db-<id>-ssl-client` | client certificate | create, delete |
| secret `autoscale-<id>` | autoscale settings, annotations of events | SetAutoscale, delete, checker |
| secret `usage-<user>` | number of databases counted for the tier limit | create, delete, GetUsage |
| secret `ipwl-<user>` | the user's own IP list | AddIP, RemoveIP |
| ConfigMap `euroscale-user-tiers` | tier of every user | payments, admin |
| `VitessShard.spec.tabletPools` | storage and CPU of each shard | resizes, checker |
| Jobs | running restores | restore handler; a controller ends and removes them |
| memory of a replica | payments, restores, users, rate limiters | its handlers; lost at restart |

### Components

**Database provisioning API** (`api/cmd/server/main.go`, `internal/secrets`,
`internal/vitess`, `internal/tiers`). CreateDatabase checks the tier limit
against a stored count, edits the keyspace list, stores the credentials, stores a
certificate, increments the count. DeleteDatabase undoes this, and removes *all*
keyspaces when no database is left. RotateCredentials replaces the credentials,
SetAutoscale stores settings, GetUsage compares the stored count with the list of
databases and corrects it. Correct means: a listed database has its keyspace; it
keeps its owner; a deleted one stays deleted; the tier limit holds for the
databases a user has; nothing is left behind; the count becomes right again.

**Payments and tiers** (`internal/mollie`, `tiers.go`). CreatePayment registers a
payment with Mollie and notes it in the replica's map; Mollie calls the webhook
of any replica, and repeats the call until it is answered; the page the user
returns to may ask for confirmation. Both ask Mollie for the payment and write
the tier into the ConfigMap of all users. Correct means: nobody has a tier
nobody paid for or granted; nobody's tier is undone by another user's write; a
paid payment takes effect, and only once.

**Storage and compute resizing** (`internal/storage`, `internal/compute`) and the
**autoscale checker** (`cmd/autoscale-checker`, a CronJob every five minutes that
never overlaps itself). All of them read a present size, add to it and write
the sum into every VitessShard, one object after another; the Vitess operator
grows the volumes later. Correct means: nothing passes the volume limit or
what was asked for, a resize never lowers a size, and neither storage and
compute nor user and checker take back what the other wrote.

**Restore tracking** (`internal/pitr`). A request puts an entry in the replica's
map and leaves a goroutine to create a Job; a status request updates the entries
from the Jobs under a read lock. Correct means: what is reported as completed was
done, what is reported as failed does not run, a verdict stays, and a restore that
has ended gets one from the first status request that looks at its Job.

**Access lists** (`main.go`, `internal/secrets`, `internal/ipwhitelist`). The
whitelist of a database lies in its credentials secret and is edited by
read–read again–write; the user's list has a secret of its own. Correct means: an
edit never brings back an old login or a deleted secret, and never loses
acknowledged entries while requests come one at a time.

**MySQL proxy** (`cmd/mysql-proxy`). For every connection: dial vtgate, pass its
greeting on, read the client's answer, look the username up in the secrets, check
the owner's list, forward, and relay with two goroutines. Correct means: vtgate
sees no answer of a client that was not admitted, no relay outlives its
connection (unless a copy is blocked in a Write), the process ends when told to.

**Users and tokens** (`internal/auth`): users in the memory of each replica,
JWTs. **Connect layer** and **metadata service**: adapters and read-only queries.
**HTTP shell** (middleware of `main.go`): CORS, rate limit, IP interceptor.
**Metrics collector**: a CronJob appending to ConfigMaps. **Backups**: handlers that
run vtctldclient, shell scripts in CronJobs. **Deployment**: manifests and
Terraform. These are in `PROJECT.json` with the reason why they are not modelled.

**Dashboard** (`src/dashboard`, Next.js). Its state is that of one browser tab: the
React state of the page that is shown, the requests the tab has sent, and the
answers React Query has cached. Three parts:

* *Databases*: the list with its dialogs (`app/dashboard/page.tsx`), the form that
  creates a database and the card with its credentials (`CreateDBForm.tsx`), the page
  of a database with rotation and deletion (`[id]/page.tsx`), its branches
  (`BranchManager.tsx`). Correct means: credentials that exist nowhere else reach
  the screen and open the database; what is said to be deleted is being deleted;
  nothing spins for ever.
* *Panels and pages*, each about one thing: whitelist (`IPWhitelist.tsx`), allowed
  addresses (`AllowedIPs.tsx`), storage and compute (`StorageCard.tsx`), API keys
  (`ApiKeys.tsx`), profile (`settings/page.tsx`), billing, backups, browsing. Correct
  means: what is shown is what the server has, and what was typed stays.
* *Sessions and forwarding*: login, signup, the guard, sign-out (`lib/auth.tsx`), and
  the server side that hands requests on to the API in the user's name
  (`app/api/grpc`, `app/api/rest`). Correct means: a page is shown to the user whose
  session it is.

### Who talks to whom

    dashboard ──Connect/HTTP──▶ API replica 1, API replica 2 ──▶ Kubernetes objects
        ▲ polls GetUsage             ▲                               ▲      ▲
    Mollie ──webhook, repeated───────┘                               │      │
    autoscale checker ── the same resizer as the API ────────────────┘      │
    mysql clients ──▶ MySQL proxy ── reads secrets and lists ───────────────┘
                          └──▶ vtgate

The components meet only in Kubernetes objects. Two components that share an
object are in one module (API and checker in `Resizing`; rotation, whitelist and
deletion in `AccessLists`); where one component meets another only through a value
it reads, the module lets that value change at any time (`MySQLProxy` reads secrets
that the API writes). The credentials secret is in two modules: `Provisioning`
keeps its owner label, `AccessLists` its login and list.

---

## 2. What is hard here

`PROJECT.json` lists the hazards with their lines; the larger groups are:

* **Read, compute, write across calls.** The tier check (`main.go:181`), the
  keyspace list (`vitess.go:59`), the tier ConfigMap (`tiers.go:203`), the usage
  count (`usage.go:157`), the shard sizes (`storage.go:114`), the whitelist
  (`main.go:604`): some with a version check and some without.
* **One step of several failing.** A create that fails after the keyspace is in
  place, a delete that goes on after errors, a resize that stops after the first
  shard, a failed read that counts as "empty" (`ipwhitelist.go:43`).
* **Lost answers and repeated calls.** The webhook (`mollie.go:446`), Job creation
  (`pitr.go:365`), `saveIPs` (`ipwhitelist.go:193`).
* **State in the memory of one of two replicas**, lost at a restart.
* **Goroutines and locks.** The status handler that writes under a read lock
  (`pitr.go:406`), the goroutines of the relay (`mysql-proxy/main.go:221`), two
  receivers for one signal (`mysql-proxy/main.go:98`).
* **Lag.** The volumes follow the VitessShard objects in the operator's time.
* **A tab with requests under way.** A page is left, or a dialog closed and opened
  again, while its request is out; the answer arrives in another state than the one
  that asked (`[id]/page.tsx:346`, `IPWhitelist.tsx:133`, `ApiKeys.tsx:129`); two
  answers cross (`AllowedIPs.tsx:118`, `backups/page.tsx:146`); every mutation is
  sent again once after a failure, also those that must not be (`providers.tsx:20`).
* **Caches that nobody refreshes.** The hooks invalidate keys like
  `[listDatabases]`, which are a prefix of no query's key; only the polling of the
  list and of the usage brings news (`useDeleteDatabase.ts:14`,
  `useIPWhitelist.ts:24`, `[id]/page.tsx:757`), and an answer younger than 30
  seconds is not fetched again when a page opens (`providers.tsx:16`).

A hazard is in the list also when the code does fall into it. Then no property can
deny it; the models have the behaviour, a history variable names the case where the
rest of a property needs it (`calm`, `abandoned`, `lost`, `told`, `crossed`,
`reopened`, `resized`, `trust`), and the hazard's note says so. A property that
exempts a case is linked to a hazard only for what it does not exempt.

Some hazards are known and belong to parts that have no model, or to details the
models leave out: the proxy reads the client's answer without a deadline and goes
on relaying after a rotation; the metrics collector starts a history anew when it
cannot read the old one; users who signed up at one replica are unknown at the
other; a failed read of the user's list lets a request through
(`main.go:1626`); a user's two first requests race to create the usage secret; the certificate secrets match
the metrics collector's selector too; the binlog job ships from the current
position and advances `last_gtid` although BackupShard failed.

The repository has no Go tests; its tests are end-to-end scripts of the dashboard
and a smoke test, none of which reaches an interleaving.

---

## 3. The plan

Done, in this order:

1. `Provisioning` with the abstract `DatabaseRegistry` – the core of the product.
2. `Payments` – money, two replicas, repeated calls.
3. `Resizing` – API and checker on the same objects.
4. `Restores` – goroutine, lock, Job.
5. `AccessLists` – the same secret as Provisioning, seen from its other keys.
6. `MySQLProxy` – the data path, and its shutdown.
7. A proofs module for each of the six.

8. `Tab` and the modules of the pages that concern whole databases, composed in
   `Console`: several pages send the same requests and meet in one cache.
9. The panels and pages that act on one thing each, composed in `Desk`, and the way in.
10. `ConsoleProofs` and `DeskProofs`, and in `ProvisioningProofs` the three properties of a user who
    makes one request at a time.
11. The abstract specifications `TierLedger` and `RestoreReports`, implemented by `Payments` and
    `Restores`.

Left out of the plan after a closer look: *Sessions* of the API's own users (the
dashboard signs in with better-auth; the API's users meet nothing else),
*Metrics* and *Interceptor* (one reader and one writer, no overlap). What could
still be added, in the order of its worth:

* a composition of `AccessLists` with `MySQLProxy`, in place of the proxy's free
  environment: from an acknowledged address to an admitted connection;
* a composition of `Console` with `Provisioning`, in place of the API that acts in
  one step, for two tabs of one user;
* a *compare-and-swap register* that the versioned writes implement;
* the shipper of binlogs, once the semantics of the Vitess commands it calls is
  settled.

---

## 4. The modules

Conventions common to all. One Kubernetes call, one call to Mollie, or one
critical section of a lock is one action. A handler is a record in the function
`handler` (or `worker`, `task`, `poller`, `conn`): its operation, the step that
comes next, and the values it has read. A request that is refused by its first
reads changes nothing and has no action. `fresh` holds the handlers whose fetched
`resourceVersion` is current; any write of the object empties it, which models
optimistic locking without counting versions. `Faulty` and `MaxFaults` say which
calls may fail and how often; a failing call that may have taken effect has both
outcomes. Definitions marked *Mutant* in a comment are plausible mistakes in the
code; they belong to no specification and serve to show, by substitution, that a
property notices them.

### Provisioning, DatabaseRegistry

State: `creds` (owner label of each database's secret), `keyspaces`, `ssl`,
`autoscale`, `usage`, and the handlers. `minted` are the ids that generateShortID
has handed out; `retired` records the databases whose keyspace was taken out by
their own delete or clean-up; `calm` is explained in section 5.

| actions | code |
|---|---|
| `StartCreate` … `StartUsage` | the checks at the head of each handler: tier limit, ownership |
| `FetchCluster`, `CommitCluster`, `RejectCluster`, `SkipCluster` | `vitess.Manager.CreateDatabase` and `DeleteDatabase`: Get, edit, Update; a Get that fails in a delete counts as "not found" |
| `SaveCredentials`, `SaveCredentialsFails` | storing the secret, and the clean-up after a failure (`op = "cleanup"`), whose own outcome is ignored |
| `DeleteCredentials`, `DeleteSSLCertificates`, `DeleteAutoscale` | the rest of a delete: every failure is logged and passed over |
| `RotateReadOwner`, `UpdateCredentials` | rotation: reads the owner again, then replaces an existing secret |
| `CountCreated`, `CountDeleted`, `CountOwned`, `CompareCount`, `FetchUsage`, `CommitUsage`, `RejectUsage` | the stored count: increment, decrement, reconcile |
| `ListRemainingOfUser`/`ListRemaining`, `WipeKeyspaces` | "if this was the last database": list, then an unconditional patch |
| `Crash` | a replica ends after its ten seconds for shutdown, or is killed |

A delete does not decrement the count: the handler reads the owner for it from the
secret it has deleted (`main.go:334`). `CountDeleted` models exactly this (it
reaches the decrement only when the deletion of the secret had failed), and
`CountReconciled` shows that the polls of GetUsage make up for it.

`DatabaseRegistry` is what users are promised: an id is registered once, to one
user, unregistered by that user, and never comes back. `Provisioning` implements
it with `owner <- creds`.

### Payments, TierLedger

State: `tier` and `fresh` for the ConfigMap, `payment` and `due` for what Mollie
knows and has to report, `record` for the map of each replica, `handler`; `applied`
and `granted` are history. `CreatePayment`/`StorePending` are HandleCreatePayment,
`SettlePayment` and `CallAgain` are Mollie, `Webhook` and `ConfirmPayment` the
heads of the two handlers, `GetPayment` their question to Mollie, `FetchTiers`,
`CommitTiers` and `RejectTiers` SetUserTier, `StorePaid` the note in the map,
`SetUserTier` the admin's request, `Restart` the loss of a replica's map with the
handlers that ran there. `Webhook` answers "already processed" from the map of its
own replica only. When Mollie or SetUserTier fails the webhook still answers 200, so
`AnswerFailed` and `RejectTiers` let `due` go: this upgrade is lost, and `abandoned`
notes it. `PaidIsKept` says that there is no other way to lose one.

`TierLedger` is what users are promised: each has a tier; a payment is settled and then
entitles its user to a tier; somebody who is at work claims an entitlement, and what was
claimed is applied, or dropped; one step changes the tier of one user, to what that
user was granted or paid for. Fetching, versions, replicas, the maps and
repeated calls are not in it. `Payments` implements it (`LedgerSpec`) with the tiers as
they are, `Entitled` for what is paid or granted, and `Claimed` for what the handlers on
their way to the ConfigMap have in hand.

### Resizing

State: `spec` (storage and CPU in each VitessShard), `size` (the volumes), `fresh`
(pairs of worker and shard: each listed copy has a version of its own),
`worker` (API handlers and the checker), `setting`, and `asked`, the history of all
that was asked for. `ReadStorage` and `ReadCompute` are the check of tier and volume
limit, `ListShards` the List, `UpdateShard`/`RejectShard` the loop over the shards,
which a resize leaves at the first error; `StartCheck`, `CheckAutoscale`,
`FetchSettings`, `RecordEvent`, `FinishCheck` are a run of the checker, which is
never limited by a tier because the label it needs is never set; `GrowVolumes` is
the operator. `SetAutoscale` is the save alone: the owner was looked up in a call of its
own, so that a save may come after the database, and its settings, were deleted. Storage starts from a *volume's* capacity, compute from the first
*shard object*. At the start all shards have a bound volume of the size they ask
for. The annotations of the settings are left out: no code reads them.

### Restores, RestoreReports

State: `entry` (the map of each replica), `task` (the request, then the goroutine),
`job`, `poller` (status requests). `Trigger`, `Insert`, `CreateJob`, `MarkFailed` are
HandleTriggerRestore and its goroutine, each taking the write lock when the code
does; `StartPoll`, `Skip`, `GetJob`, `SyncEntry`, `EndPoll` are HandleRestoreStatus,
which holds the read lock throughout and calls Kubernetes under it. The lock is
`MayRead` and `MayWrite`: a waiting writer keeps new readers out, as in
`sync.RWMutex`. A status request may be about any of a replica's restores (the page
asks for one database's), and nobody has to make one. `EndJob` and `ExpireJob` are the Job controller (a Job is removed an
hour after its end), `Restart` empties a replica's map. `lost` are Jobs whose
creation succeeded although the call reported an error.

`RestoreReports` is what the user is promised of each restore: it is accepted, begins or
is refused, ends well or badly, and is reported so once and for all; only of a
restore that began without anybody being told (the call that creates the Job reports an
error although it took effect) may the report say "failed", once, whatever became of it. It has no goroutine, no lock and no status request. `Restores`
implements it (`ReportsSpec`): `Stage` reads the stage of a restore off its goroutine and
its Job.

### AccessLists

State: `secret` (there or not, login, list), `fresh`, `userList`, `handler`.
`ReadWhitelist`, `GetSecret`, `UpdateSecret`, `RejectSecret` are AddIPWhitelistEntry
with SaveIPWhitelist: the list is from the first read, the rest and the version
from the second. RemoveIPWhitelistEntry reads and ends, as in the code, which
never saves the filtered list. `Rotate` replaces an existing secret by a new one
without a list; `DropSecret` is the deletion. `ReadIPs`, `SaveIPs`, `MakeIPs` are the
user's list: a read that fails is an empty list, an Update that fails is
followed by a Create. `calm` is history, true as long as no request of a list met a
failure or another request of the same list.

### MySQLProxy

State: `known` and `list` (the secrets, which `AddLogin`, `DropLogin`, `AddIP`,
`RemoveIP` change at any moment), `conn` (a connection with its goroutine, the two
copying goroutines, the reports in the channel and both peers), and `main`,
`listener`, `stop`, `watcher` for the process. `Accept` … `Forward` are the steps of
handleConnection; `EndUp`, `EndDown`, `BreakUp`, `BreakDown`, `ReportUp`, `ReportDown`,
`Return`, `Forget` the relay. A copy is blocked in a Write when its peer does not read
(`BlockUp`, `BlockDown`), until the peer reads on (`VtgateReads`, `ClientReads`), hangs up,
or handleConnection returns; `io.Copy` sets no deadline. `Signal`, `WatchStop`, `CloseListener`, `AcceptFails`,
`StopMain`, `AcceptAgain` the shutdown. `seen` and `met` are history of a connection:
whether its address has been in the owner's list, and its username in a secret,
at some moment since the client answered. Bytes are abstracted away: a packet that
is too short or cut is `NoAnswer`.

### Tab

One tab: `view` (the React state of the page that is shown, a record with a field
`page`), `calls` (a few slots for requests), `server` (what the API has, as far as
the pages tell), `cache`, `told` (history: what the user has seen) and `faults`.
`Send` starts a request. `Serve`, `Refuse` and `Fail` are the API and the network: a
request that failed is sent again once if it is the kind that is (`Again`,
`providers.tsx`), whether or not the API had carried it out. Two marks on a request
say what its answer still reaches. `live`: the page that sent it is still there, so
that the handler's assignments have an effect (React drops them afterwards).
`watched`: the mutation has not been started again by the same hook, so that the
callbacks given to `mutate` run (React Query drops the callbacks of all but the last
call of one hook; what follows an `await mutateAsync` always runs). `Open` leaves a
page: its state goes, and its requests stay under way but are no longer live.

### DatabaseRequests, HomePage, CreateForm, DetailPage, BranchPanel, Console

`DatabaseRequests` are the calls that create, delete and rotate, as one step of the
API each (`Provisioning` has their steps). Each page module declares the records of
its view, an action for every click and every answer, and what its hooks do to the
cache. `Console` adds the ways between pages, `Next`, and the properties. `told` is
history: a login nobody was shown is "coming" while its answer can still be shown, and
"missed" once it was lost, found no page, or was dropped by the page that got it.

| actions | code |
|---|---|
| `ShowCreate`, `handleCreate`, `CreateAnswered` | the dialog of the list, which drops the credentials of the answer |
| `handleDeleteRequest`, `handleDeleteConfirm`, `DeleteAnswered` | the confirmation, and the one `deletingId` |
| `EnterName`, `handleSubmit`, `FormAnswered`, `LeaveCard` | the form, the check of the name, the card with the credentials |
| `OpenDetail`, `FetchDetail`, `FetchDetailFails`, `Reconnect`, `Reload` | the query of one database: a cached answer of an earlier visit is shown, for 30 seconds without a fetch; an error hides the page |
| `AskRotate`, `handleRotate`, `RotateAnswered`, `Refetched` | the rotation: the page takes the password, and goes on showing the user name of its query |
| `ShowBranchDialog` … `BranchDeleted` | branches, which are all other databases of the user; the dialog drops the credentials |

Abstractions: no handler relies on the list of databases, which may be out of date in
every way, so that it shows any database ever made (`Cards`); what an earlier visit left
in the cache is the first or the present user name, or nothing; a login is a number,
counted up to `MaxLogin` per database; a panel of the page of a database is visited as
a page of its own.

### AllowPanel, AllowedIPs, StoragePanel, KeysPanel, ProfilePanel, BillingPage, BackupsPage, BrowsePage, SignInPages, Desk

These share no state with each other but the tab. `Desk` is therefore a sum: a
behaviour is about one area, chosen at the start, which the user leaves with
requests under way and enters again. One TLC run so covers them all without the
product of their states.

| module | what is peculiar |
|---|---|
| AllowPanel | the address is detected by two lookups, one after the other, whose answer writes into the dialog whatever happened meanwhile; what it lists is any entry the API has, since neither a cached list nor an addition is refreshed, and the API saves no removal |
| AllowedIPs | three requests whose answers each replace the whole list; `trust` is the history of whether the last one had another beside it |
| StoragePanel | Apply sends up to three requests at once; the switch sends one of its own; an error of the usage takes the card away, and the next one starts with its switch off |
| KeysPanel, ProfilePanel | no server: keys live in the component, timers stand for requests, and "saved" saves nothing |
| BillingPage | leaving for the checkout and coming back with or without an id; the webhook, early, late or never; the usage is polled. The user has one payment at a time |
| BackupsPage | requests are a set within the view, since they change nothing: backups and restores of the database selected, and of the one selected before |
| BrowsePage | pagination of schemas and of each schema's tables; the arithmetic is the code's |
| SignInPages | the cookie and what `useSession` says of it are two things, another tab may change the cookie, and a request that is handed on looks its user up in two ways |

---

## 5. The runs

| run | instance | what it shows |
|---|---|---|
| provisioning_shared | 2 users, 2 databases and a resident one, 2 handlers, 1 failure or crash, limit 1 | no keyspace list is lost or restored by another request, every listed database has its keyspace, the registry is implemented |
| provisioning_calm | 1 user, 2 databases, 2 handlers, 1 failure of the usage secret or crash, limit 1 | one request at a time stays within the limit, leaves nothing behind, and does not undercount; the polls repair the count whatever happened |
| provisioning_wipe_race | as above, no resident, no failure | *violated*: `WipesAfterLastOnly` |
| payments_shared | 2 users, 2 payments, 1 replica, 2 handlers, 1 failure, lost answer or restart | tiers are justified, records true, the ledger is implemented: each write touches one user's tier; Mollie calls about a paid payment until it is applied, unless the webhook answered a failure with 200 |
| payments_replay | 1 user, 2 payments, 2 replicas | *violated*: `NotAppliedAgain` |
| resizing_shared | 2 shards, 2 handlers and the checker, 3 requests, 1 failure or crash | volume limit, never more than asked, fields and settings kept |
| restores_shared | 2 restores, 2 status requests, 1 replica, 2 failures of five kinds | reports are true, the promise to the user is implemented, so that a verdict stays, and one look at an ended Job settles its entry |
| access_shared | 2 requests, 2 ranges, 2 addresses, 2 rotations, 1 failure | login, list and deletion |
| proxy_shared | 2 usernames of 2 owners, 1 address, 1 connection at a time, 2 signals | admission, the end of relays, and the end of the process at a second signal |
| console_shared | 2 databases, 2 requests under way, 3 logins per database, 1 failure or lost answer | no handler but the two dialogs that drop them loses new credentials, deletions are shown truly, nothing spins for ever |
| console_login | 2 databases, 2 requests under way, 2 logins per database, no failure | *violated*: `ShownLoginWorks` |
| desk_shared | every area with 2 requests under way, 2 addresses, 3 keys, 3 tiers, 2 databases, 3 schemas of 2 tables on pages of 1, 2 users, 1 failure | what the panels show is what the server has, up to the crossings, failures and openings each property names; what waits ends |

**Why the bounds are enough.** Two handlers are what every hazard in the list needs:
one that has read and one that writes in between. A third could only take the place
of one of the two, since a handler carries nothing from one request to the next; the
proofs, which hold for any number, agree. Two users and two databases give each
handler something of its own and something of the other. One failure is enough to
stop any handler at any call while the other runs on; restores, where a lost answer
and an expired Job meet, and the webhook's retries get two. A limit of one database
makes the second create the one that must be refused. Two shards are the least for
"half-way"; with `InitialGB = 2`, amounts of 1 and 2 and a volume limit of 5, sums
land on the limit, one past it and well below; the tier limit lies at 4 GB,
so that the checker's extra growth is told apart from a user's. `MaxRequests = 3` bounds what would otherwise grow for ever and admits a
resize of each kind overlapping a run of the checker. PaymentsShared has one
replica because two handlers of one replica interleave in all the ways two replicas
do *and* share the map, which is the race on the record; two replicas, whose maps
differ, are in the other payment run, and the proofs hold for any number. Restores has one replica since restores
of different replicas meet in nothing but Jobs, and each Job has one owner. In
MySQLProxy connections share only what they read, so one slot, used again and again,
shows the same histories as several; the proof covers any number. In the dashboard
two requests under way are what it takes for two answers to cross; one slot may be
taken by a request of a page that has been left. Three logins are the first one,
the one a user asks for, and the one a second click or a retry makes besides.
Three schemas on pages of one or two give a full page, a part of one, and one past the
end.

The type invariants of all modules are proved (`TypeCorrect`, section 7), for all
values of the constants, so that the runs need not repeat them; the run of `Desk`, whose views
have the most fields, checks its own.

`CHECK_DEADLOCK FALSE` stands in every configuration since every system may really
stop: ids, payments, requests, rotations and signals are used up and all handlers
are idle, or the process has ended, or the user does nothing more.

**Calm.** Some promises hold only while requests come one at a time: the code
checks a count and increments it calls later, and edits a list it read before.
`Provisioning` and `AccessLists` have a history variable `calm`, true as long as no
call has failed and no two handlers (of one list, in `AccessLists`) were at work
together. The invariants say "as long as nothing overlapped or
failed"; that they break otherwise is deliberate knowledge (two overlapping creates
pass the limit, two overlapping additions keep one range) and needs no run of its
own. The same run, under the same specification, checks `CountReconciled`, where
overlaps and failures are all allowed.

**Mutants.** `PROJECT.json` names for every property one definition of the model
and a mistaken form of it (an Update without its version, a count that never rises, a
status that is overwritten, a channel with no room …) under which TLC finds that
very property violated. It shows that no property holds for lack of behaviour.

---

## 6. Fairness

Assumed only where a liveness property needs it:

* `Provisioning`, for `CountReconciled`: a handler that has started goes on (weak
  fairness of `HandlerStep`): it is a goroutine, and a crash is an action of its own
  that ends it. Each user's GetUsage starts again and again (strong fairness of
  `StartUsage`), because an open dashboard polls it every minute; strong because the
  model has finitely many handler slots, which others may occupy on and off, and
  the program has no such limit.
* `Restores`, for `RestoreSettles`: goroutines and status requests that were started
  go on (their calls to Kubernetes have deadlines), and a writer that waits for the
  lock gets it, as `sync.RWMutex` guarantees. Nobody is assumed to ask for a status,
  for the page does so only when a database is selected, on Refresh and after a
  restore; no Job is assumed to end, for none has a deadline. The property is
  about a request that has come to an entry whose Job has ended.
* `MySQLProxy`, for `RelayEnds` and `SecondSignalEnds`: goroutines that can run do. A
  copy that is blocked in a Write cannot, until its peer reads; `RelayEnds` is about
  connections where the copy that has to notice the end is not blocked. Nothing at
  all is assumed of clients, of vtgate, of the API server or of signals: they may be
  silent, or not read, for ever.
* `Console`, for `SpinnersStop`: each request is served, refused or fails (the
  browser ends a request that hangs), and each answer is handled. Nothing is assumed
  of fetches and polls.
* `Desk`, for `WaitingEnds`: the same of requests and answers; the guard and
  `useSession` act on what they find. Nothing is assumed of the user, who may
  never click again, of the webhook, which may never come, or of another tab.

`Resizing` and `AccessLists` have no liveness property: a failed resize or edit is
reported and nobody repeats it. `Payments` has none either: that a paid payment is
applied in the end rests on Mollie, and what the code has to see to, that Mollie goes
on calling until it is, is the invariant `PaidIsKept`.

---

## 7. The proofs

TLAPS proves the following for **all** values of the constants that satisfy the
named assumptions of the modules (which TLC evaluates on each run). Every proof of
an invariant has the same shape: an inductive invariant, a lemma for `Init`, one
lemma per group of actions, a lemma for `Next`, and a temporal step.

| module | theorems | inductive invariant, and why it is needed |
|---|---|---|
| ProvisioningProofs | TypeCorrect, KeyspacesNotOverwritten, RegistryImplemented, KeyspaceKept, QuotaKept, NothingLeftOver, CountCovers | `ListInv` adds `FreshSnapshot`: who holds the current version holds the present list, hence a commit changes one keyspace. `OwnerInv` adds that creates work apart on minted ids without a secret, and that deletes and rotations work on a database of their user or a deleted one. `KeepInv` adds that residents stay, that no handler is at the wipe, and that a create has committed before it stores the secret. `CalmInv` says what the one handler at work has still to do: which object is missing, which is too many, and which count is one too low. |
| PaymentsProofs | TypeCorrect, TiersJustified, RecordsTruthful, OtherTiersKept, LedgerImplemented, PaidPaymentsKept | `PayInv`: `FreshSnapshot` again, and `Honest`: a handler on its way to the ConfigMap works for a payment that is paid, with that payment's user and tier. `RecordedIsApplied`: what a replica has recorded as paid was applied, so that a call answered from the record loses nothing |
| ResizingProofs | TypeCorrect, VolumeLimitKept, AskedForAtMost, FieldsKept, SettingsKept, ComputeGrowsWhenAlone | `ResInv`: what every worker has computed or listed lies within the same bounds as the shards (`Bounded`), and a current copy equals the object (`FreshCurrent`, `SettingCurrent`). `GrowInv`, for one handler slot: the first shard has the most compute, a compute resize wants no less, and after its first write just that |
| RestoresProofs | TypeCorrect, CompletedReportsTrue, FailedReportsTrue, SettledForGood, ReportsImplemented | `RestoreInv`: what a status request saw of an ended Job is the end of that Job, a Job is created once by its own goroutine, and "failed" without a Job means that this goroutine is done. `ReportInv`: the entry is there for as long as the goroutine that will write to it, and a status request that has looked at a pending entry finds it as it was, since it holds the read lock from one look to the other and `MarkFailed` needs the write lock |
| AccessListsProofs | TypeCorrect, LoginKept, CalmRangesKept, CalmListKept, SecretGoneForGood | `AccessInv` = `SecretInv` (a current reader has the present login) and `ListsInv` (while calm, the one request that edits a list has read all that was acknowledged) |
| ConsoleProofs | TypeCorrect, CredentialsCome, DeletingTrue, NothingSpinsAlone | `TypeInv` adds `CallsHere`: a request that is still awaited belongs to the page that is shown; `LoginsCome`: for every login that is still to be shown, some answer `Brings` it; `OneDeletion`: the requests to delete that are awaited are exactly the card's; `BranchWaits`: a branch that says it is being deleted has a request under way, of several that may be |
| DeskProofs | TypeCorrect, TypedStays, AllowedListTrue, EmptyTrue, SwitchTrue, SecretStays, RangeTrue, ShownTrue, WaitsForARequestAlways | `Base`: a request that is awaited is one of the page that is shown, and nothing but the way in changes the cookie, and so on for each field of the server. A step of one page is `Foreign` to every other: it leaves what that page shows and the requests of that page as they are, or drops the page. So one invariant for each area is kept by the steps of that area, its opening, and a failing request: `WhitelistInv` (until the dialog is opened again on one, a detection is the only one and the field is closed to typing), `AllowedInv` (beside the last request of a page that is not unsure there is none), `BrowseInv` (the page of schemas shown is not past the last one until the size changes), `AddonsInv` (the same of the switch, and the request is of the switch as it stands), `KeysInv` (while a key is in the making, all others have been seen), `BackupsInv` (what a list shows is of the selected database or is on its way), `SessionInv` (the session shown is the cookie's until somebody signs in or out). `TypeInv` adds to the types what the answers rely on: a request carries what its answer will write (`OnTyped`, `GotTyped`), and what an open dialog asks about is something the page shows. `WaitsForARequest` is inductive over `Base` and `TypeInv`: a page sets what says that it waits in the step that sends the request, and the end of an awaited request resets it |
| MySQLProxyProofs | TypeCorrect, RelayedWasListedAlways, RelayNeverStuck, LaterSignalsAreMains | `Inv`: what holds of a connection in the secrets is recorded, and each step of the handshake has established what its predecessor checked. `Counted`: both copies run from the relay on, and the reports in the channel are those of the copies that reported, less the one that was taken |

`KeyspaceKept` has two hypotheses of its own. `Resident # {}`: some database stays for
good; without it the race of `provisioning_wipe_race` removes keyspaces of listed
databases. `"list" \notin Faulty`: the listing after a delete does not fail; its error
is dropped in the code and the list is then empty, with the same effect. These are
exactly the conditions under which the code is right, and the run
provisioning_shared checks the property under them.

`RegistryImplemented`, `LedgerImplemented` and `ReportsImplemented` are refinements:
initial states map to initial states, and every step to a step of the abstract
specification or a stutter. A commit of the keyspaces or a lost version check is a
stutter of the registry; only storing and deleting the secret are its steps. In the ledger the commit of the
ConfigMap is the step `Apply`, which is where the version check counts: without it the
commit changes two users' tiers at once and is no step of the ledger. In the
reports `SyncEntry` is a settlement or a stutter, and it takes `ReportInv` to exclude
that it overwrites an earlier verdict.

`ComputeGrowsWhenAlone` holds for one handler slot: a second one breaks it, and
nothing like it holds of storage, which starts from a volume that may lag behind.

**Only model-checked.** Every invariant and every action property that a passing run checks
is also proved. Left to TLC are the six liveness properties (`CountReconciled`,
`RestoreSettles`, `RelayEnds`, `SecondSignalEnds`, `SpinnersStop`, `WaitingEnds`), which
need fairness and ENABLED, out of the prover's reach. Of four of them the safety that
they rest on is proved, that who waits has somebody or something to wait for:
`RelayNeverStuck` for `RelayEnds`, `LaterSignalsAreMains` for `SecondSignalEnds`,
`NothingSpinsAlone` for `SpinnersStop`, `WaitsForARequestAlways` for `WaitingEnds`. The
three violated properties are refuted in general.

No module declares a recursive operator.

---

## 8. Findings

Three places where a run contradicts what the code's comments say.

1. `main.go:348` "If this was the last database, clean up the Vitess keyspace." The
   delete lists the databases and then patches *all* keyspaces away. A create that
   stores its secret in between ends up listed and ready without a keyspace
   (`provisioning_wipe_race`).
2. `mollie.go:444` "Idempotency: check if this payment ID was already processed." The
   check reads the map of one replica. A call repeated at the other replica
   applies an old payment over a newer tier (`payments_replay`).
3. `useRotateCredentials.ts:8` "Invalidates the database detail query on success." A
   rotation makes a new user name and a new password. The page shows the password of
   the answer beside the user name of its query, which nothing fetches again, since the
   filter names no query: the login on the screen opens nothing (`console_login`).

Further facts that are modelled as they are; each was met while the code was read,
and no run is spent on it:

* *API.* A delete never decrements the count. A removal from a database's whitelist
  is never saved. The checker grows storage past the tier's limit. A rotation
  drops the whitelist. A webhook whose tier write failed answers 200. A storage
  resize computes from a volume that may not have grown yet, so that a smaller
  second one lowers what the first had set (`storage.go:93-94` says "expands ALL").
* *Proxy.* "Graceful shutdown on SIGTERM / SIGINT" (`mysql-proxy/main.go:84`): two
  goroutines read one signal, and when the one that closes the listener gets it, `main`
  repeats failing Accepts. `SecondSignalEnds` says what does end it. "When either side
  closes, the other io.Copy unblocks" (`mysql-proxy/main.go:211`) is not so while a copy
  is blocked in a Write to a peer that does not read; `RelayEnds` leaves this case out.
* *Dashboard.* The keys that the hooks invalidate name no query: the whitelist, and
  the page of a database, are as they were when they opened, and a panel opened
  again within 30 seconds still says that all addresses are blocked after one was
  added. "Credentials are shown only once after creation or rotation"
  (`[id]/page.tsx:489`): a database made in the dialog of the list (`page.tsx:143-148`) or as a branch
  (`BranchManager.tsx:66-76`) shows them never. The switch for autoscaling is off in
  a card mounted anew, whatever the server has. The billing page says
  "Payment successful!" of every status but paid and pending, open and canceled
  among them (`mollie.go:603` hands on Mollie's own word), and of a return
  without an id, which is what the redirect address built in `mollie.go:345` leads to.
  The settings page counts unlimited storage as a negative number
  (`settings/page.tsx:125`). Restoring offers the range of the database selected
  before when the fetch for the new one fails. A page size chosen on a later page
  can lead past the end, where there is no button back. "Saved" on the profile saves
  nothing, and API keys exist in the page only.

---

## 9. What is not modelled, and why

* **Whole components**: users and tokens (the API's own, which the dashboard does not
  use), the metrics collector, CORS, the IP interceptor and the rate limiter. Each
  decides one request from what it reads, or has one writer that never overlaps
  itself. The Connect layer, the metadata service and the handlers for backups keep no
  state. Backup jobs are shell scripts whose effect is defined by Vitess. Generated
  code, manifests and documents have no behaviour of their own, but replicas,
  schedules and policies are taken from them.
* **Dashboard**: what only shows (cards, charts, tables, the landing page, `ui/`);
  `ConnectionInfo.tsx` and `DBStats.tsx`, which no page mounts; toasts, wording, the
  clipboard; two tabs of one user at a time, but for the session; better-auth, of which
  the models know the cookie and the two answers of `useSession`. The API takes one
  step per request here; its steps are in the other modules, and the two are not
  composed. At most one request of a page that has been left is still under way.
* **Data**: names, passwords, certificates, addresses, prices and quantities as
  text; a login is a number, a range or address a model value, a size a number of GB.
* **Restores**: times and error texts of entries, and with them the torn copy two
  status requests can make of one entry while both hold the read lock.
* **Resizing**: volumes that are not bound yet, parsing of quantities, annotations.
* **Provisioning**: reads of the tier (one limit at a time is checked), the region and
  parent of a database.
* **MySQLProxy**: contents of packets, and SIGKILL, which ends anything.
* **Kubernetes itself**: the API server is linearizable and checks versions; etcd,
  the Vitess operator and the Job controller do what their contracts say, in their
  own time.
