------------------------------ MODULE Resizing ------------------------------
(***************************************************************************)
(* Growing storage and compute: ResizeStorage and ResizeCompute of the API *)
(* (main.go with the packages storage and compute) and the autoscale       *)
(* checker, a CronJob that runs the same resizer.  All of them read the    *)
(* present size, add to it and write the sum into every VitessShard object *)
(* of the namespace, one object after another.  The Vitess operator then   *)
(* grows the volumes in its own time, and storage is read from a volume,   *)
(* not from the object that was written.                                   *)
(*                                                                         *)
(* A VitessShard that comes out of a List carries its version, so its      *)
(* Update fails when the object was written in between: "fresh" holds the  *)
(* pairs of a worker and a shard whose listed version is still current.    *)
(***************************************************************************)
EXTENDS Integers, FiniteSets

CONSTANTS
    NumShards,        \* the VitessShard objects are 1..NumShards, as listed
    First,            \* the shard of the first bound vttablet volume
    Handlers,         \* slots for API handlers that run at the same time
    Checker,          \* the autoscale checker (concurrencyPolicy Forbid)
    Databases,        \* databases that may have autoscale settings
    None,             \* no database
    Adds,             \* the amounts that requests ask for, GB and CU
    InitialGB,        \* size of every volume at the start
    InitialCU,        \* compute units of every shard at the start
    MaxVolumeSizeGB,  \* the largest volume that Hetzner sells
    MaxTotalStorageGB,  \* the storage limit of the tenants' tier
    MaxTotalCU,       \* the compute limit of the tenants' tier
    Increment,        \* increment_percent of the autoscale settings
    Faulty,           \* the calls that may fail
    MaxFaults,        \* bound on failed calls and crashes
    MaxRequests       \* bound on resize requests and runs of the checker

Shards  == 1 .. NumShards
Workers == Handlers \cup {Checker}

ASSUME SizeAssumption ==
    /\ NumShards \in Nat \ {0}
    /\ First \in Shards
    /\ InitialGB \in Nat \ {0}
    /\ InitialCU \in Nat
    /\ MaxVolumeSizeGB \in Nat
    /\ InitialGB <= MaxVolumeSizeGB
    /\ MaxTotalStorageGB \in Nat
    /\ MaxTotalCU \in Nat
    /\ Adds \subseteq Nat \ {0}
    /\ Increment \in Nat

ASSUME WorkerAssumption ==
    /\ Checker \notin Handlers
    /\ None \notin Databases
    /\ Faulty \subseteq {"volumes", "shards", "settings", "crash"}
    /\ MaxFaults \in Nat
    /\ MaxRequests \in Nat

VARIABLES
    spec,      \* storage request and CPU limits in each VitessShard
    size,      \* capacity of the volumes of each shard
    fresh,     \* <<worker, shard>>: the listed version is the current one
    worker,    \* what each handler, and the checker, is doing
    setting,   \* the secret autoscale-<id> of each database
    settingFresh,  \* the checker holds the current version of such a secret
    asked,     \* all that requests and the checker have asked for so far
    requests,  \* requests left
    faults     \* failures left

vars == <<spec, size, fresh, worker, setting, settingFresh, asked, requests,
          faults>>

Ops      == {"none", "storage", "compute", "autoscale"}
Steps    == {"idle", "read", "list", "update", "next", "settings", "record"}
Settings == {"none", "on", "off", "gone"}
Spec0    == [gb |-> InitialGB, cu |-> InitialCU]
NoSpecs  == [s \in Shards |-> Spec0]

\* "add" is the amount asked for, "target" the sum to be written, "shard" the
\* next object to write, "snap" the listed objects, "queue" the databases the
\* checker still has to look at, and "kept" the settings that it fetched.
Idle == [op |-> "none", step |-> "idle", add |-> 0, target |-> 0, shard |-> 1,
         snap |-> NoSpecs, db |-> None, queue |-> {}, kept |-> "none"]

Specs == [gb: Nat, cu: Nat]

WorkerStates ==
    [op: Ops, step: Steps, add: Nat, target: Nat, shard: Shards,
     snap: [Shards -> Specs], db: Databases \cup {None},
     queue: SUBSET Databases, kept: Settings]

TypeOK ==
    /\ spec \in [Shards -> Specs]
    /\ size \in [Shards -> Nat]
    /\ fresh \subseteq Workers \X Shards
    /\ worker \in [Workers -> WorkerStates]
    /\ setting \in [Databases -> Settings]
    /\ settingFresh \in BOOLEAN
    /\ asked \in Specs
    /\ requests \in Nat
    /\ faults \in Nat

At(w, step) == worker[w].step = step

Goto(w, step) == worker' = [worker EXCEPT ![w].step = step]

Fails(call) ==
    /\ call \in Faulty
    /\ faults > 0
    /\ faults' = faults - 1

Succeeds == UNCHANGED faults

Request == requests > 0 /\ requests' = requests - 1

\* The worker gives up: a handler answers, the checker takes its next database.
Return(w) ==
    worker' = [worker EXCEPT
                 ![w] = IF w = Checker
                          THEN [Idle EXCEPT !.op = "autoscale", !.step = "next",
                                            !.queue = worker[w].queue]
                          ELSE Idle]

Init ==
    /\ spec = NoSpecs
    /\ size = [s \in Shards |-> InitialGB]
    /\ fresh = {}
    /\ worker = [w \in Workers |-> Idle]
    /\ setting = [d \in Databases |-> "none"]
    /\ settingFresh = FALSE
    /\ asked = [gb |-> 0, cu |-> 0]
    /\ requests = MaxRequests
    /\ faults = MaxFaults
-----------------------------------------------------------------------------
(***************************************************************************)
(* The API's requests, up to the tier check.  A reading that fails counts  *)
(* as 0 there (currentGB, _ := ...).  A refused request changes nothing.   *)
(***************************************************************************)

\* GetCurrentStorage: the first bound volume stands for all of them.
CurrentGB == size[First]

\* GetCurrentCU: the first VitessShard stands for all of them.
CurrentCU == spec[1].cu

StartStorage(h, add) ==
    /\ worker[h] = Idle
    /\ Request
    /\ \/ CurrentGB + add <= MaxTotalStorageGB /\ Succeeds
       \/ add <= MaxTotalStorageGB /\ Fails("volumes")
    /\ worker' = [worker EXCEPT
                    ![h] = [Idle EXCEPT !.op = "storage", !.step = "read",
                                        !.add = add]]
    /\ UNCHANGED <<spec, size, fresh, setting, settingFresh, asked>>

StartCompute(h, add) ==
    /\ worker[h] = Idle
    /\ Request
    /\ \/ CurrentCU + add <= MaxTotalCU /\ Succeeds
       \/ add <= MaxTotalCU /\ Fails("shards")
    /\ worker' = [worker EXCEPT
                    ![h] = [Idle EXCEPT !.op = "compute", !.step = "read",
                                        !.add = add]]
    /\ UNCHANGED <<spec, size, fresh, setting, settingFresh, asked>>
-----------------------------------------------------------------------------
(***************************************************************************)
(* Resizer.ResizeStorage and Resizer.ResizeCompute.                        *)
(***************************************************************************)

\* Mutant: the limit is compared with the present size.
ReadStorageLimitLate(w) ==
    /\ At(w, "read")
    /\ worker[w].op \in {"storage", "autoscale"}
    /\ LET target == CurrentGB + worker[w].add
       IN  \/ /\ CurrentGB <= MaxVolumeSizeGB
              /\ worker' = [worker EXCEPT ![w].step = "list",
                                          ![w].target = target]
              /\ asked' = [asked EXCEPT !.gb = @ + worker[w].add]
              /\ Succeeds
           \/ Return(w) /\ UNCHANGED asked /\ Fails("volumes")
    /\ UNCHANGED <<spec, size, fresh, setting, settingFresh, requests>>

\* The size is read once more, and the sum checked against the largest volume.
ReadStorage(w) ==
    /\ At(w, "read")
    /\ worker[w].op \in {"storage", "autoscale"}
    /\ LET target == CurrentGB + worker[w].add
       IN  \/ /\ target <= MaxVolumeSizeGB
              /\ worker' = [worker EXCEPT ![w].step = "list",
                                          ![w].target = target]
              /\ asked' = [asked EXCEPT !.gb = @ + worker[w].add]
              /\ Succeeds
           \/ target > MaxVolumeSizeGB /\ Return(w) /\ UNCHANGED asked /\ Succeeds
           \/ Return(w) /\ UNCHANGED asked /\ Fails("volumes")
    /\ UNCHANGED <<spec, size, fresh, setting, settingFresh, requests>>

ReadCompute(w) ==
    /\ At(w, "read")
    /\ worker[w].op = "compute"
    /\ \/ /\ worker' = [worker EXCEPT ![w].step = "list",
                                      ![w].target = CurrentCU + worker[w].add]
          /\ asked' = [asked EXCEPT !.cu = @ + worker[w].add]
          /\ Succeeds
       \/ Return(w) /\ UNCHANGED asked /\ Fails("shards")
    /\ UNCHANGED <<spec, size, fresh, setting, settingFresh, requests>>

ListShards(w) ==
    /\ At(w, "list")
    /\ \/ /\ worker' = [worker EXCEPT ![w].step = "update", ![w].shard = 1,
                                      ![w].snap = spec]
          /\ fresh' = fresh \cup ({w} \X Shards)
          /\ Succeeds
       \/ Return(w) /\ UNCHANGED fresh /\ Fails("shards")
    /\ UNCHANGED <<spec, size, setting, settingFresh, asked, requests>>

\* The object that the worker wants to put in place of the one it listed.
Wanted(w) ==
    LET listed == worker[w].snap[worker[w].shard]
    IN  IF worker[w].op = "compute"
          THEN [listed EXCEPT !.cu = worker[w].target]
          ELSE [listed EXCEPT !.gb = worker[w].target]

\* The next shard; after the last one the checker records what it did.
Advance(w) ==
    IF worker[w].shard < NumShards
      THEN worker' = [worker EXCEPT ![w].shard = @ + 1]
      ELSE IF w = Checker
             THEN Goto(w, "settings")
             ELSE worker' = [worker EXCEPT ![w] = Idle]

\* Mutant: the object is written without the version it was listed with.
UpdateShardUnversioned(w) ==
    /\ At(w, "update")
    /\ LET s == worker[w].shard
       IN  /\ spec' = [spec EXCEPT ![s] = Wanted(w)]
           /\ fresh' = fresh \ (Workers \X {s})
    /\ Advance(w)
    /\ Succeeds
    /\ UNCHANGED <<size, setting, settingFresh, asked, requests>>

\* An Update that changes nothing leaves the version as it is.
UpdateShard(w) ==
    /\ At(w, "update")
    /\ LET s == worker[w].shard
       IN  /\ <<w, s>> \in fresh
           /\ spec' = [spec EXCEPT ![s] = Wanted(w)]
           /\ fresh' = fresh \ (IF Wanted(w) = spec[s]
                                  THEN {<<w, s>>} ELSE Workers \X {s})
    /\ Advance(w)
    /\ Succeeds
    /\ UNCHANGED <<size, setting, settingFresh, asked, requests>>

\* Mutant: a refused Update starts over, and adds the amount once more.
RejectShardAddsAgain(w) ==
    /\ At(w, "update")
    /\ \/ <<w, worker[w].shard>> \notin fresh /\ Succeeds
       \/ Fails("shards")
    /\ worker' = [worker EXCEPT ![w].step = "list",
                                ![w].target = @ + worker[w].add]
    /\ fresh' = fresh \ ({w} \X Shards)
    /\ UNCHANGED <<spec, size, setting, settingFresh, asked, requests>>

\* A conflict or another failure ends the resize; the shards that were already
\* written stay as they are.
RejectShard(w) ==
    /\ At(w, "update")
    /\ \/ <<w, worker[w].shard>> \notin fresh /\ Succeeds
       \/ Fails("shards")
    /\ Return(w)
    /\ fresh' = fresh \ ({w} \X Shards)
    /\ UNCHANGED <<spec, size, setting, settingFresh, asked, requests>>

-----------------------------------------------------------------------------
(***************************************************************************)
(* Autoscale settings and the checker.  A settings secret is listed once   *)
(* per run; its user_id label is never set, so the checker's tier check    *)
(* (main.go of autoscale-checker) never takes place.                       *)
(***************************************************************************)

\* The save of SetAutoscale, which replaces the secret whatever its version and
\* makes it when it is not there.  The owner was looked up before, so that a save
\* may come after the database was deleted.
SetAutoscale(d, value) ==
    /\ value \in {"on", "off"}
    /\ setting' = [setting EXCEPT ![d] = value]
    /\ settingFresh' = (settingFresh /\ worker[Checker].db # d)
    /\ UNCHANGED <<spec, size, fresh, worker, asked, requests, faults>>

\* DeleteDatabase deletes the secret.
DropSettings(d) ==
    /\ setting[d] # "gone"
    /\ setting' = [setting EXCEPT ![d] = "gone"]
    /\ settingFresh' = (settingFresh /\ worker[Checker].db # d)
    /\ UNCHANGED <<spec, size, fresh, worker, asked, requests, faults>>

StartCheck ==
    /\ worker[Checker] = Idle
    /\ Request
    /\ LET enabled == {d \in Databases : setting[d] = "on"}
       IN  /\ enabled # {}
           /\ worker' = [worker EXCEPT
                           ![Checker] = [Idle EXCEPT !.op = "autoscale",
                                                     !.step = "next",
                                                     !.queue = enabled]]
    /\ UNCHANGED <<spec, size, fresh, setting, settingFresh, asked, faults>>

\* The percentage of the present size, at least 1 GB.
IncrementGB ==
    LET percent == (CurrentGB * Increment) \div 100
    IN  IF percent < 1 THEN 1 ELSE percent

\* CheckAutoscale compares no usage with the threshold: it always scales.
CheckAutoscale(d) ==
    /\ At(Checker, "next")
    /\ d \in worker[Checker].queue
    /\ \/ /\ worker' = [worker EXCEPT ![Checker].step = "read",
                                      ![Checker].db = d,
                                      ![Checker].add = IncrementGB,
                                      ![Checker].queue = @ \ {d}]
          /\ Succeeds
       \/ /\ worker' = [worker EXCEPT ![Checker].queue = @ \ {d}]
          /\ Fails("volumes")
    /\ UNCHANGED <<spec, size, fresh, setting, settingFresh, asked, requests>>

\* recordAutoscaleEvent adds an annotation to the settings secret it fetches.
\* The annotations themselves are left out.
FetchSettings ==
    LET d == worker[Checker].db
    IN  /\ At(Checker, "settings")
        /\ \/ /\ setting[d] # "gone"
              /\ worker' = [worker EXCEPT ![Checker].step = "record",
                                          ![Checker].kept = setting[d]]
              /\ settingFresh' = TRUE
              /\ Succeeds
           \/ /\ (setting[d] = "gone" /\ Succeeds) \/ Fails("settings")
              /\ Return(Checker)
              /\ UNCHANGED settingFresh
        /\ UNCHANGED <<spec, size, fresh, setting, asked, requests>>

\* Mutant: the annotated secret replaces whatever is there.
RecordEventUnversioned ==
    /\ At(Checker, "record")
    /\ setting' = [setting EXCEPT ![worker[Checker].db] = worker[Checker].kept]
    /\ settingFresh' = FALSE
    /\ Return(Checker)
    /\ Succeeds
    /\ UNCHANGED <<spec, size, fresh, asked, requests>>

RecordEvent ==
    /\ At(Checker, "record")
    /\ \/ /\ settingFresh
          /\ setting' = [setting EXCEPT
                           ![worker[Checker].db] = worker[Checker].kept]
          /\ Succeeds
       \/ /\ (~settingFresh /\ Succeeds) \/ Fails("settings")
          /\ UNCHANGED setting
    /\ settingFresh' = FALSE
    /\ Return(Checker)
    /\ UNCHANGED <<spec, size, fresh, asked, requests>>

FinishCheck ==
    /\ At(Checker, "next")
    /\ worker[Checker].queue = {}
    /\ worker' = [worker EXCEPT ![Checker] = Idle]
    /\ UNCHANGED <<spec, size, fresh, setting, settingFresh, asked, requests,
                   faults>>
-----------------------------------------------------------------------------
\* The Vitess operator grows the volumes of a shard to what the shard asks
\* for.  A volume never shrinks.
GrowVolumes(s) ==
    /\ size[s] < spec[s].gb
    /\ size' = [size EXCEPT ![s] = spec[s].gb]
    /\ UNCHANGED <<spec, fresh, worker, setting, settingFresh, asked, requests,
                   faults>>

\* A replica goes down, or the checker's deadline of four minutes passes.
Crash(w) ==
    /\ worker[w] # Idle
    /\ Fails("crash")
    /\ worker' = [worker EXCEPT ![w] = Idle]
    /\ fresh' = fresh \ ({w} \X Shards)
    /\ settingFresh' = (settingFresh /\ w # Checker)
    /\ UNCHANGED <<spec, size, setting, asked, requests>>

Resize(w) ==
    \/ ReadStorage(w) \/ ReadCompute(w)
    \/ ListShards(w)
    \/ UpdateShard(w) \/ RejectShard(w)

Check ==
    \/ StartCheck
    \/ \E d \in Databases : CheckAutoscale(d)
    \/ FetchSettings \/ RecordEvent
    \/ FinishCheck

Settle(d) == DropSettings(d) \/ \E value \in {"on", "off"} : SetAutoscale(d, value)

Next ==
    \/ \E h \in Handlers : \E add \in Adds :
          StartStorage(h, add) \/ StartCompute(h, add)
    \/ \E w \in Workers : Resize(w) \/ Crash(w)
    \/ Check
    \/ \E d \in Databases : Settle(d)
    \/ \E s \in Shards : GrowVolumes(s)

Spec == Init /\ [][Next]_vars
-----------------------------------------------------------------------------
(***************************************************************************)
(* Properties.                                                             *)
(***************************************************************************)

\* No volume is ever asked to be larger than Hetzner sells, however requests
\* and the checker overlap: the sum that is checked in ResizeStorage is the
\* one that is written, many calls later, into every shard.
WithinVolumeLimit ==
    \A s \in Shards : spec[s].gb <= MaxVolumeSizeGB

\* Nobody is given more than was asked for: a conflict, a failure half-way
\* through the shards, a request that is repeated, or requests and checker that
\* overlap never add an amount twice.
NeverMoreThanAsked ==
    \A s \in Shards : /\ spec[s].gb <= InitialGB + asked.gb
                      /\ spec[s].cu <= InitialCU + asked.cu

\* Storage and compute of a shard are fields of one object, which every resize
\* writes as a whole: none of them takes back what another has written to the
\* other field.
OtherFieldKept ==
    [][ \A s \in Shards :
          /\ spec'[s].gb # spec[s].gb =>
               \E w \in Workers : /\ At(w, "update")
                                  /\ worker[w].op # "compute"
                                  /\ worker'[w] # worker[w]
          /\ spec'[s].cu # spec[s].cu =>
               \E w \in Workers : /\ At(w, "update")
                                  /\ worker[w].op = "compute"
                                  /\ worker'[w] # worker[w] ]_vars

\* The checker's note of an event never brings back settings that the user has
\* replaced, or a database's deletion has dropped, since the checker read them.
SettingsAreTheUsers ==
    [][ setting' # setting => UNCHANGED worker ]_vars
=============================================================================
