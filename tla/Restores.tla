------------------------------ MODULE Restores ------------------------------
(***************************************************************************)
(* Restores of a backup: HandleTriggerRestore and HandleRestoreStatus of   *)
(* package pitr.  A restore runs in a Kubernetes Job; what the API says of *)
(* it is an entry of activeRestores, a map that every replica keeps in its *)
(* own memory.  A goroutine creates the Job after the request has been     *)
(* answered, and the entry follows the Job only when somebody asks for the *)
(* status.                                                                 *)
(*                                                                         *)
(* The map and its entries are guarded by a sync.RWMutex.  A status        *)
(* request holds the read lock over all its calls to Kubernetes and writes *)
(* the entries under it; other status requests may do so at the same time. *)
(***************************************************************************)
EXTENDS Naturals, FiniteSets

CONSTANTS
    Restores,   \* restore ids, each the id of at most one request
    Replicas,   \* replicas of the API, each with its own map
    Pollers,    \* slots for status requests that run at the same time
    None,       \* no replica, no restore
    Faulty,     \* what may go wrong, see FaultAssumption
    MaxFaults   \* bound on failures

ASSUME SlotAssumption == None \notin Replicas \cup Restores

\* "create": Job creation is refused.  "answer": the Job is created and the
\* answer lost.  "get": a Job cannot be read.  "restart": a replica goes down.
\* "expire": a finished Job is cleaned up, an hour after its end.
ASSUME FaultAssumption ==
    /\ Faulty \subseteq {"create", "answer", "get", "restart", "expire"}
    /\ MaxFaults \in Nat

VARIABLES
    entry,     \* activeRestores of each replica: the status of each restore
    task,      \* the request, and then the goroutine, that starts a restore
    job,       \* the Job of each restore
    expired,   \* the restores whose Job has been cleaned up
    lost,      \* history: the restores whose Job was created unnoticed
    poller,    \* what each status request is doing
    faults     \* failures left

vars == <<entry, task, job, expired, lost, poller, faults>>

Statuses == {"none", "in-progress", "completed", "failed"}
Settled  == {"completed", "failed"}
Jobs     == {"none", "running", "succeeded", "failed"}
Steps    == {"idle", "insert", "create", "fail", "done"}

\* "todo" are the entries a status request has not come to yet, "id" the one
\* it is synchronising and "saw" the state of its Job.
Idle == [at |-> None, todo |-> {}, id |-> None, saw |-> "none"]

PollerStates == [at: Replicas \cup {None}, todo: SUBSET Restores,
                 id: Restores \cup {None}, saw: Jobs]

TypeOK ==
    /\ entry \in [Replicas -> [Restores -> Statuses]]
    /\ task \in [Restores -> [step: Steps, at: Replicas \cup {None}]]
    /\ job \in [Restores -> Jobs]
    /\ expired \subseteq Restores
    /\ lost \subseteq Restores
    /\ poller \in [Pollers -> PollerStates]
    /\ faults \in Nat

Fails(what) ==
    /\ what \in Faulty
    /\ faults > 0
    /\ faults' = faults - 1

Init ==
    /\ entry = [r \in Replicas |-> [i \in Restores |-> "none"]]
    /\ task = [i \in Restores |-> [step |-> "idle", at |-> None]]
    /\ job = [i \in Restores |-> "none"]
    /\ expired = {}
    /\ lost = {}
    /\ poller = [q \in Pollers |-> Idle]
    /\ faults = MaxFaults
-----------------------------------------------------------------------------
(***************************************************************************)
(* The lock.  A writer waits for the readers that are in; readers that come *)
(* later wait for it (sync.RWMutex).                                        *)
(***************************************************************************)
Readers(r) == {q \in Pollers : poller[q].at = r}

Writers(r) == {i \in Restores : task[i].at = r /\ task[i].step \in {"insert", "fail"}}

MayRead(r) == Writers(r) = {}

MayWrite(r) == Readers(r) = {}

Goto(i, step) == task' = [task EXCEPT ![i].step = step]

SetEntry(r, i, status) == entry' = [entry EXCEPT ![r][i] = status]
-----------------------------------------------------------------------------
(***************************************************************************)
(* HandleTriggerRestore.                                                   *)
(***************************************************************************)
Trigger(i, r) ==
    /\ task[i].step = "idle"
    /\ task' = [task EXCEPT ![i] = [step |-> "insert", at |-> r]]
    /\ UNCHANGED <<entry, job, expired, lost, poller, faults>>

\* The entry is made, the goroutine starts and the request is answered.
Insert(i) ==
    /\ task[i].step = "insert"
    /\ MayWrite(task[i].at)
    /\ SetEntry(task[i].at, i, "in-progress")
    /\ Goto(i, "create")
    /\ UNCHANGED <<job, expired, lost, poller, faults>>

\* createRestoreJob, with a deadline of five minutes.
CreateJob(i) ==
    /\ task[i].step = "create"
    /\ \/ /\ job' = [job EXCEPT ![i] = "running"]
          /\ Goto(i, "done")
          /\ UNCHANGED <<lost, faults>>
       \/ /\ job' = [job EXCEPT ![i] = "running"]
          /\ Goto(i, "fail")
          /\ lost' = lost \cup {i}
          /\ Fails("answer")
       \/ /\ Goto(i, "fail")
          /\ UNCHANGED <<job, lost>>
          /\ Fails("create")
    /\ UNCHANGED <<entry, expired, poller>>

\* Whatever the entry says by then, it says "failed" afterwards.
MarkFailed(i) ==
    /\ task[i].step = "fail"
    /\ MayWrite(task[i].at)
    /\ SetEntry(task[i].at, i, "failed")
    /\ Goto(i, "done")
    /\ UNCHANGED <<job, expired, lost, poller, faults>>
-----------------------------------------------------------------------------
(***************************************************************************)
(* HandleRestoreStatus, with or without a database_id: it visits some of   *)
(* the entries of its replica, in any order.                               *)
(***************************************************************************)
Listed(r) == {i \in Restores : entry[r][i] # "none"}

StartPoll(q, r, ids) ==
    /\ poller[q] = Idle
    /\ MayRead(r)
    /\ ids \subseteq Listed(r)
    /\ poller' = [poller EXCEPT ![q] = [Idle EXCEPT !.at = r, !.todo = ids]]
    /\ UNCHANGED <<entry, task, job, expired, lost, faults>>

\* An entry that is settled is copied into the answer as it is.
Skip(q, i) ==
    /\ poller[q].id = None
    /\ i \in poller[q].todo
    /\ entry[poller[q].at][i] # "in-progress"
    /\ poller' = [poller EXCEPT ![q].todo = @ \ {i}]
    /\ UNCHANGED <<entry, task, job, expired, lost, faults>>

\* syncJobStatus reads the Job.  One that cannot be read, or is not there,
\* leaves the entry in progress.
GetJob(q, i) ==
    /\ poller[q].id = None
    /\ i \in poller[q].todo
    /\ entry[poller[q].at][i] = "in-progress"
    /\ \/ /\ poller' = [poller EXCEPT
                          ![q].todo = @ \ {i},
                          ![q].id = i,
                          ![q].saw = IF i \in expired THEN "none" ELSE job[i]]
          /\ UNCHANGED faults
       \/ /\ poller' = [poller EXCEPT ![q].todo = @ \ {i}]
          /\ Fails("get")
    /\ UNCHANGED <<entry, task, job, expired, lost>>

\* Mutant: a Job that is not seen to fail counts as completed.
StatusUnlessFailed(saw, old) == IF saw = "failed" THEN "failed" ELSE "completed"

\* Mutant: a Job that is not there counts as failed.
StatusOfAbsent(saw, old) ==
    CASE saw = "succeeded" -> "completed"
      [] saw \in {"failed", "none"} -> "failed"
      [] OTHER -> old

\* Mutant: a Job that still runs puts the entry back in progress.
StatusResets(saw, old) ==
    CASE saw = "succeeded" -> "completed"
      [] saw = "failed" -> "failed"
      [] OTHER -> "in-progress"

\* Mutant: failed Jobs are not looked for.
StatusSucceededOnly(saw, old) == IF saw = "succeeded" THEN "completed" ELSE old

StatusOf(saw, old) ==
    CASE saw = "succeeded" -> "completed"
      [] saw = "failed" -> "failed"
      [] OTHER -> old

SyncEntry(q) ==
    LET r == poller[q].at
        i == poller[q].id
    IN  /\ i # None
        /\ SetEntry(r, i, StatusOf(poller[q].saw, entry[r][i]))
        /\ poller' = [poller EXCEPT ![q].id = None, ![q].saw = "none"]
        /\ UNCHANGED <<task, job, expired, lost, faults>>

EndPoll(q) ==
    /\ poller[q].at # None
    /\ poller[q].id = None
    /\ poller[q].todo = {}
    /\ poller' = [poller EXCEPT ![q] = Idle]
    /\ UNCHANGED <<entry, task, job, expired, lost, faults>>
-----------------------------------------------------------------------------
(***************************************************************************)
(* Kubernetes and the replicas.                                            *)
(***************************************************************************)

\* The Job has a backoff limit of 0: it runs once.
EndJob(i) ==
    /\ job[i] = "running"
    /\ \E outcome \in {"succeeded", "failed"} : job' = [job EXCEPT ![i] = outcome]
    /\ UNCHANGED <<entry, task, expired, lost, poller, faults>>

\* ttlSecondsAfterFinished.
ExpireJob(i) ==
    /\ job[i] \in {"succeeded", "failed"}
    /\ i \notin expired
    /\ Fails("expire")
    /\ expired' = expired \cup {i}
    /\ UNCHANGED <<entry, task, job, lost, poller>>

\* A replica goes down with its map and all that it was doing.
Restart(r) ==
    /\ Fails("restart")
    /\ entry' = [entry EXCEPT ![r] = [i \in Restores |-> "none"]]
    /\ task' = [i \in Restores |->
                   IF task[i].at = r THEN [task[i] EXCEPT !.step = "done"] ELSE task[i]]
    /\ poller' = [q \in Pollers |-> IF poller[q].at = r THEN Idle ELSE poller[q]]
    /\ UNCHANGED <<job, expired, lost>>

Work(i) == Insert(i) \/ CreateJob(i) \/ MarkFailed(i)

Answer(q) ==
    \/ \E i \in Restores : Skip(q, i) \/ GetJob(q, i)
    \/ SyncEntry(q)
    \/ EndPoll(q)

Ask(r) == \E q \in Pollers : \E ids \in SUBSET Restores : StartPoll(q, r, ids)

Next ==
    \/ \E i \in Restores : (\E r \in Replicas : Trigger(i, r)) \/ Work(i)
    \/ \E q \in Pollers : Answer(q)
    \/ \E r \in Replicas : Ask(r) \/ Restart(r)
    \/ \E i \in Restores : EndJob(i) \/ ExpireJob(i)

Spec == Init /\ [][Next]_vars

\* A status request and a goroutine run to their end: their calls to Kubernetes
\* have deadlines of ten seconds and of five minutes, and a writer that waits
\* for the lock is let in before later readers.  Nobody has to ask for a status,
\* and a Job may run for ever.
Fairness ==
    /\ \A i \in Restores : WF_vars(Work(i))
    /\ \A q \in Pollers : WF_vars(Answer(q))

FairSpec == Spec /\ Fairness
-----------------------------------------------------------------------------
(***************************************************************************)
(* Properties.                                                             *)
(***************************************************************************)

\* A restore that any replica reports as completed was done: its Job
\* succeeded (syncJobStatus), whoever else writes the entry at the same time.
CompletedIsTrue ==
    \A r \in Replicas : \A i \in Restores :
        entry[r][i] = "completed" => job[i] = "succeeded"

\* A restore that is reported as failed does not change the data any more: no
\* Job of it is running or has succeeded (HandleTriggerRestore, syncJobStatus).
\* It is not so of a Job whose creation was noticed by nobody.
FailedIsTrue ==
    \A r \in Replicas : \A i \in Restores \ lost :
        entry[r][i] = "failed" => job[i] \in {"none", "failed"}

\* What a replica has said of a restore that ended it goes on saying until it
\* restarts, although status requests that saw the Job at different times
\* write the entry in any order, under a lock that does not keep them apart.
SettledStays ==
    [][ \A r \in Replicas : \A i \in Restores \ lost :
          entry[r][i] \in Settled => entry'[r][i] \in {entry[r][i], "none"} ]_vars

\* Whether a restore was accepted and its Job may still be created, and the
\* Jobs whose goroutine is about to report a failure that was none.
StageAt(step) == CASE step \in {"idle", "insert"} -> "new"
                   [] step = "create" -> "open"
                   [] OTHER -> "closed"

Stage == [i \in Restores |-> StageAt(task[i].step)]

Unsure == {i \in lost : task[i].step = "fail"}

\* Restores keeps what RestoreReports promises: whatever status requests, the
\* goroutine, restarts and failures write the entries in whatever order, a
\* report begins and ends once and is true, but for the one that the goroutine
\* makes of a Job whose creation it did not notice (HandleTriggerRestore,
\* HandleRestoreStatus, syncJobStatus).
Reports ==
    INSTANCE RestoreReports WITH stage <- Stage, fate <- job, report <- entry,
                                 unsure <- Unsure
ReportsSpec == Reports!Spec

\* What is still to be noted of a restore: its Job could not be created, or has
\* ended and a status request has yet to come to its entry.
ToBeNoted(r, i) ==
    \/ task[i] = [step |-> "fail", at |-> r]
    \/ /\ job[i] \in {"succeeded", "failed"} /\ i \notin expired
       /\ \E q \in Pollers : poller[q].at = r /\ i \in poller[q].todo

\* One look settles an entry ("Sync status from the K8s Job if still in-progress"):
\* what is to be noted of a restore is noted, however status requests and new
\* restores contend for the lock, unless something fails meanwhile.
RestoreSettles ==
    \A r \in Replicas : \A i \in Restores : \A n \in 0 .. MaxFaults :
        (ToBeNoted(r, i) /\ faults = n) ~> (entry[r][i] \in Settled \/ faults < n)
=============================================================================
