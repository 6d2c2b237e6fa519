--------------------------- MODULE RestoresProofs ---------------------------
(***************************************************************************)
(* Proofs about Restores: for every number of restores, replicas and       *)
(* status requests, and whatever fails, what the API reports of a restore  *)
(* that ended is true and stays.                                           *)
(*                                                                         *)
(* The argument: a status request writes what it saw of a Job that had     *)
(* ended, and a Job that has ended does not change; and while a goroutine  *)
(* is still to write "failed", its Job does not exist, unless the answer   *)
(* of its creation was lost.                                               *)
(***************************************************************************)
EXTENDS Restores, TLAPS

\* What a status request is about to write was the end of the Job.
SawTheEnd ==
    \A q \in Pollers :
        /\ poller[q].saw # "none" => poller[q].id \in Restores
        /\ poller[q].saw \in {"succeeded", "failed"} =>
             job[poller[q].id] = poller[q].saw

\* A Job is created once, by its goroutine.
JobOfTask(i) ==
    /\ task[i].step \in {"idle", "insert", "create"} => job[i] = "none"
    /\ task[i].step = "fail" /\ i \notin lost => job[i] = "none"

\* An entry that says "failed" although there never was a Job is the work of a
\* goroutine that will not create one.
FailedForGood(r, i) ==
    entry[r][i] = "failed" /\ i \notin lost =>
        job[i] = "failed" \/ (job[i] = "none" /\ task[i].step = "done")

RestoreInv ==
    /\ TypeOK
    /\ SawTheEnd
    /\ \A i \in Restores : JobOfTask(i)
    /\ CompletedIsTrue
    /\ \A r \in Replicas : \A i \in Restores : FailedForGood(r, i)

LEMMA InitRestoreInv == Init => RestoreInv
<1> SUFFICES ASSUME Init
             PROVE  RestoreInv
  OBVIOUS
<1> USE FaultAssumption DEF Init
<1>1. TypeOK
  BY DEF TypeOK, Idle, PollerStates, Statuses, Jobs, Steps
<1>2. SawTheEnd
  BY DEF SawTheEnd, Idle
<1>3. \A i \in Restores : JobOfTask(i)
  BY DEF JobOfTask
<1>4. CompletedIsTrue
  BY DEF CompletedIsTrue
<1>5. \A r \in Replicas : \A i \in Restores : FailedForGood(r, i)
  BY DEF FailedForGood
<1> QED
  BY <1>1, <1>2, <1>3, <1>4, <1>5 DEF RestoreInv
-----------------------------------------------------------------------------
\* The steps of the goroutine and of the request that starts it.
LEMMA WorkKeepsInv ==
    ASSUME RestoreInv, NEW i \in Restores,
           (\E r \in Replicas : Trigger(i, r)) \/ Work(i)
    PROVE  RestoreInv'
<1> USE DEF RestoreInv
<1>1. CASE \E r \in Replicas : Trigger(i, r)
  <2> PICK r \in Replicas : Trigger(i, r)
    BY <1>1
  <2> USE DEF Trigger
  <2>1. TypeOK'
    BY DEF TypeOK, Steps
  <2>2. SawTheEnd'
    BY DEF SawTheEnd
  <2>3. \A k \in Restores : JobOfTask(k)'
    BY DEF JobOfTask, TypeOK
  <2>4. CompletedIsTrue'
    BY DEF CompletedIsTrue
  <2>5. \A s \in Replicas : \A k \in Restores : FailedForGood(s, k)'
    BY DEF FailedForGood, TypeOK
  <2> QED
    BY <2>1, <2>2, <2>3, <2>4, <2>5
<1>2. CASE Insert(i)
  <2> USE <1>2 DEF Insert, SetEntry, Goto
  <2>1. TypeOK'
    BY DEF TypeOK, Steps, Statuses
  <2>2. SawTheEnd'
    BY DEF SawTheEnd
  <2>3. \A k \in Restores : JobOfTask(k)'
    BY DEF JobOfTask, TypeOK
  <2>4. CompletedIsTrue'
    BY DEF CompletedIsTrue, TypeOK
  <2>5. \A s \in Replicas : \A k \in Restores : FailedForGood(s, k)'
    BY DEF FailedForGood, TypeOK
  <2> QED
    BY <2>1, <2>2, <2>3, <2>4, <2>5
<1>3. CASE CreateJob(i)
  <2> USE <1>3 DEF CreateJob, Goto
  <2>0. /\ task[i].step = "create" /\ job[i] = "none"
        /\ job' \in {job, [job EXCEPT ![i] = "running"]}
        /\ task'[i].step \in {"done", "fail"}
        /\ task'[i].step = "fail" /\ i \notin lost' => job' = job
        /\ \A k \in Restores \ {i} : task'[k] = task[k]
        /\ lost \subseteq lost' /\ lost' \subseteq lost \cup {i}
        /\ UNCHANGED <<entry, poller>>
    BY DEF JobOfTask, TypeOK, Fails
  <2>1. TypeOK'
    <3>1. job' \in [Restores -> Jobs]
      BY <2>0 DEF TypeOK, Jobs
    <3>2. task' \in [Restores -> [step: Steps, at: Replicas \cup {None}]]
      <4>1. \/ task' = [task EXCEPT ![i].step = "done"]
            \/ task' = [task EXCEPT ![i].step = "fail"]
        OBVIOUS
      <4>2. task \in [Restores -> [step: Steps, at: Replicas \cup {None}]]
        BY DEF TypeOK
      <4> HIDE <1>3 DEF CreateJob, Goto, RestoreInv
      <4> QED
        BY <4>1, <4>2 DEF Steps
    <3>3. faults' \in Nat
      BY DEF TypeOK, Fails
    <3>4. expired' = expired
      OBVIOUS
    <3> QED
      BY <2>0, <3>1, <3>2, <3>3, <3>4 DEF TypeOK
  <2>2. SawTheEnd'
    <3>1. \A k \in Restores : job[k] # "none" => job'[k] = job[k]
      BY <2>0 DEF TypeOK
    <3> QED
      BY <2>0, <3>1 DEF SawTheEnd
  <2>3. \A k \in Restores : JobOfTask(k)'
    BY <2>0 DEF JobOfTask, TypeOK
  <2>4. CompletedIsTrue'
    BY <2>0 DEF CompletedIsTrue, TypeOK
  <2>5. \A s \in Replicas : \A k \in Restores : FailedForGood(s, k)'
    BY <2>0 DEF FailedForGood, TypeOK
  <2> QED
    BY <2>1, <2>2, <2>3, <2>4, <2>5
<1>4. CASE MarkFailed(i)
  <2> USE <1>4 DEF MarkFailed, SetEntry, Goto
  <2>1. TypeOK'
    BY DEF TypeOK, Steps, Statuses
  <2>2. SawTheEnd'
    BY DEF SawTheEnd
  <2>3. \A k \in Restores : JobOfTask(k)'
    BY DEF JobOfTask, TypeOK
  <2>4. CompletedIsTrue'
    BY DEF CompletedIsTrue, TypeOK
  <2>5. \A s \in Replicas : \A k \in Restores : FailedForGood(s, k)'
    BY DEF FailedForGood, JobOfTask, TypeOK
  <2> QED
    BY <2>1, <2>2, <2>3, <2>4, <2>5
<1> QED
  BY <1>1, <1>2, <1>3, <1>4 DEF Work
-----------------------------------------------------------------------------
\* The steps of a status request.  Only SyncEntry writes an entry.
LEMMA PollKeepsInv ==
    ASSUME RestoreInv, NEW q \in Pollers,
           \/ \E r \in Replicas : \E ids \in SUBSET Restores : StartPoll(q, r, ids)
           \/ Answer(q)
    PROVE  RestoreInv'
<1> USE DEF RestoreInv
<1>1. CASE SyncEntry(q)
  <2> DEFINE i == poller[q].id
             r == poller[q].at
             new == StatusOf(poller[q].saw, entry[r][i])
  <2>1. /\ i \in Restores
        /\ entry' = [entry EXCEPT ![r][i] = new]
        /\ poller' = [poller EXCEPT ![q].id = None, ![q].saw = "none"]
        /\ UNCHANGED <<task, job, expired, lost, faults>>
    BY <1>1 DEF SyncEntry, SetEntry, TypeOK, PollerStates
  <2>2. /\ new = "completed" =>
              job[i] = "succeeded" \/ entry[r][i] = "completed"
        /\ new = "failed" => job[i] = "failed" \/ entry[r][i] = "failed"
        /\ new \in Statuses \cup {entry[r][i]}
    BY <2>1 DEF StatusOf, SawTheEnd, Statuses
  <2> HIDE DEF new
  <2>3. \A s \in Replicas : \A k \in Restores :
            \/ entry'[s][k] = entry[s][k]
            \/ s = r /\ k = i /\ entry'[s][k] = new
    BY <2>1 DEF TypeOK
  <2>4. TypeOK'
    <3>1. entry' \in [Replicas -> [Restores -> Statuses]]
      <4>1. r \in Replicas => new \in Statuses
        BY <2>1, <2>2 DEF TypeOK
      <4> HIDE DEF r
      <4> QED
        BY <2>1, <4>1 DEF TypeOK
    <3>2. poller' \in [Pollers -> PollerStates]
      <4>1. [poller[q] EXCEPT !.id = None, !.saw = "none"] \in PollerStates
        BY DEF TypeOK, PollerStates, Jobs
      <4> QED
        BY <2>1, <4>1 DEF TypeOK
    <3> QED
      BY <2>1, <3>1, <3>2 DEF TypeOK
  <2>5. SawTheEnd'
    BY <2>1 DEF SawTheEnd, TypeOK
  <2>6. \A k \in Restores : JobOfTask(k)'
    BY <2>1 DEF JobOfTask
  <2>7. CompletedIsTrue'
    BY <2>1, <2>2, <2>3 DEF CompletedIsTrue
  <2>8. \A s \in Replicas : \A k \in Restores : FailedForGood(s, k)'
    BY <2>1, <2>2, <2>3 DEF FailedForGood
  <2> QED
    BY <2>4, <2>5, <2>6, <2>7, <2>8
<1>2. ASSUME NEW r \in Replicas, NEW ids \in SUBSET Restores,
             StartPoll(q, r, ids)
      PROVE  RestoreInv'
  <2>1. /\ UNCHANGED <<entry, task, job, expired, lost, faults>>
        /\ poller' = [poller EXCEPT ![q] = [Idle EXCEPT !.at = r, !.todo = ids]]
    BY <1>2 DEF StartPoll
  <2>2. [Idle EXCEPT !.at = r, !.todo = ids] \in PollerStates
    BY DEF Idle, PollerStates, Jobs
  <2>3. TypeOK' /\ SawTheEnd'
    BY <2>1, <2>2 DEF Idle, TypeOK, SawTheEnd
  <2> QED
    BY <2>1, <2>3 DEF JobOfTask, CompletedIsTrue, FailedForGood
<1>3. ASSUME NEW i \in Restores, Skip(q, i)
      PROVE  RestoreInv'
  <2>1. /\ UNCHANGED <<entry, task, job, expired, lost, faults>>
        /\ poller' = [poller EXCEPT ![q].todo = @ \ {i}]
    BY <1>3 DEF Skip
  <2>2. TypeOK' /\ SawTheEnd'
    BY ZenonT(60), <2>1 DEF TypeOK, PollerStates, SawTheEnd
  <2> QED
    BY <2>1, <2>2 DEF JobOfTask, CompletedIsTrue, FailedForGood
<1>4. ASSUME NEW i \in Restores, GetJob(q, i)
      PROVE  RestoreInv'
  <2>1. /\ UNCHANGED <<entry, task, job, expired, lost>>
        /\ faults' \in Nat
    BY <1>4 DEF GetJob, Fails, TypeOK
  <2>2. CASE poller' = [poller EXCEPT ![q].todo = @ \ {i}]
    <3>1. TypeOK' /\ SawTheEnd'
      BY ZenonT(60), <2>1, <2>2 DEF TypeOK, PollerStates, SawTheEnd
    <3> QED
      BY <2>1, <3>1 DEF JobOfTask, CompletedIsTrue, FailedForGood
  <2>3. CASE poller' = [poller EXCEPT
                          ![q].todo = @ \ {i},
                          ![q].id = i,
                          ![q].saw = IF i \in expired THEN "none" ELSE job[i]]
    <3> DEFINE saw == IF i \in expired THEN "none" ELSE job[i]
    <3>1. saw \in Jobs /\ (saw # "none" => saw = job[i])
      BY DEF TypeOK, Jobs
    <3>2. poller' = [poller EXCEPT ![q].todo = @ \ {i}, ![q].id = i, ![q].saw = saw]
      BY <2>3
    <3> HIDE DEF saw
    <3>3. [poller[q] EXCEPT !.todo = @ \ {i}, !.id = i, !.saw = saw] \in PollerStates
      BY <3>1 DEF TypeOK, PollerStates
    <3>4. TypeOK'
      BY <2>1, <3>2, <3>3 DEF TypeOK
    <3>5. poller'[q].id = i /\ poller'[q].saw = saw
      BY <3>2 DEF TypeOK, PollerStates
    <3>6. \A p \in Pollers \ {q} : poller'[p] = poller[p]
      BY <3>2 DEF TypeOK
    <3>7. SawTheEnd'
      BY <2>1, <3>1, <3>5, <3>6 DEF SawTheEnd
    <3> QED
      BY <2>1, <3>4, <3>7 DEF JobOfTask, CompletedIsTrue, FailedForGood
  <2> QED
    BY <1>4, <2>2, <2>3 DEF GetJob
<1>5. CASE EndPoll(q)
  <2>1. /\ UNCHANGED <<entry, task, job, expired, lost, faults>>
        /\ poller' = [poller EXCEPT ![q] = Idle]
    BY <1>5 DEF EndPoll
  <2>2. TypeOK' /\ SawTheEnd'
    BY <2>1 DEF Idle, TypeOK, PollerStates, Jobs, SawTheEnd
  <2> QED
    BY <2>1, <2>2 DEF JobOfTask, CompletedIsTrue, FailedForGood
<1> QED
  BY <1>1, <1>2, <1>3, <1>4, <1>5 DEF Answer
-----------------------------------------------------------------------------
\* Kubernetes ends and removes Jobs; a replica restarts.
LEMMA OutsideKeepsInv ==
    ASSUME RestoreInv,
           \/ \E i \in Restores : EndJob(i) \/ ExpireJob(i)
           \/ \E r \in Replicas : Restart(r)
    PROVE  RestoreInv'
<1> USE DEF RestoreInv
<1>1. ASSUME NEW i \in Restores, EndJob(i)
      PROVE  RestoreInv'
  <2>1. /\ job[i] = "running" /\ job'[i] \in {"succeeded", "failed"}
        /\ \A k \in Restores \ {i} : job'[k] = job[k]
        /\ job' \in [Restores -> Jobs]
        /\ UNCHANGED <<entry, task, expired, lost, poller, faults>>
    BY <1>1 DEF EndJob, TypeOK, Jobs
  <2>2. TypeOK' /\ SawTheEnd'
    BY <2>1 DEF TypeOK, SawTheEnd
  <2>3. \A k \in Restores : JobOfTask(k)'
    BY <2>1 DEF JobOfTask
  <2>4. CompletedIsTrue'
    BY <2>1 DEF CompletedIsTrue
  <2>5. \A s \in Replicas : \A k \in Restores : FailedForGood(s, k)'
    BY <2>1 DEF FailedForGood
  <2> QED
    BY <2>2, <2>3, <2>4, <2>5
<1>2. ASSUME NEW i \in Restores, ExpireJob(i)
      PROVE  RestoreInv'
  BY <1>2 DEF ExpireJob, Fails, TypeOK, SawTheEnd, JobOfTask, CompletedIsTrue,
     FailedForGood
<1>3. ASSUME NEW r \in Replicas, Restart(r)
      PROVE  RestoreInv'
  <2>1. /\ \A k \in Restores : entry'[r][k] = "none"
        /\ \A s \in Replicas \ {r} : entry'[s] = entry[s]
        /\ \A k \in Restores : \/ task'[k] = task[k]
                               \/ task'[k].step = "done"
        /\ \A q \in Pollers : poller'[q] \in {Idle, poller[q]}
        /\ UNCHANGED <<job, expired, lost>>
    BY <1>3 DEF Restart, TypeOK
  <2>2. TypeOK'
    <3>1. task' \in [Restores -> [step: Steps, at: Replicas \cup {None}]]
      BY <1>3 DEF Restart, TypeOK, Steps
    <3>2. poller' \in [Pollers -> PollerStates]
      BY <1>3 DEF Restart, TypeOK, PollerStates, Idle, Jobs
    <3> QED
      BY <1>3, <3>1, <3>2 DEF Restart, Fails, TypeOK, Statuses
  <2>3. SawTheEnd'
    BY <2>1 DEF SawTheEnd, Idle
  <2>4. \A k \in Restores : JobOfTask(k)'
    BY <2>1 DEF JobOfTask
  <2>5. CompletedIsTrue'
    BY <2>1 DEF CompletedIsTrue
  <2>6. \A s \in Replicas : \A k \in Restores : FailedForGood(s, k)'
    BY <2>1 DEF FailedForGood
  <2> QED
    BY <2>2, <2>3, <2>4, <2>5, <2>6
<1> QED
  BY <1>1, <1>2, <1>3

LEMMA NextKeepsInv == RestoreInv /\ [Next]_vars => RestoreInv'
<1> SUFFICES ASSUME RestoreInv, [Next]_vars
             PROVE  RestoreInv'
  OBVIOUS
<1>1. CASE UNCHANGED vars
  BY <1>1 DEF vars, RestoreInv, TypeOK, SawTheEnd, JobOfTask, CompletedIsTrue,
     FailedForGood
<1>2. CASE Next
  BY <1>2, WorkKeepsInv, PollKeepsInv, OutsideKeepsInv DEF Next, Ask
<1> QED
  BY <1>1, <1>2

LEMMA Inductive == Spec => []RestoreInv
  BY InitRestoreInv, NextKeepsInv, PTL DEF Spec
-----------------------------------------------------------------------------
\* Entries, Jobs, goroutines and status requests stay in their ranges.
THEOREM TypeCorrect == Spec => []TypeOK
<1>1. RestoreInv => TypeOK
  BY DEF RestoreInv
<1> QED
  BY <1>1, Inductive, PTL

\* No replica ever reports a restore as completed that was not done, for any
\* number of status requests that write the entries under the shared lock.
THEOREM CompletedReportsTrue == Spec => []CompletedIsTrue
<1>1. RestoreInv => CompletedIsTrue
  BY DEF RestoreInv
<1> QED
  BY <1>1, Inductive, PTL

\* A restore that is reported as failed neither runs nor has succeeded, unless
\* its Job was created and the answer lost.
THEOREM FailedReportsTrue == Spec => []FailedIsTrue
<1>1. RestoreInv => FailedIsTrue
  BY DEF RestoreInv, FailedForGood, FailedIsTrue
<1> QED
  BY <1>1, Inductive, PTL

\* What a replica says of a restore that ended does not change until it
\* restarts, in whatever order status requests and the goroutine write it.
THEOREM SettledForGood == Spec => SettledStays
<1> DEFINE Kept == \A r \in Replicas : \A i \in Restores \ lost :
                     entry[r][i] \in Settled => entry'[r][i] \in {entry[r][i], "none"}
<1>1. ASSUME RestoreInv, [Next]_vars
      PROVE  Kept
  <2> SUFFICES ASSUME NEW r \in Replicas, NEW i \in Restores \ lost,
                      entry[r][i] \in Settled
               PROVE  entry'[r][i] \in {entry[r][i], "none"}
    OBVIOUS
  <2> USE <1>1 DEF RestoreInv
  <2>1. entry[r][i] = "completed" => job[i] = "succeeded"
    BY DEF CompletedIsTrue
  <2>2. entry[r][i] = "failed" =>
            job[i] = "failed" \/ (job[i] = "none" /\ task[i].step = "done")
    <3>1. FailedForGood(r, i)
      OBVIOUS
    <3> QED
      BY <3>1 DEF FailedForGood
  <2>3. CASE entry' = entry
    BY <2>3
  <2>4. ASSUME NEW k \in Restores, Insert(k)
        PROVE  entry'[r][i] = entry[r][i]
    <3>1. job[k] = "none" /\ task[k].step = "insert"
      BY <2>4 DEF Insert, JobOfTask
    <3>2. k # i
      BY <2>1, <2>2, <3>1 DEF Settled
    <3> QED
      BY <2>4, <3>2 DEF Insert, SetEntry, TypeOK
  <2>5. ASSUME NEW k \in Restores, MarkFailed(k)
        PROVE  entry'[r][i] = entry[r][i]
    <3>1. k = i => job[i] = "none" /\ task[i].step = "fail"
      BY <2>5 DEF MarkFailed, JobOfTask
    <3>2. k # i
      BY <2>1, <2>2, <3>1 DEF Settled
    <3> QED
      BY <2>5, <3>2 DEF MarkFailed, SetEntry, TypeOK
  <2>6. ASSUME NEW q \in Pollers, SyncEntry(q)
        PROVE  entry'[r][i] = entry[r][i]
    <3> DEFINE new == StatusOf(poller[q].saw, entry[poller[q].at][poller[q].id])
    <3>1. entry' = [entry EXCEPT ![poller[q].at][poller[q].id] = new]
      BY <2>6 DEF SyncEntry, SetEntry
    <3>2. poller[q].at = r /\ poller[q].id = i => new = entry[r][i]
      BY <2>1, <2>2 DEF StatusOf, SawTheEnd, Settled
    <3> HIDE DEF new
    <3> QED
      BY <3>1, <3>2 DEF TypeOK
  <2>7. ASSUME NEW s \in Replicas, Restart(s)
        PROVE  entry'[r][i] \in {entry[r][i], "none"}
    <3>1. entry' = [entry EXCEPT ![s] = [k \in Restores |-> "none"]]
      BY <2>7 DEF Restart
    <3> QED
      BY <3>1 DEF TypeOK
  <2>8. \/ entry' = entry
        \/ \E k \in Restores : Insert(k) \/ MarkFailed(k)
        \/ \E q \in Pollers : SyncEntry(q)
        \/ \E s \in Replicas : Restart(s)
    BY DEF Next, vars, Trigger, Work, CreateJob, Answer, Ask, StartPoll, Skip,
       GetJob, EndPoll, EndJob, ExpireJob
  <2> QED
    BY <2>3, <2>4, <2>5, <2>6, <2>7, <2>8
<1> QED
  BY <1>1, Inductive, PTL DEF Spec, SettledStays
-----------------------------------------------------------------------------
(***************************************************************************)
(* Restores implements RestoreReports.  What it takes besides RestoreInv:  *)
(* the goroutine's entry is there as long as the goroutine is, and between *)
(* its two looks at the map a status request holds the read lock, so that  *)
(* the entry it is about to write is still in progress, or was settled by  *)
(* another status request that saw the same end of the Job.                *)
(***************************************************************************)
HasEntry(i) ==
    /\ task[i].step \in {"insert", "create", "fail"} => task[i].at \in Replicas
    /\ task[i].step \in {"create", "fail"} => entry[task[i].at][i] # "none"
    /\ i \in lost => task[i].step \in {"fail", "done"}

Agrees(r, i) ==
    \/ entry[r][i] = "in-progress"
    \/ entry[r][i] = "completed" /\ job[i] = "succeeded"
    \/ entry[r][i] = "failed" /\ job[i] = "failed"

LookedAt ==
    \A q \in Pollers : poller[q].id # None =>
        /\ poller[q].at \in Replicas
        /\ Agrees(poller[q].at, poller[q].id)

Waits == \A q \in Pollers : poller[q].todo # {} => poller[q].at \in Replicas

ReportInv ==
    /\ RestoreInv
    /\ \A i \in Restores : HasEntry(i)
    /\ LookedAt
    /\ Waits

LEMMA InitReportInv == Init => ReportInv
BY InitRestoreInv DEF Init, ReportInv, HasEntry, LookedAt, Waits, Idle

LEMMA WorkKeepsEntries ==
    ASSUME ReportInv, NEW i \in Restores,
           (\E r \in Replicas : Trigger(i, r)) \/ Work(i)
    PROVE  (\A k \in Restores : HasEntry(k)') /\ LookedAt' /\ Waits'
<1> USE DEF ReportInv, RestoreInv, TypeOK
<1>0. poller' = poller
  BY DEF Trigger, Work, Insert, CreateJob, MarkFailed
<1>1. Waits'
  BY <1>0 DEF Waits
<1>2. \A k \in Restores \ {i} : task'[k] = task[k] /\ (k \in lost' <=> k \in lost)
  BY DEF Trigger, Work, Insert, CreateJob, MarkFailed, Goto
<1>3. CASE \E r \in Replicas : Trigger(i, r)
  BY <1>0, <1>1, <1>3 DEF Trigger, HasEntry, LookedAt, Agrees
<1>4. CASE Insert(i)
  <2>1. /\ task'[i].step = "create" /\ task'[i].at = task[i].at
        /\ task[i].at \in Replicas
        /\ entry' = [entry EXCEPT ![task[i].at][i] = "in-progress"]
        /\ UNCHANGED <<job, lost, poller>> /\ i \notin lost
    BY <1>4 DEF Insert, Goto, SetEntry, HasEntry
  <2>2. \A k \in Restores : HasEntry(k)'
    BY <1>2, <2>1 DEF HasEntry
  <2>3. LookedAt'
    BY <2>1 DEF LookedAt, Agrees, PollerStates
  <2> QED
    BY <1>1, <2>2, <2>3
<1>5. CASE CreateJob(i)
  <2>1. /\ task[i].step = "create" /\ job[i] = "none"
        /\ task'[i].step \in {"done", "fail"} /\ task'[i].at = task[i].at
        /\ \A k \in Restores \ {i} : job'[k] = job[k]
        /\ UNCHANGED <<entry, poller>>
    BY <1>5 DEF CreateJob, Goto, JobOfTask
  <2>2. \A k \in Restores : HasEntry(k)'
    BY <1>2, <2>1 DEF HasEntry
  <2>3. LookedAt'
    BY <2>1 DEF LookedAt, Agrees, PollerStates
  <2> QED
    BY <1>1, <2>2, <2>3
<1>6. CASE MarkFailed(i)
  <2>1. /\ task'[i].step = "done" /\ UNCHANGED <<job, lost, poller>>
        /\ task[i].at \in Replicas
        /\ entry' = [entry EXCEPT ![task[i].at][i] = "failed"]
        /\ \A q \in Pollers : poller[q].at # task[i].at
    BY <1>6 DEF MarkFailed, Goto, SetEntry, HasEntry, MayWrite, Readers
  <2>2. \A k \in Restores : HasEntry(k)'
    BY <1>2, <2>1 DEF HasEntry
  <2>3. LookedAt'
    BY <2>1 DEF LookedAt, Agrees, PollerStates
  <2> QED
    BY <1>1, <2>2, <2>3
<1> QED
  BY <1>3, <1>4, <1>5, <1>6 DEF Work

LEMMA PollKeepsEntries ==
    ASSUME ReportInv, NEW q \in Pollers,
           \/ \E r \in Replicas : \E ids \in SUBSET Restores : StartPoll(q, r, ids)
           \/ Answer(q)
    PROVE  (\A k \in Restores : HasEntry(k)') /\ LookedAt' /\ Waits'
<1> USE DEF ReportInv, RestoreInv, TypeOK
<1>1. CASE SyncEntry(q)
  <2> DEFINE i == poller[q].id
             r == poller[q].at
             new == StatusOf(poller[q].saw, entry[r][i])
  <2>1. /\ i \in Restores /\ r \in Replicas
        /\ entry' = [entry EXCEPT ![r][i] = new]
        /\ poller'[q].id = None /\ poller'[q].todo = poller[q].todo
        /\ poller'[q].at = poller[q].at
        /\ \A p \in Pollers \ {q} : poller'[p] = poller[p]
        /\ UNCHANGED <<task, job, lost>>
    BY <1>1 DEF SyncEntry, SetEntry, LookedAt, PollerStates
  <2>2. /\ Agrees(r, i)
        /\ poller[q].saw \in {"succeeded", "failed"} => job[i] = poller[q].saw
    BY <2>1, SlotAssumption DEF LookedAt, SawTheEnd
  <2>3. \/ new = "in-progress"
        \/ new = "completed" /\ job[i] = "succeeded"
        \/ new = "failed" /\ job[i] = "failed"
    BY <2>2 DEF StatusOf, Agrees
  <2> HIDE DEF new
  <2>4. \A k \in Restores : HasEntry(k)'
    BY <2>1, <2>3 DEF HasEntry
  <2>5. LookedAt'
    BY <2>1, <2>3 DEF LookedAt, Agrees, PollerStates
  <2>6. Waits'
    BY <2>1 DEF Waits
  <2> QED
    BY <2>4, <2>5, <2>6
<1>2. ASSUME UNCHANGED <<entry, task, job, lost>>,
             \A p \in Pollers \ {q} : poller'[p] = poller[p],
             poller'[q].id # None =>
               poller'[q].at \in Replicas /\ Agrees(poller'[q].at, poller'[q].id),
             poller'[q].todo # {} => poller'[q].at \in Replicas
      PROVE  (\A k \in Restores : HasEntry(k)') /\ LookedAt' /\ Waits'
  BY <1>2 DEF HasEntry, LookedAt, Agrees, Waits
<1>3. CASE \E r \in Replicas : \E ids \in SUBSET Restores : StartPoll(q, r, ids)
  BY <1>2, <1>3 DEF StartPoll, Idle
<1>4. CASE \E i \in Restores : Skip(q, i)
  <2>1. /\ poller'[q].id = None /\ poller'[q].at = poller[q].at
        /\ poller[q].todo # {}
    BY <1>4 DEF Skip, PollerStates
  <2> QED
    BY <1>2, <1>4, <2>1 DEF Skip, Waits
<1>5. ASSUME NEW i \in Restores, GetJob(q, i)
      PROVE  (\A k \in Restores : HasEntry(k)') /\ LookedAt' /\ Waits'
  <2>1. /\ poller[q].at \in Replicas /\ entry[poller[q].at][i] = "in-progress"
        /\ poller'[q].at = poller[q].at /\ poller'[q].id \in {i, None}
        /\ \A p \in Pollers \ {q} : poller'[p] = poller[p]
    BY <1>5 DEF GetJob, PollerStates, Waits
  <2> QED
    BY <1>2, <1>5, <2>1 DEF GetJob, Agrees
<1>6. CASE EndPoll(q)
  BY <1>2, <1>6 DEF EndPoll, Idle
<1> QED
  BY <1>1, <1>3, <1>4, <1>5, <1>6 DEF Answer

LEMMA NextReportInv == ReportInv /\ [Next]_vars => ReportInv'
<1> SUFFICES ASSUME ReportInv, [Next]_vars
             PROVE  (\A k \in Restores : HasEntry(k)') /\ LookedAt' /\ Waits'
  BY NextKeepsInv DEF ReportInv
<1> USE DEF ReportInv, RestoreInv, TypeOK
<1>1. CASE UNCHANGED vars
  BY <1>1 DEF vars, HasEntry, LookedAt, Agrees, Waits
<1>2. ASSUME NEW i \in Restores, EndJob(i) \/ ExpireJob(i)
      PROVE  (\A k \in Restores : HasEntry(k)') /\ LookedAt' /\ Waits'
  <2>1. /\ UNCHANGED <<entry, task, lost, poller>>
        /\ \A k \in Restores : job[k] \in {"succeeded", "failed"} => job'[k] = job[k]
    BY <1>2 DEF EndJob, ExpireJob
  <2> QED
    BY <2>1 DEF HasEntry, LookedAt, Agrees, Waits, PollerStates
<1>3. ASSUME NEW r \in Replicas, Restart(r)
      PROVE  (\A k \in Restores : HasEntry(k)') /\ LookedAt' /\ Waits'
  <2>1. /\ \A s \in Replicas \ {r} : entry'[s] = entry[s]
        /\ UNCHANGED <<job, lost>>
        /\ \A k \in Restores : IF task[k].at = r
                                  THEN task'[k].step = "done" ELSE task'[k] = task[k]
        /\ \A q \in Pollers : IF poller[q].at = r
                                 THEN poller'[q] = Idle ELSE poller'[q] = poller[q]
    BY <1>3 DEF Restart
  <2>2. \A k \in Restores : HasEntry(k)'
    BY <2>1 DEF HasEntry
  <2>3. Waits'
    BY <2>1 DEF Waits, Idle
  <2>4. ASSUME NEW q \in Pollers, poller'[q].id # None
        PROVE  poller'[q].at \in Replicas /\ (Agrees(poller[q].at, poller[q].id))'
    <3>1. poller'[q] = poller[q] /\ poller[q].at # r
      BY <2>1, <2>4 DEF Idle
    <3>2. poller[q].at \in Replicas /\ Agrees(poller[q].at, poller[q].id)
      BY <2>4, <3>1 DEF LookedAt
    <3>3. entry'[poller[q].at] = entry[poller[q].at]
      BY <2>1, <3>1, <3>2
    <3> QED
      BY <2>1, <3>1, <3>2, <3>3 DEF Agrees
  <2> QED
    BY <2>2, <2>3, <2>4 DEF LookedAt
<1> QED
  BY <1>1, <1>2, <1>3, WorkKeepsEntries, PollKeepsEntries DEF Next, Ask
-----------------------------------------------------------------------------
\* A step of one goroutine moves its own restore along and no other.
LEMMA StageMoves ==
    ASSUME TypeOK, NEW i \in Restores, NEW s \in Steps,
           task' = [task EXCEPT ![i].step = s]
    PROVE  /\ Stage' = [Stage EXCEPT ![i] = StageAt(s)]
           /\ lost' = lost => Unsure' = {k \in lost : k # i /\ k \in Unsure}
                                          \cup {k \in lost : k = i /\ s = "fail"}
<1>1. task'[i].step = s /\ \A k \in Restores \ {i} : task'[k] = task[k]
  BY DEF TypeOK
<1>2. Stage' = [Stage EXCEPT ![i] = StageAt(s)]
  <2>1. \A k \in Restores :
          StageAt(task'[k].step) = IF k = i THEN StageAt(s) ELSE StageAt(task[k].step)
    BY <1>1
  <2> QED
    BY <2>1 DEF Stage
<1>3. lost' = lost => Unsure' = {k \in lost : k # i /\ k \in Unsure}
                                    \cup {k \in lost : k = i /\ s = "fail"}
  BY <1>1 DEF Unsure, TypeOK
<1> QED
  BY <1>2, <1>3

LEMMA WorkIsPromised ==
    ASSUME ReportInv, NEW i \in Restores, Work(i)
    PROVE  Reports!Next
<1> USE DEF ReportInv, RestoreInv
<1> DEFINE r == task[i].at
<1>1. CASE Insert(i)
  <2>1. /\ task' = [task EXCEPT ![i].step = "create"]
        /\ entry' = [entry EXCEPT ![r][i] = "in-progress"]
        /\ UNCHANGED <<job, lost>> /\ r \in Replicas /\ i \notin lost
        /\ Stage[i] = "new"
    BY <1>1 DEF Insert, Goto, SetEntry, HasEntry, Stage, StageAt
  <2>2. Stage' = [Stage EXCEPT ![i] = "open"] /\ Unsure' = Unsure
    <3>1. StageAt("create") = "open" /\ "create" \in Steps
      BY DEF StageAt, Steps
    <3>2. Stage' = [Stage EXCEPT ![i] = "open"]
      BY <2>1, <3>1, StageMoves
    <3>3. Unsure' = Unsure
      BY <2>1 DEF Unsure, TypeOK
    <3> QED
      BY <3>2, <3>3
  <2>3. Reports!Accept(i, r)
    BY <2>1, <2>2 DEF Reports!Accept
  <2> QED
    BY <2>1, <2>3 DEF Reports!Next
<1>2. CASE CreateJob(i)
  <2>1. /\ Stage[i] = "open" /\ i \notin lost /\ entry' = entry
        /\ task[i].step = "create"
    BY <1>2 DEF CreateJob, HasEntry, Stage, StageAt
  <2>2. PICK s \in {"done", "fail"} : task' = [task EXCEPT ![i].step = s]
    BY <1>2 DEF CreateJob, Goto
  <2>3. Stage' = [Stage EXCEPT ![i] = "closed"]
    BY <2>2, StageMoves DEF Steps, StageAt
  <2>4. CASE job' = [job EXCEPT ![i] = "running"]
    <3>1. Unsure' \in {Unsure, Unsure \cup {i}}
      <4>1. lost' = lost \/ lost' = lost \cup {i}
        BY <1>2 DEF CreateJob
      <4>2. task'[i].step = s /\ \A k \in Restores \ {i} : task'[k] = task[k]
        BY <2>2 DEF TypeOK
      <4> QED
        BY <2>1, <4>1, <4>2 DEF Unsure, TypeOK
    <3> QED
      BY <2>1, <2>3, <2>4, <3>1 DEF Reports!Begin, Reports!Next
  <2>5. CASE job' = job /\ lost' = lost
    <3>1. Unsure' = Unsure
      BY <2>1, <2>2, <2>5, StageMoves DEF Steps, Unsure
    <3> QED
      BY <2>1, <2>3, <2>5, <3>1 DEF Reports!Refuse, Reports!Next
  <2> QED
    BY <1>2, <2>4, <2>5 DEF CreateJob
<1>3. CASE MarkFailed(i)
  <2>1. /\ task' = [task EXCEPT ![i].step = "done"]
        /\ entry' = [entry EXCEPT ![r][i] = "failed"]
        /\ UNCHANGED <<job, lost>> /\ r \in Replicas
        /\ entry[r][i] # "none" /\ task[i].step = "fail"
        /\ Stage[i] = "closed"
    BY <1>3 DEF MarkFailed, Goto, SetEntry, HasEntry, Stage, StageAt
  <2>2. Stage' = Stage /\ Unsure' = Unsure \ {i}
    <3>1. Stage' = [Stage EXCEPT ![i] = "closed"] /\ Unsure' = Unsure \ {i}
      BY <2>1, StageMoves DEF Steps, StageAt, Unsure
    <3> QED
      BY <2>1, <3>1 DEF Stage
  <2>3. CASE i \in lost
    <3>1. i \in Unsure
      BY <2>1, <2>3 DEF Unsure
    <3> QED
      BY <2>1, <2>2, <3>1 DEF Reports!GiveUp, Reports!Next
  <2>4. CASE i \notin lost
    <3>1. job[i] = "none"
      BY <2>1, <2>4 DEF JobOfTask
    <3>2. entry[r][i] = "in-progress"
      <4>1. entry[r][i] # "completed"
        BY <2>1, <3>1 DEF CompletedIsTrue
      <4>2. entry[r][i] # "failed"
        BY <2>1, <2>4, <3>1 DEF FailedForGood
      <4> QED
        BY <2>1, <4>1, <4>2 DEF TypeOK, Statuses
    <3>3. Unsure' = Unsure
      BY <2>2, <2>4 DEF Unsure
    <3> QED
      BY <2>1, <2>2, <3>1, <3>2, <3>3 DEF Reports!Settle, Reports!Failed, Reports!Next
  <2> QED
    BY <2>3, <2>4
<1> QED
  BY <1>1, <1>2, <1>3 DEF Work

LEMMA SyncIsPromised ==
    ASSUME ReportInv, NEW q \in Pollers, SyncEntry(q)
    PROVE  Reports!Next \/ UNCHANGED Reports!promises
<1> USE DEF ReportInv, RestoreInv
<1> DEFINE i == poller[q].id
           r == poller[q].at
           new == StatusOf(poller[q].saw, entry[r][i])
<1>1. /\ i \in Restores /\ r \in Replicas /\ Agrees(r, i)
      /\ poller[q].saw \in {"succeeded", "failed"} => job[i] = poller[q].saw
  BY DEF SyncEntry, LookedAt, SawTheEnd, TypeOK, PollerStates
<1>2. entry' = [entry EXCEPT ![r][i] = new] /\ UNCHANGED <<task, job, lost>>
  BY DEF SyncEntry, SetEntry
<1>3. Stage' = Stage /\ Unsure' = Unsure
  BY <1>2 DEF Stage, Unsure
<1>4. \/ new = entry[r][i]
      \/ entry[r][i] = "in-progress" /\ new = "completed" /\ job[i] = "succeeded"
      \/ entry[r][i] = "in-progress" /\ new = "failed" /\ job[i] = "failed"
  BY <1>1 DEF StatusOf, Agrees
<1> HIDE DEF new
<1>5. CASE new = entry[r][i]
  <2>1. entry' = entry
    BY <1>2, <1>5 DEF TypeOK
  <2> QED
    BY <1>2, <1>3, <2>1 DEF Reports!promises
<1>6. CASE new # entry[r][i]
  <2>1. Reports!Settle(i, r)
    BY <1>2, <1>3, <1>4, <1>6 DEF Reports!Settle, Reports!Failed
  <2> QED
    BY <1>1, <2>1 DEF Reports!Next
<1> QED
  BY <1>5, <1>6

LEMMA RestartIsPromised ==
    ASSUME ReportInv, NEW r \in Replicas, Restart(r)
    PROVE  Reports!Next
<1> USE DEF ReportInv, RestoreInv
<1> DEFINE gone == {i \in Restores : task[i].at = r}
<1>1. \A i \in Restores : IF i \in gone THEN task'[i].step = "done"
                            ELSE task'[i] = task[i]
  BY DEF Restart, TypeOK
<1>2. Stage' = [i \in Restores |-> IF i \in gone THEN "closed" ELSE Stage[i]]
  BY <1>1 DEF Stage, StageAt
<1>3. Unsure' = Unsure \ gone
  BY <1>1 DEF Unsure, Restart, TypeOK
<1>4. Reports!Restart(r, gone)
  BY <1>2, <1>3 DEF Restart, Reports!Restart
<1> QED
  BY <1>4 DEF Reports!Next

LEMMA NextIsPromised ==
    ReportInv /\ [Next]_vars => [Reports!Next]_Reports!promises
<1> SUFFICES ASSUME ReportInv, [Next]_vars
             PROVE  Reports!Next \/ UNCHANGED Reports!promises
  OBVIOUS
<1>1. ASSUME UNCHANGED <<entry, task, job, lost>>
      PROVE  UNCHANGED Reports!promises
  BY <1>1 DEF Reports!promises, Stage, Unsure
<1>2. CASE UNCHANGED vars
  BY <1>1, <1>2 DEF vars
<1>3. ASSUME NEW i \in Restores, NEW r \in Replicas, Trigger(i, r)
      PROVE  UNCHANGED Reports!promises
  <2>1. /\ task[i].step = "idle" /\ task'[i].step = "insert"
        /\ \A k \in Restores \ {i} : task'[k] = task[k]
        /\ UNCHANGED <<entry, job, lost>>
    BY <1>3 DEF Trigger, ReportInv, RestoreInv, TypeOK
  <2>2. Stage' = Stage
    BY <2>1 DEF Stage, StageAt
  <2>3. Unsure' = Unsure
    BY <2>1 DEF Unsure, ReportInv, RestoreInv, TypeOK
  <2> QED
    BY <2>1, <2>2, <2>3 DEF Reports!promises
<1>4. ASSUME NEW q \in Pollers, Answer(q)
      PROVE  Reports!Next \/ UNCHANGED Reports!promises
  <2>1. \A i \in Restores : Skip(q, i) \/ GetJob(q, i) => UNCHANGED Reports!promises
    BY <1>1 DEF Skip, GetJob
  <2>2. EndPoll(q) => UNCHANGED Reports!promises
    BY <1>1 DEF EndPoll
  <2> QED
    BY <1>4, <2>1, <2>2, SyncIsPromised DEF Answer
<1>5. \A r \in Replicas : Ask(r) => UNCHANGED Reports!promises
  BY <1>1 DEF Ask, StartPoll
<1>6. ASSUME NEW i \in Restores, EndJob(i)
      PROVE  Reports!Next
  <2>1. Reports!End(i)
    BY <1>6 DEF EndJob, Reports!End, Stage, Unsure
  <2> QED
    BY <2>1 DEF Reports!Next
<1>7. \A i \in Restores : ExpireJob(i) => UNCHANGED Reports!promises
  BY <1>1 DEF ExpireJob
<1> QED
  BY <1>2, <1>3, <1>4, <1>5, <1>6, <1>7, WorkIsPromised, RestartIsPromised DEF Next

\* Whatever the status requests, the goroutines, the Jobs, restarts and failures
\* do, and in whatever order, the API keeps what RestoreReports promises: every
\* report begins once, ends once and says what became of the restore, but for
\* the one of a Job whose creation went unnoticed (package pitr).
THEOREM ReportsImplemented == Spec => ReportsSpec
<1>1. Init => Reports!Init
  BY DEF Init, Reports!Init, Stage, StageAt, Unsure
<1>2. ReportInv /\ [Next]_vars => [Reports!Next]_Reports!promises
  BY NextIsPromised
<1>3. ReportInv /\ [Next]_vars => ReportInv'
  BY NextReportInv
<1> QED
  BY <1>1, <1>2, <1>3, InitReportInv, PTL DEF Spec, ReportsSpec, Reports!Spec
=============================================================================
