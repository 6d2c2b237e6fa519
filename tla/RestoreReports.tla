---------------------------- MODULE RestoreReports ----------------------------
(***************************************************************************)
(* What tenants are promised about restores, with Jobs, goroutines, status *)
(* requests and the lock abstracted away.  A restore is accepted once, by  *)
(* one replica, which reports it as in progress; it begins at most once;   *)
(* a report ends once, and says what became of the restore, or that it     *)
(* will not be.  Only of a restore that began without anybody being told   *)
(* it may be said, once, that it failed, whatever became of it.  A replica *)
(* that restarts reports nothing any more.  Restores implements this.      *)
(***************************************************************************)
CONSTANTS
    Restores,   \* the restores that are asked for
    Replicas    \* those who report

VARIABLES
    stage,   \* whether a restore was accepted, and may still begin
    fate,    \* what becomes of it
    report,  \* what each replica says of it
    unsure   \* the restores that began without anybody being told

promises == <<stage, fate, report, unsure>>

Init ==
    /\ stage = [i \in Restores |-> "new"]
    /\ fate = [i \in Restores |-> "none"]
    /\ report = [r \in Replicas |-> [i \in Restores |-> "none"]]
    /\ unsure = {}

Accept(i, r) ==
    /\ stage[i] = "new"
    /\ stage' = [stage EXCEPT ![i] = "open"]
    /\ report' = [report EXCEPT ![r][i] = "in-progress"]
    /\ UNCHANGED <<fate, unsure>>

Begin(i) ==
    /\ stage[i] = "open"
    /\ stage' = [stage EXCEPT ![i] = "closed"]
    /\ fate' = [fate EXCEPT ![i] = "running"]
    /\ unsure' \in {unsure, unsure \cup {i}}
    /\ UNCHANGED report

Refuse(i) ==
    /\ stage[i] = "open"
    /\ stage' = [stage EXCEPT ![i] = "closed"]
    /\ UNCHANGED <<fate, report, unsure>>

End(i) ==
    /\ fate[i] = "running"
    /\ \E outcome \in {"succeeded", "failed"} : fate' = [fate EXCEPT ![i] = outcome]
    /\ UNCHANGED <<stage, report, unsure>>

Failed(i) == fate[i] = "failed" \/ (fate[i] = "none" /\ stage[i] = "closed")

Settle(i, r) ==
    /\ report[r][i] = "in-progress"
    /\ \/ fate[i] = "succeeded" /\ report' = [report EXCEPT ![r][i] = "completed"]
       \/ Failed(i) /\ report' = [report EXCEPT ![r][i] = "failed"]
    /\ UNCHANGED <<stage, fate, unsure>>

GiveUp(i, r) ==
    /\ i \in unsure
    /\ report[r][i] # "none"
    /\ report' = [report EXCEPT ![r][i] = "failed"]
    /\ unsure' = unsure \ {i}
    /\ UNCHANGED <<stage, fate>>

\* What the replica had accepted and not begun will not begin.
Restart(r, dropped) ==
    /\ report' = [report EXCEPT ![r] = [i \in Restores |-> "none"]]
    /\ stage' = [i \in Restores |-> IF i \in dropped THEN "closed" ELSE stage[i]]
    /\ unsure' = unsure \ dropped
    /\ UNCHANGED fate

Next ==
    \/ \E i \in Restores : Begin(i) \/ Refuse(i) \/ End(i)
    \/ \E i \in Restores, r \in Replicas : Accept(i, r) \/ Settle(i, r) \/ GiveUp(i, r)
    \/ \E r \in Replicas, dropped \in SUBSET Restores : Restart(r, dropped)

Spec == Init /\ [][Next]_promises
=============================================================================
