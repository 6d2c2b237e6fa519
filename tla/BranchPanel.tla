------------------------------ MODULE BranchPanel ------------------------------
(***************************************************************************)
(* The branches of a database                                              *)
(* (src/dashboard/src/components/BranchManager.tsx), on the page of the    *)
(* database: every other database of the user.                             *)
(***************************************************************************)
EXTENDS DetailPage

Branching(d) == [page |-> "branches", db |-> d, dialog |-> "none",
                 deleting |-> None]

BranchViews == [page : {"branches"}, db : Dbs, dialog : {"none", "create"},
                deleting : Dbs \cup {None}]

OnBranches == view.page = "branches"
BranchClick == OnBranches /\ view.dialog = "none"

Branches == Cards \ {view.db}

OpenBranches(d) ==
    /\ HomeClick /\ d \in Cards
    /\ d \in server.live
    /\ Open(Branching(d))
    /\ cache' = NoDetail
    /\ UNCHANGED <<server, told, faults>>

ShowBranchDialog ==
    /\ BranchClick
    /\ view' = [view EXCEPT !.dialog = "create"]
    /\ UNCHANGED <<calls, server, cache, told, faults>>

CloseBranchDialog ==
    /\ OnBranches /\ view.dialog = "create"
    /\ view' = [view EXCEPT !.dialog = "none"]
    /\ UNCHANGED <<calls, server, cache, told, faults>>

CreateBranch ==
    /\ OnBranches /\ view.dialog = "create" /\ ~Busy("createBranch")
    /\ Send("createBranch", None)
    /\ UNCHANGED <<view, server, cache, told, faults>>

\* The login and the password in the answer are dropped here too.
BranchCreated(i) ==
    LET heard == calls[i].live /\ calls[i].stage = "ok" IN
    /\ Answered(i, "createBranch")
    /\ view' = IF heard THEN [view EXCEPT !.dialog = "none"] ELSE view
    /\ IF calls[i].stage = "ok"
         THEN Tell(calls[i].got, 1, "missed")
         ELSE UNCHANGED told
    /\ Settle(i)
    /\ UNCHANGED <<server, cache, faults>>

\* No dialog asks first.  One field holds the branch whose deletion is under
\* way, so that a second deletion enables the button of the first.
DeleteBranch(d) ==
    /\ BranchClick
    /\ d \in Branches
    /\ view.deleting # d
    /\ Send("deleteBranch", d)
    /\ view' = [view EXCEPT !.deleting = d]
    /\ UNCHANGED <<server, cache, told, faults>>

BranchDeleted(i) ==
    /\ Answered(i, "deleteBranch")
    /\ view' = IF calls[i].live THEN [view EXCEPT !.deleting = None] ELSE view
    /\ Settle(i)
    /\ UNCHANGED <<server, cache, told, faults>>

ViewBranch(d) ==
    /\ BranchClick
    /\ d \in Branches
    /\ OpenDetail(d)

BranchSteps ==
    \/ ShowBranchDialog \/ CloseBranchDialog \/ CreateBranch
    \/ \E i \in Slots : BranchCreated(i) \/ BranchDeleted(i)
    \/ \E d \in Dbs : OpenBranches(d) \/ DeleteBranch(d) \/ ViewBranch(d)
=============================================================================
