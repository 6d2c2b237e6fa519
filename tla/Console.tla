-------------------------------- MODULE Console --------------------------------
(***************************************************************************)
(* The pages of the dashboard that create, show and delete databases, in   *)
(* one tab.  The user has one database to begin with, made elsewhere.      *)
(***************************************************************************)
EXTENDS CreateForm, BranchPanel

CONSTANT First    \* the database the user has

ASSUME FirstAssumption == First \in Dbs

Init ==
    /\ view = Home
    /\ calls = [i \in Slots |-> NoCall]
    /\ server = [born |-> {First}, live |-> {First},
                 login |-> [d \in Dbs |-> IF d = First THEN 1 ELSE 0]]
    /\ cache = NoDetail
    /\ told = [d \in Dbs |-> "shown"]
    /\ faults = MaxFaults

\* The links of the sidebar, which a dialog covers.
Navigate(v) ==
    /\ view.page # v.page
    /\ view.page # "create" => view.dialog = "none"
    /\ Open(v)
    /\ cache' = NoDetail
    /\ UNCHANGED <<server, told, faults>>

Answers(i) ==
    \/ CreateAnswered(i) \/ DeleteAnswered(i) \/ FormAnswered(i) \/ RotateAnswered(i)
    \/ DeleteHereAnswered(i) \/ BranchCreated(i) \/ BranchDeleted(i)

Api(i) == ServeCreate(i) \/ RefuseCreate(i) \/ ServeDelete(i) \/ ServeRotate(i)

Next ==
    \/ HomeSteps \/ FormSteps \/ DetailSteps \/ BranchSteps
    \/ Navigate(Home) \/ Navigate(Form)
    \/ \E i \in Slots : Api(i) \/ Fail(i)

\* A request is carried out and its answer handled; at each moment one of the
\* two can happen.
Fairness ==
    \A i \in Slots : WF_vars(Api(i) \/ Answers(i))

Spec == Init /\ [][Next]_vars
FairSpec == Spec /\ Fairness
-----------------------------------------------------------------------------
CallRecords ==
    [op : Creates \cup Deletes \cup {"none", "rotate"}, on : Dbs \cup {None},
     stage : {"sent", "ok", "failed"}, try : 1 .. 2, live : BOOLEAN, watched : BOOLEAN,
     got : Dbs \cup {None} \cup 0 .. MaxLogin]

TypeOK ==
    /\ view \in HomeViews \cup FormViews \cup DetailViews \cup BranchViews
    /\ calls \in [Slots -> CallRecords]
    /\ server \in [born : SUBSET Dbs, live : SUBSET Dbs, login : [Dbs -> 0 .. MaxLogin]]
    /\ server.live \subseteq server.born
    /\ cache \in Details
    /\ told \in [Dbs -> {"shown", "coming", "missed"}]
    /\ faults \in 0 .. MaxFaults
-----------------------------------------------------------------------------
\* "Invalidates the database detail query on success" (useRotateCredentials.ts): a
\* rotation makes a new user name and a new password, and the page, which shows
\* the password of the answer beside the user name of its query, shows a login
\* that opens the database once the query is not being fetched.
ShownLoginWorks ==
    (/\ OnDetail /\ ~view.due
     /\ view.rotated # 0 /\ view.rotated = server.login[view.db])
        => cache.user = view.rotated

\* Credentials are handed out once, in the answer of the request that made them.
\* Those of a login that is in force and that nobody was shown are in an answer
\* that is under way, unless an answer was lost, came to a page that is gone, or
\* to one of the two dialogs that drop them: whatever dialog was closed or opened
\* meanwhile, no other handler loses the only sight of a password.
CredentialsAreComing ==
    \A d \in Dbs : told[d] = "coming" =>
        \E i \in Slots :
            /\ calls[i].stage = "ok"
            /\ \/ calls[i].op \in Creates /\ calls[i].got = d /\ server.login[d] = 1
               \/ calls[i].op = "rotate" /\ calls[i].on = d
                  /\ calls[i].got = server.login[d]

\* On the list of databases one deletion is under way at a time, and it is
\* that of the card that says so, however the dialogs are closed and opened
\* meanwhile (dashboard/page.tsx, deletingId).
DeletingIsTrue ==
    view.page = "home" =>
        {calls[i].on : i \in {j \in UnderWay("delete") : calls[j].live}}
            = {view.deleting} \ {None}

SomethingSpins ==
    \/ view.page \in {"home", "branches"} /\ view.deleting # None
    \/ Busy("rotate")

\* What says that something is under way stops saying so: the card that is
\* being deleted, the branch that is, and the button that rotates.
SpinnersStop == SomethingSpins ~> ~SomethingSpins
=============================================================================
