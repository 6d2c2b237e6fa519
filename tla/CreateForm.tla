------------------------------ MODULE CreateForm ------------------------------
(***************************************************************************)
(* The page that creates a database                                        *)
(* (src/dashboard/src/components/CreateDBForm.tsx) and the card with the   *)
(* credentials, which exist nowhere else.  A name is "empty", "bad" (the   *)
(* hint under the field says why) or "good".                               *)
(***************************************************************************)
EXTENDS DatabaseRequests

NameKinds == {"empty", "bad", "good"}

Form == [page |-> "create", name |-> "empty", result |-> None]

FormViews == [page : {"create"}, name : NameKinds,
              result : Dbs \cup {None}]

OnForm == view.page = "create" /\ view.result = None

EnterName(kind) ==
    /\ OnForm /\ ~Busy("createForm")
    /\ view' = [view EXCEPT !.name = kind]
    /\ UNCHANGED <<calls, server, cache, told, faults>>

\* PostgreSQL cannot be selected and the layout lets nobody in without a
\* session, so that the name is all there is to refuse.
handleSubmit ==
    /\ OnForm /\ ~Busy("createForm")
    /\ view.name = "good"
    /\ Send("createForm", None)
    /\ UNCHANGED <<view, server, cache, told, faults>>

\* What follows the await: a form that is gone takes no answer.
FormAnswered(i) ==
    LET d == calls[i].got IN
    /\ Answered(i, "createForm")
    /\ IF calls[i].stage = "ok"
       THEN /\ view' = IF calls[i].live THEN [view EXCEPT !.result = d] ELSE view
            /\ Tell(d, 1, IF calls[i].live THEN "shown" ELSE "missed")
       ELSE UNCHANGED <<view, told>>
    /\ Settle(i)
    /\ UNCHANGED <<server, cache, faults>>

\* onBack: the card is taken away, the form is as it was.
LeaveCard ==
    /\ view.page = "create" /\ view.result # None
    /\ view' = [view EXCEPT !.result = None]
    /\ UNCHANGED <<calls, server, cache, told, faults>>

FormSteps ==
    \/ handleSubmit \/ LeaveCard
    \/ \E kind \in NameKinds : EnterName(kind)
    \/ \E i \in Slots : FormAnswered(i)
=============================================================================
