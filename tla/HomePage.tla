------------------------------- MODULE HomePage -------------------------------
(***************************************************************************)
(* The list of databases (src/dashboard/src/app/dashboard/page.tsx): the   *)
(* cards, the dialog that creates a database and the dialog that confirms  *)
(* a deletion.                                                             *)
(***************************************************************************)
EXTENDS DatabaseRequests

Home == [page |-> "home", dialog |-> "none", confirm |-> None,
         deleting |-> None]

HomeViews == [page : {"home"}, dialog : {"none", "create", "confirm"},
              confirm : Dbs \cup {None}, deleting : Dbs \cup {None}]

OnHome == view.page = "home"
HomeClick == OnHome /\ view.dialog = "none"    \* dialogs are modal

ShowCreate ==
    /\ HomeClick
    /\ view' = [view EXCEPT !.dialog = "create"]
    /\ UNCHANGED <<calls, server, cache, told, faults>>

\* Cancel waits for the request, Escape and a click outside do not.
CloseCreate ==
    /\ OnHome /\ view.dialog = "create"
    /\ view' = [view EXCEPT !.dialog = "none"]
    /\ UNCHANGED <<calls, server, cache, told, faults>>

\* A name is typed and sent.
handleCreate ==
    /\ OnHome /\ view.dialog = "create" /\ ~Busy("create")
    /\ Send("create", None)
    /\ UNCHANGED <<view, server, cache, told, faults>>

\* The callbacks given to mutate run only while the page is there.  They look at
\* nothing that the answer brings: its login and password are dropped.
CreateAnswered(i) ==
    LET heard == calls[i].live /\ calls[i].stage = "ok" IN
    /\ Answered(i, "create")
    /\ view' = IF heard /\ view.dialog = "create" THEN [view EXCEPT !.dialog = "none"]
               ELSE view
    /\ IF calls[i].stage = "ok"
         THEN Tell(calls[i].got, 1, "missed")
         ELSE UNCHANGED told
    /\ Settle(i)
    /\ UNCHANGED <<server, cache, faults>>

\* The menu of a card is disabled while its own deletion is under way.
handleDeleteRequest(d) ==
    /\ HomeClick
    /\ d \in Cards
    /\ view.deleting # d
    /\ view' = [view EXCEPT !.dialog = "confirm", !.confirm = d]
    /\ UNCHANGED <<calls, server, cache, told, faults>>

CloseConfirm ==
    /\ OnHome /\ view.dialog = "confirm"
    /\ view' = [view EXCEPT !.dialog = "none", !.confirm = None]
    /\ UNCHANGED <<calls, server, cache, told, faults>>

\* Mutant: the button of the dialog does not wait for the deletion under way.
handleDeleteConfirmTwice ==
    /\ OnHome /\ view.dialog = "confirm"
    /\ Send("delete", view.confirm)
    /\ view' = [view EXCEPT !.deleting = view.confirm]
    /\ UNCHANGED <<server, cache, told, faults>>

handleDeleteConfirm ==
    /\ OnHome /\ view.dialog = "confirm" /\ view.deleting = None
    /\ Send("delete", view.confirm)
    /\ view' = [view EXCEPT !.deleting = view.confirm]
    /\ UNCHANGED <<server, cache, told, faults>>

\* Mutant: the card is set back only when the deletion succeeds.
DeleteAnsweredWell(i) ==
    /\ Answered(i, "delete")
    /\ view' = IF calls[i].live /\ calls[i].stage = "ok"
               THEN [view EXCEPT !.deleting = None, !.confirm = None,
                                 !.dialog = IF @ = "confirm" THEN "none" ELSE @]
               ELSE view
    /\ Settle(i)
    /\ UNCHANGED <<server, cache, told, faults>>

\* Whatever the answer, the dialog that is open by now closes.
DeleteAnswered(i) ==
    /\ Answered(i, "delete")
    /\ view' = IF calls[i].live
               THEN [view EXCEPT !.deleting = None, !.confirm = None,
                                 !.dialog = IF @ = "confirm" THEN "none" ELSE @]
               ELSE view
    /\ Settle(i)
    /\ UNCHANGED <<server, cache, told, faults>>

HomeSteps ==
    \/ ShowCreate \/ CloseCreate \/ handleCreate
    \/ CloseConfirm \/ handleDeleteConfirm
    \/ \E i \in Slots : CreateAnswered(i) \/ DeleteAnswered(i)
    \/ \E d \in Dbs : handleDeleteRequest(d)
=============================================================================
