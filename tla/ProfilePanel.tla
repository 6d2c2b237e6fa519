------------------------------ MODULE ProfilePanel ------------------------------
(***************************************************************************)
(* The profile and the notifications of a user                             *)
(* (src/dashboard/src/app/dashboard/settings/page.tsx).  Nothing is asked  *)
(* of a server: a timer of 600 ms stands for the request, and the          *)
(* notifications are switches that the page forgets.                       *)
(***************************************************************************)
EXTENDS Tab

\* name is "own" (that of the session), "typed" or "empty".
Profile == [page |-> "profile", editing |-> FALSE, name |-> "own", saving |-> FALSE,
            security |-> FALSE]

ProfileViews == [page : {"profile"}, editing : BOOLEAN, name : {"own", "typed", "empty"},
                 saving : BOOLEAN, security : BOOLEAN]

OnProfile == view.page = "profile"

EditName ==
    /\ OnProfile /\ ~view.editing
    /\ view' = [view EXCEPT !.editing = TRUE]
    /\ UNCHANGED <<calls, server, cache, told, faults>>

TypeName(name) ==
    /\ OnProfile /\ view.editing
    /\ view' = [view EXCEPT !.name = name]
    /\ UNCHANGED <<calls, server, cache, told, faults>>

CancelEdit ==
    /\ OnProfile /\ view.editing
    /\ view' = [view EXCEPT !.editing = FALSE, !.name = "own"]
    /\ UNCHANGED <<calls, server, cache, told, faults>>

\* The button waits for the timer, Enter in the field does not.
handleSave ==
    /\ OnProfile /\ view.editing /\ view.name # "empty"
    /\ Send("saveProfile", None)
    /\ view' = [view EXCEPT !.saving = TRUE]
    /\ UNCHANGED <<server, cache, told, faults>>

\* The editor closes, whatever is in it by now.
Saved(i) ==
    /\ Sent(i, "saveProfile")
    /\ view' = IF calls[i].live THEN [view EXCEPT !.saving = FALSE, !.editing = FALSE]
                                ELSE view
    /\ Settle(i)
    /\ UNCHANGED <<server, cache, told, faults>>

togglePref ==
    /\ OnProfile
    /\ view' = [view EXCEPT !.security = ~@]
    /\ UNCHANGED <<calls, server, cache, told, faults>>

ProfileSteps ==
    \/ EditName \/ CancelEdit \/ handleSave \/ togglePref
    \/ \E name \in {"own", "typed", "empty"} : TypeName(name)
=============================================================================
