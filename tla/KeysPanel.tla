------------------------------- MODULE KeysPanel -------------------------------
(***************************************************************************)
(* API keys, a tab of the settings                                         *)
(* (src/dashboard/src/components/ApiKeys.tsx).  No server is asked: the    *)
(* keys are in the state of the component, and a timer stands for the      *)
(* request, 800 ms to make a key and 600 ms to revoke one.                 *)
(***************************************************************************)
EXTENDS Tab

CONSTANTS KeyIds, MockKeys    \* keys, and those the component starts with

ASSUME KeyAssumption == MockKeys \subseteq KeyIds /\ None \notin KeyIds

Keys == [page |-> "keys", dialog |-> "none",
         status |-> [k \in KeyIds |-> IF k \in MockKeys THEN "active" ELSE "none"],
         creating |-> FALSE, created |-> None, revoking |-> None,
         seen |-> MockKeys, crossed |-> FALSE]

KeyViews == [page : {"keys"}, dialog : {"none", "create", "revoke"},
             status : [KeyIds -> {"none", "active", "revoked"}], creating : BOOLEAN,
             created : KeyIds \cup {None}, revoking : KeyIds \cup {None},
             seen : SUBSET KeyIds, crossed : BOOLEAN]

OnKeys == view.page = "keys"
KeysClick == OnKeys /\ view.dialog = "none"

\* history: the keys whose secret has been on the screen.
OnScreen(v) ==
    [v EXCEPT !.seen = IF v.dialog = "create" THEN @ \cup ({v.created} \ {None}) ELSE @]

\* A key that was made after its dialog had been closed is still shown.
ShowCreateKey ==
    /\ KeysClick
    /\ view' = OnScreen([view EXCEPT !.dialog = "create"])
    /\ UNCHANGED <<calls, server, cache, told, faults>>

\* handleClose: Cancel, Done, Escape.  The timer runs on.
CloseKey ==
    /\ OnKeys /\ view.dialog = "create"
    /\ view' = [view EXCEPT !.dialog = "none", !.creating = FALSE, !.created = None]
    /\ UNCHANGED <<calls, server, cache, told, faults>>

\* With a name typed.  The button waits for the key, Enter in the field does
\* not.  `crossed` is history: two keys have been in the making together.  The
\* ids that are left are a bound.
handleCreateKey ==
    /\ OnKeys /\ view.dialog = "create" /\ view.created = None
    /\ Cardinality({k \in KeyIds : view.status[k] = "none"}) > Cardinality(UnderWay("makeKey"))
    /\ Send("makeKey", None)
    /\ view' = [view EXCEPT !.creating = TRUE, !.crossed = @ \/ UnderWay("makeKey") # {}]
    /\ UNCHANGED <<server, cache, told, faults>>

\* Mutant: a key whose dialog has been closed is not kept to be shown.
KeyMadeIfOpen(i) ==
    /\ Sent(i, "makeKey")
    /\ IF calls[i].live
       THEN \E k \in {id \in KeyIds : view.status[id] = "none"} :
              view' = OnScreen([view EXCEPT !.creating = FALSE, !.status[k] = "active",
                                  !.created = IF view.dialog = "create" THEN k ELSE @])
       ELSE view' = view
    /\ Settle(i)
    /\ UNCHANGED <<server, cache, told, faults>>

KeyMade(i) ==
    /\ Sent(i, "makeKey")
    /\ IF calls[i].live
       THEN \E k \in {id \in KeyIds : view.status[id] = "none"} :
              view' = OnScreen([view EXCEPT !.created = k, !.creating = FALSE,
                                            !.status[k] = "active"])
       ELSE view' = view
    /\ Settle(i)
    /\ UNCHANGED <<server, cache, told, faults>>

AskRevoke(k) ==
    /\ KeysClick
    /\ view.status[k] = "active"
    /\ view' = [view EXCEPT !.dialog = "revoke", !.revoking = k]
    /\ UNCHANGED <<calls, server, cache, told, faults>>

CloseRevoke ==
    /\ OnKeys /\ view.dialog = "revoke"
    /\ view' = [view EXCEPT !.dialog = "none", !.revoking = None]
    /\ UNCHANGED <<calls, server, cache, told, faults>>

\* The dialog is told that nothing is being revoked: its buttons stay enabled.
handleRevoke ==
    /\ OnKeys /\ view.dialog = "revoke"
    /\ Send("revokeKey", view.revoking)
    /\ UNCHANGED <<view, server, cache, told, faults>>

\* Also when the user has cancelled, and whichever key is now asked about.
KeyRevoked(i) ==
    /\ Sent(i, "revokeKey")
    /\ view' = IF calls[i].live
               THEN [view EXCEPT !.status[calls[i].on] = "revoked", !.revoking = None,
                                 !.dialog = IF @ = "revoke" THEN "none" ELSE @]
               ELSE view
    /\ Settle(i)
    /\ UNCHANGED <<server, cache, told, faults>>

KeySteps ==
    \/ ShowCreateKey \/ CloseKey \/ handleCreateKey \/ CloseRevoke \/ handleRevoke
    \/ \E k \in KeyIds : AskRevoke(k)

KeyTimers(i) == KeyMade(i) \/ KeyRevoked(i)
=============================================================================
