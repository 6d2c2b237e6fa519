------------------------------ MODULE AllowPanel ------------------------------
(***************************************************************************)
(* The IP whitelist of a database                                          *)
(* (src/dashboard/src/components/IPWhitelist.tsx, hooks/useIPWhitelist.ts),*)
(* on the page of the database.                                            *)
(***************************************************************************)
EXTENDS Tab

CONSTANT Cidrs    \* addresses a user may allow

Whitelist == [page |-> "whitelist", dialog |-> "none", cidr |-> None,
              detecting |-> FALSE, reopened |-> FALSE, removing |-> None]

WhitelistViews == [page : {"whitelist"}, dialog : {"none", "add", "remove"},
                   cidr : Cidrs \cup {None}, detecting : BOOLEAN, reopened : BOOLEAN,
                   removing : Cidrs \cup {None}]

OnWhitelist == view.page = "whitelist"
AllowClick == OnWhitelist /\ view.dialog = "none"
Adding == OnWhitelist /\ view.dialog = "add"

ShowAdd ==
    /\ AllowClick
    /\ view' = [view EXCEPT !.dialog = "add"]
    /\ UNCHANGED <<calls, server, cache, told, faults>>

\* handleClose, also by Escape while a request is under way.  `reopened` is
\* history: a detection goes on whose dialog has been closed.
CloseAdd ==
    /\ Adding
    /\ view' = [view EXCEPT !.dialog = "none", !.cidr = None, !.detecting = FALSE,
                            !.reopened = @ \/ view.detecting]
    /\ UNCHANGED <<calls, server, cache, told, faults>>

validateAndSetCidr(c) ==
    /\ Adding /\ ~Busy("addEntry") /\ ~view.detecting
    /\ view' = [view EXCEPT !.cidr = c]
    /\ UNCHANGED <<calls, server, cache, told, faults>>

handleUseCurrentIp ==
    /\ Adding /\ ~Busy("addEntry") /\ ~view.detecting
    /\ Send("detect", None)
    /\ view' = [view EXCEPT !.detecting = TRUE]
    /\ UNCHANGED <<server, cache, told, faults>>

\* api.ipify.org, or api64.ipify.org when it fails.
Detect(i) ==
    /\ Sent(i, "detect")
    /\ \E c \in Cidrs : Serve(i, c)
    /\ UNCHANGED <<view, server, cache, told>>

\* No answer, and an address that is not IPv4, leave the field alone.
Detected(i) ==
    /\ Answered(i, "detect")
    /\ view' = IF ~calls[i].live THEN view
               ELSE [view EXCEPT !.detecting = FALSE,
                                 !.cidr = IF calls[i].stage = "ok" THEN calls[i].got ELSE @]
    /\ Settle(i)
    /\ UNCHANGED <<server, cache, told, faults>>

handleSubmitEntry ==
    /\ Adding /\ view.cidr # None /\ ~Busy("addEntry")
    /\ Send("addEntry", view.cidr)
    /\ UNCHANGED <<view, server, cache, told, faults>>

ServeAddEntry(i) ==
    /\ Sent(i, "addEntry")
    /\ calls[i].on \notin server.entries
    /\ server' = [server EXCEPT !.entries = @ \cup {calls[i].on}]
    /\ Serve(i, None)
    /\ UNCHANGED <<view, cache, told>>

\* AlreadyExists, also for the second attempt of an addition whose answer was lost.
RefuseAddEntry(i) ==
    /\ Sent(i, "addEntry")
    /\ calls[i].on \in server.entries
    /\ Refuse(i)
    /\ UNCHANGED <<view, cache, told>>

\* Mutant: what is being detected is forgotten, and still comes.
EntryAddedForgetful(i) ==
    /\ Answered(i, "addEntry")
    /\ view' = IF calls[i].live /\ calls[i].stage = "ok"
               THEN [view EXCEPT !.cidr = None, !.detecting = FALSE,
                                 !.dialog = IF @ = "add" THEN "none" ELSE @]
               ELSE view
    /\ Settle(i)
    /\ UNCHANGED <<server, cache, told, faults>>

\* The dialog closes and its field is emptied, whatever it holds by then.
EntryAdded(i) ==
    /\ Answered(i, "addEntry")
    /\ view' = IF calls[i].live /\ calls[i].stage = "ok"
               THEN [view EXCEPT !.cidr = None, !.dialog = IF @ = "add" THEN "none" ELSE @]
               ELSE view
    /\ Settle(i)
    /\ UNCHANGED <<server, cache, told, faults>>

\* What the panel lists is abstracted to any entry the API has: the list is
\* fetched when the panel opens, but not if it was less than 30 s ago, and not
\* after an addition (the filter the hook invalidates with names no query, see
\* Names); and the API takes no entry away.
AskRemove(c) ==
    /\ AllowClick
    /\ c \in server.entries
    /\ view' = [view EXCEPT !.dialog = "remove", !.removing = c]
    /\ UNCHANGED <<calls, server, cache, told, faults>>

CloseRemove ==
    /\ OnWhitelist /\ view.dialog = "remove"
    /\ view' = [view EXCEPT !.dialog = "none", !.removing = None]
    /\ UNCHANGED <<calls, server, cache, told, faults>>

handleRemoveEntry ==
    /\ OnWhitelist /\ view.dialog = "remove" /\ ~Busy("removeEntry")
    /\ Send("removeEntry", view.removing)
    /\ UNCHANGED <<view, server, cache, told, faults>>

\* RemoveIPWhitelistEntry reads the list, filters it, answers that the entry was
\* removed and saves nothing.
ServeRemoveEntry(i) ==
    /\ Sent(i, "removeEntry")
    /\ Serve(i, None)
    /\ UNCHANGED <<view, server, cache, told>>

\* Whatever the answer, and whichever entry the dialog now asks about.
EntryRemoved(i) ==
    /\ Answered(i, "removeEntry")
    /\ view' = IF calls[i].live
               THEN [view EXCEPT !.removing = None,
                                 !.dialog = IF @ = "remove" THEN "none" ELSE @]
               ELSE view
    /\ Settle(i)
    /\ UNCHANGED <<server, cache, told, faults>>

WhitelistSteps ==
    \/ ShowAdd \/ CloseAdd \/ handleUseCurrentIp \/ handleSubmitEntry
    \/ CloseRemove \/ handleRemoveEntry
    \/ \E c \in Cidrs : validateAndSetCidr(c) \/ AskRemove(c)

WhitelistApi(i) ==
    Detect(i) \/ ServeAddEntry(i) \/ RefuseAddEntry(i) \/ ServeRemoveEntry(i)

WhitelistAnswers(i) == Detected(i) \/ EntryAdded(i) \/ EntryRemoved(i)
=============================================================================
