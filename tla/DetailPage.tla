------------------------------ MODULE DetailPage ------------------------------
(***************************************************************************)
(* The page of one database (src/dashboard/src/app/dashboard/[id]/page.tsx)*)
(* with its dialogs that rotate the credentials and delete the database.   *)
(* Its panels are the modules BranchPanel, StoragePanel and AllowPanel.    *)
(***************************************************************************)
EXTENDS HomePage

\* "due": the query of the database is being fetched.
Detail(d, due) == [page |-> "detail", db |-> d, due |-> due, dialog |-> "none",
                   rotated |-> 0]

DetailViews == [page : {"detail"}, db : Dbs, due : BOOLEAN,
                dialog : {"none", "rotate", "delete"}, rotated : 0 .. MaxLogin]

\* The answer that is kept for the page: the user name of a login, or 0 while there
\* is none, or that the last fetch failed, which hides what was kept before.
NoDetail     == [user |-> 0, failed |-> FALSE]
FailedDetail == [user |-> 0, failed |-> TRUE]
Shows(n)     == [user |-> n, failed |-> FALSE]
Details      == {FailedDetail} \cup {Shows(n) : n \in 0 .. MaxLogin}

\* The user name of the login in force, or of the first one; a bound.
EarlierUsers(d) == {1, server.login[d]} \ {0}

\* What an earlier visit has left may be a user name the database no longer has.
\* It is shown: without a fetch for 30 seconds, until one ends later.  After five
\* minutes without a page it is dropped.
OpenDetail(d) ==
    /\ \/ Open(Detail(d, TRUE))
          /\ cache' \in {NoDetail, FailedDetail} \cup {Shows(n) : n \in EarlierUsers(d)}
       \/ Open(Detail(d, FALSE))
          /\ cache' \in {Shows(n) : n \in EarlierUsers(d)}
    /\ UNCHANGED <<server, told, faults>>

OnDetailPage == view.page = "detail"

\* React Query asks again when the browser is back online, and not after a
\* rotation.
Reconnect ==
    /\ OnDetailPage /\ ~view.due
    /\ view' = [view EXCEPT !.due = TRUE]
    /\ UNCHANGED <<calls, server, cache, told, faults>>

\* A database that is not there is an error like any other.
FetchDetail ==
    LET user == server.login[view.db] IN
    /\ OnDetailPage /\ view.due
    /\ view' = [view EXCEPT !.due = FALSE]
    /\ cache' = IF user = 0 THEN FailedDetail ELSE Shows(user)
    /\ UNCHANGED <<calls, server, told, faults>>

\* All three attempts fail.
FetchDetailFails ==
    /\ OnDetailPage /\ view.due
    /\ faults > 0
    /\ faults' = faults - 1
    /\ view' = [view EXCEPT !.due = FALSE]
    /\ cache' = FailedDetail
    /\ UNCHANGED <<calls, server, told>>

\* What the page shows.  An error hides everything else, also a password
\* that has just been rotated, until a fetch succeeds.
Screen ==
    IF cache.failed THEN "error" ELSE IF cache.user = 0 THEN "loading" ELSE "data"

OnDetail == OnDetailPage /\ Screen = "data"
DetailClick == OnDetail /\ view.dialog = "none"

\* Retry reloads the document: every cache and every answer awaited is gone.  A
\* bound: not while a deletion of this page is under way.
Reload ==
    /\ OnDetailPage /\ Screen = "error"
    /\ UnderWay("deleteHere") = {}
    /\ view' = Detail(view.db, TRUE)
    /\ cache' = NoDetail
    /\ told' = [d \in Dbs |-> IF told[d] = "coming" THEN "missed" ELSE told[d]]
    /\ calls' = [i \in Slots |-> [calls[i] EXCEPT !.live = FALSE]]
    /\ UNCHANGED <<server, faults>>

AskRotate ==
    /\ DetailClick /\ ~Busy("rotate")
    /\ view' = [view EXCEPT !.dialog = "rotate"]
    /\ UNCHANGED <<calls, server, cache, told, faults>>

CloseRotate ==
    /\ OnDetail /\ view.dialog = "rotate"
    /\ view' = [view EXCEPT !.dialog = "none"]
    /\ UNCHANGED <<calls, server, cache, told, faults>>

\* The dialog stays open until an answer comes, and its button enabled.
handleRotate ==
    /\ OnDetail /\ view.dialog = "rotate"
    /\ Send("rotate", view.db)
    /\ UNCHANGED <<view, server, cache, told, faults>>

\* useRotateCredentials on success: the detail is fetched again when the
\* filter names it.
Refetched == Names(<<"GetDatabase">>, DetailKey)

\* Mutant: the answer is for the dialog, and a closed dialog takes none.
RotateAnsweredIfOpen(i) ==
    LET c == calls[i]
        heard == c.live /\ c.stage = "ok" /\ view.dialog = "rotate" IN
    /\ Answered(i, "rotate")
    /\ view' = CASE heard -> [view EXCEPT !.rotated = c.got, !.dialog = "none"]
                 [] c.live /\ ~heard -> [view EXCEPT !.dialog = "none"]
                 [] OTHER -> view
    /\ IF heard THEN Tell(c.on, c.got, "shown") ELSE UNCHANGED told
    /\ Settle(i)
    /\ UNCHANGED <<server, cache, faults>>

\* The page keeps the password, and not the user name that comes with it: it goes
\* on showing that of the database it has fetched.
RotateAnswered(i) ==
    LET c == calls[i] IN
    /\ Answered(i, "rotate")
    /\ view' = CASE ~c.live -> view
                 [] c.live /\ c.stage = "ok" ->
                        [view EXCEPT !.rotated = c.got, !.dialog = "none",
                                     !.due = @ \/ Refetched]
                 [] OTHER -> [view EXCEPT !.dialog = "none"]
    /\ IF c.stage = "ok" THEN Tell(c.on, c.got, IF c.live THEN "shown" ELSE "missed")
       ELSE UNCHANGED told
    /\ Settle(i)
    /\ UNCHANGED <<server, cache, faults>>

AskDelete ==
    /\ DetailClick /\ ~Busy("deleteHere")
    /\ view' = [view EXCEPT !.dialog = "delete"]
    /\ UNCHANGED <<calls, server, cache, told, faults>>

CloseDelete ==
    /\ OnDetail /\ view.dialog = "delete"
    /\ view' = [view EXCEPT !.dialog = "none"]
    /\ UNCHANGED <<calls, server, cache, told, faults>>

\* The name of the database is typed and sent.
handleDelete ==
    /\ OnDetail /\ view.dialog = "delete" /\ ~Busy("deleteHere")
    /\ Send("deleteHere", view.db)
    /\ UNCHANGED <<view, server, cache, told, faults>>

\* The list opens whatever page the user is on by then, or stays as it is.
DeleteHereAnswered(i) ==
    /\ Answered(i, "deleteHere")
    /\ IF calls[i].stage = "ok" /\ ~OnHome
       THEN /\ view' = Home
            /\ calls' = [j \in Slots |-> IF j = i THEN NoCall
                                         ELSE [calls[j] EXCEPT !.live = FALSE]]
            /\ cache' = NoDetail
       ELSE /\ view' = IF calls[i].live THEN [view EXCEPT !.dialog = "none"] ELSE view
            /\ Settle(i)
            /\ UNCHANGED cache
    /\ UNCHANGED <<server, told, faults>>

handleView(d) ==
    /\ HomeClick /\ d \in Cards
    /\ OpenDetail(d)

DetailSteps ==
    \/ Reload \/ AskRotate \/ CloseRotate \/ handleRotate
    \/ Reconnect \/ FetchDetail \/ FetchDetailFails \/ AskDelete \/ CloseDelete \/ handleDelete
    \/ \E i \in Slots : RotateAnswered(i) \/ DeleteHereAnswered(i)
    \/ \E d \in Dbs : handleView(d)
=============================================================================
