------------------------------ MODULE BackupsPage ------------------------------
(***************************************************************************)
(* Backups and point-in-time recovery                                      *)
(* (src/dashboard/src/app/dashboard/backups/page.tsx).  What the page      *)
(* fetches changes nothing on the server and concerns nobody once the page *)
(* is gone, so that its requests are in `view`: two for the same thing     *)
(* count as one.  Backups are told apart by their database only.           *)
(***************************************************************************)
EXTENDS Tab

CONSTANT Stores    \* the user's databases

ASSUME StoreAssumption == None \notin Stores

Lists == {"backups", "restores"}

Backups == [page |-> "backups", db |-> None, of |-> [l \in Lists |-> None],
            asked |-> {}, loading |-> [l \in Lists |-> FALSE], error |-> FALSE,
            time |-> FALSE, restoring |-> FALSE, confirm |-> FALSE, crossed |-> FALSE]

BackupViews == [page : {"backups"}, db : Stores \cup {None},
                of : [Lists -> Stores \cup {None}], asked : SUBSET (Lists \X Stores),
                loading : [Lists -> BOOLEAN], error : BOOLEAN, time : BOOLEAN,
                restoring : BOOLEAN, confirm : BOOLEAN, crossed : BOOLEAN]

OnBackups == view.page = "backups"
BackupsClick == OnBackups /\ ~view.confirm

\* fetchBackups and fetchRestores for one database, sent by a page `v`.
\* `crossed` is history: a request for a database that is not selected has
\* been under way.
Asking(v, ls, d) ==
    [v EXCEPT !.asked = @ \cup (ls \X {d}),
              !.loading = [l \in Lists |-> @[l] \/ l \in ls],
              !.error = @ /\ "backups" \notin ls,
              !.crossed = @ \/ \E a \in v.asked \cup (ls \X {d}) : a[2] # v.db]

\* Mutant: the effects do not run when the selection changes.
SelectDbOnly(d) ==
    /\ BackupsClick /\ view.db # d
    /\ view' = IF view.db = None THEN Asking([view EXCEPT !.db = d], Lists, d)
                                 ELSE [view EXCEPT !.db = d]
    /\ UNCHANGED <<calls, server, cache, told, faults>>

\* By the user, or the first one by the page itself; the effects then fetch.
\* The restore point stays as it was.
SelectDb(d) ==
    /\ BackupsClick /\ view.db # d
    /\ view' = Asking([view EXCEPT !.db = d], Lists, d)
    /\ UNCHANGED <<calls, server, cache, told, faults>>

Refresh ==
    /\ BackupsClick /\ view.db # None /\ ~view.loading["backups"]
    /\ view' = Asking(view, Lists, view.db)
    /\ UNCHANGED <<calls, server, cache, told, faults>>

RetryBackups ==
    /\ BackupsClick /\ view.error
    /\ view' = Asking(view, {"backups"}, view.db)
    /\ UNCHANGED <<calls, server, cache, told, faults>>

\* What comes is shown, whichever database it is of.
ListComes(l, d) ==
    /\ OnBackups /\ <<l, d>> \in view.asked
    /\ view' = [view EXCEPT !.asked = @ \ {<<l, d>>}, !.of[l] = d, !.loading[l] = FALSE]
    /\ UNCHANGED <<calls, server, cache, told, faults>>

\* The error hides the table of backups, but not what else is made of them.
\* That the history of restores could not be read is not said at all.
ListFails(l, d) ==
    /\ OnBackups /\ <<l, d>> \in view.asked
    /\ faults > 0
    /\ faults' = faults - 1
    /\ view' = [view EXCEPT !.asked = @ \ {<<l, d>>}, !.loading[l] = FALSE,
                            !.error = @ \/ l = "backups"]
    /\ UNCHANGED <<calls, server, cache, told>>

\* The form to restore, with the range that the backups cover.
RestoreForm == OnBackups /\ view.db # None /\ view.of["backups"] # None

PickTime ==
    /\ RestoreForm /\ ~view.confirm /\ ~view.time
    /\ view' = [view EXCEPT !.time = TRUE]
    /\ UNCHANGED <<calls, server, cache, told, faults>>

AskRestore ==
    /\ RestoreForm /\ ~view.confirm /\ view.time /\ ~view.restoring
    /\ view' = [view EXCEPT !.confirm = TRUE]
    /\ UNCHANGED <<calls, server, cache, told, faults>>

CloseConfirmRestore ==
    /\ OnBackups /\ view.confirm
    /\ view' = [view EXCEPT !.confirm = FALSE]
    /\ UNCHANGED <<calls, server, cache, told, faults>>

handleRestore ==
    /\ OnBackups /\ view.confirm /\ ~view.restoring
    /\ Send("restore", view.db)
    /\ view' = [view EXCEPT !.confirm = FALSE, !.restoring = TRUE]
    /\ UNCHANGED <<server, cache, told, faults>>

ServeRestore(i) ==
    /\ Sent(i, "restore")
    /\ Serve(i, None)
    /\ UNCHANGED <<view, server, cache, told>>

\* The history that is fetched then is that of the database which was selected
\* when the restore was asked for.
RestoreAnswered(i) ==
    LET v == [view EXCEPT !.restoring = FALSE] IN
    /\ Answered(i, "restore")
    /\ view' = CASE ~calls[i].live -> view
                 [] calls[i].live /\ calls[i].stage = "ok" ->
                        Asking(v, {"restores"}, calls[i].on)
                 [] OTHER -> v
    /\ Settle(i)
    /\ UNCHANGED <<server, cache, told, faults>>

BackupSteps ==
    \/ Refresh \/ RetryBackups \/ PickTime \/ AskRestore \/ CloseConfirmRestore
    \/ handleRestore
    \/ \E d \in Stores : SelectDb(d)
    \/ \E l \in Lists, d \in Stores : ListComes(l, d) \/ ListFails(l, d)
=============================================================================
