--------------------------- MODULE DatabaseRequests ---------------------------
(***************************************************************************)
(* The requests about whole databases that several pages send, and the     *)
(* list of databases that several pages show                               *)
(* (src/dashboard/src/hooks/useDatabases.ts and its neighbours).           *)
(***************************************************************************)
EXTENDS Tab, Sequences

CONSTANTS
    Dbs,        \* ids of databases
    MaxLogin    \* logins a database may go through, a bound

ASSUME DatabaseAssumption ==
    /\ None \notin Dbs
    /\ IsFiniteSet(Dbs)
    /\ MaxLogin \in Nat \ {0}

-----------------------------------------------------------------------------
(* The API, as far as one request is concerned; what its handlers do step  *)
(* by step is the subject of Provisioning.                                 *)

Creates == {"create", "createForm", "createBranch"}
Deletes == {"delete", "deleteHere", "deleteBranch"}

ServeCreate(i) ==
    /\ calls[i].op \in Creates
    /\ calls[i].stage = "sent"
    /\ \E d \in Dbs \ server.born :
         /\ server' = [server EXCEPT !.born = @ \cup {d}, !.live = @ \cup {d},
                                     !.login[d] = 1]
         /\ Serve(i, d)
         /\ told' = [told EXCEPT ![d] = IF Unheard(i) THEN "missed" ELSE "coming"]
    /\ UNCHANGED <<view, cache>>

\* No room: the ids run out, which stands for the limit of the plan.
RefuseCreate(i) ==
    /\ calls[i].op \in Creates
    /\ calls[i].stage = "sent"
    /\ server.born = Dbs
    /\ Refuse(i)
    /\ UNCHANGED <<view, cache, told>>

ServeDelete(i) ==
    /\ calls[i].op \in Deletes
    /\ calls[i].stage = "sent"
    /\ IF calls[i].on \in server.live
       THEN /\ server' = [server EXCEPT !.live = @ \ {calls[i].on},
                                        !.login[calls[i].on] = 0]
            /\ told' = [told EXCEPT ![calls[i].on] = "shown"]
            /\ Serve(i, None)
       ELSE Refuse(i) /\ UNCHANGED told
    /\ UNCHANGED <<view, cache>>

\* A new user name and a new password, the n-th login of the database; MaxLogin
\* is a bound, and what happens there an internal error of the server.
ServeRotate(i) ==
    LET d == calls[i].on IN
    /\ calls[i].op = "rotate"
    /\ calls[i].stage = "sent"
    /\ IF d \in server.live /\ server.login[d] < MaxLogin
       THEN /\ server' = [server EXCEPT !.login[d] = @ + 1]
            /\ Serve(i, server.login[d] + 1)
       ELSE Refuse(i)
    /\ told' = IF server' = server THEN told
               ELSE [told EXCEPT ![d] = IF Unheard(i) THEN "missed" ELSE "coming"]
    /\ UNCHANGED <<view, cache>>

\* The credentials of login n come back: a page shows them, or the dialog that
\* asked drops them, or there is no page any more ("missed").
Tell(d, n, fate) ==
    told' = IF n # server.login[d] THEN told ELSE [told EXCEPT ![d] = fate]
-----------------------------------------------------------------------------
(* The list of databases, which pages fetch when they open, every 30       *)
(* seconds and when asked to, with failures and answers out of date.  No   *)
(* handler relies on it: what a page lists is any of the databases that    *)
(* were ever made, those that are gone by now included.                    *)

Cards == server.born
-----------------------------------------------------------------------------
(* Invalidation.  A key of connect-query is <<"connect-query", parts>>;    *)
(* the hooks give the method descriptor alone.                             *)

DetailKey == <<"connect-query", "GetDatabase">>

\* A filter names a query when its elements are the first of the query's key.
Names(filter, key) ==
    /\ Len(filter) <= Len(key)
    /\ \A k \in DOMAIN filter : filter[k] = key[k]
=============================================================================
