------------------------------ MODULE SignInPages ------------------------------
(***************************************************************************)
(* Signing in, signing up and signing out                                  *)
(* (src/dashboard/src/app/login/page.tsx, app/signup/page.tsx,             *)
(* lib/auth.tsx, components/AuthGuard.tsx, proxy.ts), and how the server   *)
(* side of the dashboard hands requests on to the API                      *)
(* (app/api/grpc, app/api/rest).  The sessions themselves are better-auth, *)
(* modelled as the code uses it: the browser has the cookie of a session   *)
(* or none, and useSession has an answer or awaits one.                    *)
(***************************************************************************)
EXTENDS Tab

CONSTANT Users

ASSUME UserAssumption == None \notin Users

Doors == {"login", "signup"}

\* What is typed: too little, a password that the form of signup refuses and
\* the server does for a login, or what is right.
Typed == {"empty", "bad", "good"}

\* session is what useSession says; isPending is `asking`.
SignIn(at) == [page |-> "session", at |-> at, typed |-> "empty", error |-> FALSE,
               loading |-> FALSE, session |-> None, asking |-> TRUE, other |-> FALSE]

SessionViews == [page : {"session"}, at : Doors \cup {"dashboard"}, typed : Typed,
                 error : BOOLEAN, loading : BOOLEAN, session : Users \cup {None},
                 asking : BOOLEAN, other : BOOLEAN]

OnSession == view.page = "session"
AtDoor == OnSession /\ view.at \in Doors

\* proxy: without a cookie every page of the dashboard is the login page.
proxy(at) == IF at = "dashboard" /\ server.cookie = None THEN "login" ELSE at

\* To another page, by a link or by the router; the form there is a new one.
GoTo(v, at) == [v EXCEPT !.at = proxy(at), !.typed = "empty", !.error = FALSE,
                         !.loading = FALSE]

\* A document is loaded.
OpenSession ==
    /\ view.page = "away" /\ view.back = "session"
    /\ \E at \in Doors \cup {"dashboard"} : Open(SignIn(proxy(at)))
    /\ UNCHANGED <<server, cache, told, faults>>

\* An answer that fails leaves no session.
useSession ==
    /\ OnSession /\ view.asking
    /\ \/ view' = [view EXCEPT !.asking = FALSE, !.session = server.cookie] /\ UNCHANGED faults
       \/ /\ faults > 0
          /\ faults' = faults - 1
          /\ view' = [view EXCEPT !.asking = FALSE, !.session = None]
    /\ UNCHANGED <<calls, server, cache, told>>

\* AuthGuard shows the page to a session, waits while there may be one, and
\* otherwise sends the user to the login page.
Guarded == OnSession /\ view.at = "dashboard"
Shown == Guarded /\ ~view.asking /\ view.session # None

AuthGuard ==
    /\ Guarded /\ ~view.asking /\ view.session = None
    /\ view' = GoTo(view, "login")
    /\ UNCHANGED <<calls, server, cache, told, faults>>

OtherDoor ==
    /\ AtDoor
    /\ \E at \in Doors \ {view.at} : Open(GoTo(view, at))
    /\ UNCHANGED <<server, cache, told, faults>>

\* Every field of the form is disabled while it is sent.
Type(what) ==
    /\ AtDoor /\ ~view.loading
    /\ view' = [view EXCEPT !.typed = what]
    /\ UNCHANGED <<calls, server, cache, told, faults>>

\* handleSubmit of both forms.  Only that of signup looks at the password before
\* it sends it; an address that is taken fails like a lost request (see Fail).
handleSignIn ==
    /\ AtDoor /\ ~view.loading
    /\ IF view.typed \in (IF view.at = "signup" THEN {"empty", "bad"} ELSE {"empty"})
       THEN view' = [view EXCEPT !.error = TRUE] /\ UNCHANGED calls
       ELSE /\ view' = [view EXCEPT !.error = FALSE, !.loading = TRUE]
            /\ \E u \in Users : Send("signIn", <<u, view.typed = "good">>)
    /\ UNCHANGED <<server, cache, told, faults>>

ServeSignIn(i) ==
    /\ Sent(i, "signIn")
    /\ IF calls[i].on[2]
       THEN /\ server' = [server EXCEPT !.cookie = calls[i].on[1]]
            /\ Serve(i, None)
            /\ told' = [told EXCEPT !.lost = @ \/ Unheard(i)]
       ELSE Refuse(i) /\ UNCHANGED told
    /\ UNCHANGED <<view, cache>>

\* The session is asked for again and the dashboard opens, also when the user
\* has gone to the other form; only the form that asked says what went wrong.
SignInAnswered(i) ==
    /\ Answered(i, "signIn")
    /\ view' = CASE calls[i].stage = "ok" /\ OnSession ->
                      [GoTo(view, "dashboard") EXCEPT !.asking = TRUE]
                 [] calls[i].stage = "failed" /\ calls[i].live ->
                      [view EXCEPT !.loading = FALSE, !.error = TRUE]
                 [] OTHER -> view
    /\ Settle(i)
    /\ UNCHANGED <<server, cache, told, faults>>

\* Sign out: nothing waits for the answer, and a failure is not said.
logout ==
    /\ Shown
    /\ Send("signOut", None)
    /\ UNCHANGED <<view, server, cache, told, faults>>

ServeSignOut(i) ==
    /\ Sent(i, "signOut")
    /\ server' = [server EXCEPT !.cookie = None]
    /\ Serve(i, None)
    /\ told' = [told EXCEPT !.lost = @ \/ Unheard(i)]
    /\ UNCHANGED <<view, cache>>

\* Mutant: the page is not told that nobody is signed in any more.
SignedOutUntold(i) ==
    /\ Answered(i, "signOut")
    /\ Settle(i)
    /\ UNCHANGED <<view, server, cache, told, faults>>

SignedOut(i) ==
    /\ Answered(i, "signOut")
    /\ view' = IF calls[i].stage = "ok" /\ OnSession THEN [view EXCEPT !.asking = TRUE]
                                                     ELSE view
    /\ Settle(i)
    /\ UNCHANGED <<server, cache, told, faults>>

\* Another tab of the browser signs out, or in as somebody else: `other` is
\* history, and MaxFaults bounds how often.
OtherTab ==
    /\ OnSession
    /\ faults > 0
    /\ faults' = faults - 1
    /\ \E u \in Users \cup {None} : server' = [server EXCEPT !.cookie = u]
    /\ view' = [view EXCEPT !.other = TRUE]
    /\ UNCHANGED <<calls, cache, told>>
-----------------------------------------------------------------------------
(* Requests of the pages go to the dashboard's own server, which asks      *)
(* better-auth whose cookie came along and signs a token for the API.  One *)
(* that it cannot name a user for it hands on without a token.             *)

Routes == {"grpc", "rest"}

\* getSession is asked once for a gRPC, twice for a REST request; `failing`
\* of its answers do not come.
lookups(route) == IF route = "rest" THEN 2 ELSE 1

Identity(route, failing) == IF failing < lookups(route) THEN server.cookie ELSE None

\* A bound: one at a time, and beside no other request.
AskApi(route) ==
    /\ Shown
    /\ UnderWay("none") = Slots
    /\ Send(route, None)
    /\ UNCHANGED <<view, server, cache, told, faults>>

\* The API refuses what has no token.
Forward(i) ==
    /\ calls[i].op \in Routes /\ calls[i].stage = "sent"
    /\ \E failing \in 0 .. Min({faults, lookups(calls[i].op)}) :
         LET u == Identity(calls[i].op, failing) IN
         /\ faults' = faults - failing
         /\ calls' = [calls EXCEPT ![i].stage = IF u = None THEN "failed" ELSE "ok",
                                   ![i].got = u]
    /\ UNCHANGED <<view, server, cache, told>>

ApiAnswered(i) ==
    /\ calls[i].op \in Routes /\ calls[i].stage # "sent"
    /\ Settle(i)
    /\ UNCHANGED <<view, server, cache, told, faults>>

SessionSteps ==
    \/ OpenSession \/ useSession \/ AuthGuard \/ OtherDoor \/ handleSignIn \/ logout
    \/ OtherTab
    \/ \E what \in Typed : Type(what)
    \/ \E route \in Routes : AskApi(route)

SessionApi(i) == ServeSignIn(i) \/ ServeSignOut(i) \/ Forward(i)
SessionAnswers(i) == SignInAnswered(i) \/ SignedOut(i) \/ ApiAnswered(i)
=============================================================================
