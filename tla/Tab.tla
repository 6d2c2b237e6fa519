--------------------------------- MODULE Tab ---------------------------------
(***************************************************************************)
(* One browser tab of the dashboard (src/dashboard): the page it shows,    *)
(* the requests it has under way, what React Query has cached, and the     *)
(* state of the API those requests act on.  The pages are modules of their *)
(* own that extend this one; Console and Desk compose them.                *)
(*                                                                         *)
(* The React state of a page is the record `view`.  Leaving a page drops   *)
(* it, but not the requests it has sent: they still act on the server, and *)
(* what a handler does after its `await` still runs.                       *)
(***************************************************************************)
EXTENDS Naturals, Sequences, FiniteSets, FiniteSetsExt

CONSTANTS
    Slots,      \* requests that may be under way at once, a bound
    MaxFaults,  \* failures and lost answers, a bound
    None

ASSUME TabAssumption ==
    /\ Slots \subseteq Nat /\ IsFiniteSet(Slots) /\ Slots # {}
    /\ MaxFaults \in Nat

VARIABLES
    view,    \* the page shown and its state
    calls,   \* the requests under way
    server,  \* what the API has stored
    cache,   \* the answers React Query keeps
    told,    \* history
    faults   \* failures left

vars == <<view, calls, server, cache, told, faults>>
-----------------------------------------------------------------------------
(* Requests.  A call is named after the hook call that sends it: two hooks *)
(* on one page that send the same RPC are two names.                       *)

NoCall == [op |-> "none", on |-> None, stage |-> "sent", try |-> 1,
           live |-> FALSE, watched |-> FALSE, got |-> None]

UnderWay(op) == {i \in Slots : calls[i].op = op}

\* isPending of a mutation is that of the last call its component has made.
Busy(op) == \E i \in UnderWay(op) : calls[i].live /\ calls[i].watched

FreeSlot == CHOOSE i \in Slots : calls[i].op = "none"

\* mutate or mutateAsync: the component watches the new call in place of the
\* one it watched before.  A bound: beside requests of pages that are gone
\* only another of their kind is sent.
Send(op, on) ==
    /\ UnderWay("none") # {}
    /\ \A i \in Slots : calls[i].live \/ calls[i].op \in {"none", op}
    /\ calls' = [i \in Slots |->
                   IF i = FreeSlot
                   THEN [NoCall EXCEPT !.op = op, !.on = on, !.live = TRUE,
                                       !.watched = TRUE]
                   ELSE [calls[i] EXCEPT !.watched = @ /\ calls[i].op # op]]

\* What pages send with fetch, and not with a mutation of React Query.
Fetched == {"ips", "addIP", "removeIP", "detect", "pay", "confirm", "restore",
            "signIn", "signOut", "grpc", "rest"}

\* Waits for a timer of the page itself.
Timers == {"makeKey", "revokeKey", "saveProfile"}

\* Mutations are sent again once when they fail.
Attempts(op) == IF op \in Fetched THEN 1 ELSE 2

Again(c) == IF c.try < Attempts(c.op) THEN [c EXCEPT !.try = @ + 1]
                                ELSE [c EXCEPT !.stage = "failed"]

\* The server has carried the request out, and its answer comes or is lost.
Serve(i, got) ==
    \/ /\ calls' = [calls EXCEPT ![i].stage = "ok", ![i].got = got]
       /\ UNCHANGED faults
    \/ /\ faults > 0
       /\ faults' = faults - 1
       /\ calls' = [calls EXCEPT ![i] = Again(@)]

\* In a step that serves call i: the answer is lost.
Unheard(i) == calls'[i].stage # "ok"

Refuse(i) ==
    /\ calls' = [calls EXCEPT ![i] = Again(@)]
    /\ UNCHANGED <<server, faults>>

\* A request that does not reach the server, or fails there with no effect.
Fail(i) ==
    /\ calls[i].op \notin {"none"} \cup Timers
    /\ calls[i].stage = "sent"
    /\ faults > 0
    /\ faults' = faults - 1
    /\ calls' = [calls EXCEPT ![i] = Again(@)]
    /\ UNCHANGED <<view, server, cache, told>>

\* The server's turn on call i.
Sent(i, op) == calls[i].op = op /\ calls[i].stage = "sent"

Answered(i, op) == calls[i].op = op /\ calls[i].stage # "sent"

Settle(i) == calls' = [calls EXCEPT ![i] = NoCall]

\* History of a page that shows what an answer said: the last request it sent is
\* the only one of these kinds that is under way ("alone"), and has been answered
\* well since ("true"); otherwise it is "unsure" what the server has.
Trust == {"unsure", "alone", "true"}

AskedBeside(ops) == IF \A op \in ops : UnderWay(op) = {} THEN "alone" ELSE "unsure"

Heard(i, trust) == IF calls[i].stage = "failed" THEN "unsure"
                   ELSE IF trust = "alone" THEN "true" ELSE trust

\* Another page: the old one's components are gone.  A bound: at most one of
\* their requests is still under way.
Open(v) ==
    /\ Cardinality(UnderWay("none")) >= Cardinality(Slots) - 1
    /\ view' = v
    /\ calls' = [i \in Slots |-> [calls[i] EXCEPT !.live = FALSE]]
=============================================================================
