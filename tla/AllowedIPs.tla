------------------------------ MODULE AllowedIPs ------------------------------
(***************************************************************************)
(* The addresses from which a user's requests are let in, a tab of the     *)
(* settings (src/dashboard/src/components/AllowedIPs.tsx).  Every answer   *)
(* of the API holds the whole list, and the page shows the last that came. *)
(***************************************************************************)
EXTENDS AllowPanel

AllowedPage == [page |-> "allowedIPs", ips |-> {}, error |-> FALSE, adding |-> FALSE,
                removing |-> None, trust |-> "unsure"]

AllowedViews == [page : {"allowedIPs"}, ips : SUBSET Cidrs, error : BOOLEAN,
                 adding : BOOLEAN, removing : Cidrs \cup {None}, trust : Trust]

OnAllowed == view.page = "allowedIPs"

ListOps == {"ips", "addIP", "removeIP"}

\* Until the first request of the page is answered, not for Try again.
loading == \E i \in UnderWay("ips") : calls[i].live /\ calls[i].on = "first"

\* When the page opens, "first", and for Try again.
fetchIPs(on) ==
    /\ Send("ips", on)
    /\ UNCHANGED <<server, cache, told, faults>>

OpenAllowed ==
    /\ view.page = "away" /\ view.back = "allowedIPs"
    /\ view' = [AllowedPage EXCEPT !.trust = AskedBeside(ListOps)]
    /\ fetchIPs("first")

TryAgain ==
    /\ OnAllowed /\ view.error
    /\ view' = [view EXCEPT !.trust = AskedBeside(ListOps)]
    /\ fetchIPs(None)

handleAddIP(ip) ==
    /\ OnAllowed /\ ~view.adding
    /\ Send("addIP", ip)
    /\ view' = [view EXCEPT !.adding = TRUE, !.trust = AskedBeside(ListOps)]
    /\ UNCHANGED <<server, cache, told, faults>>

\* One field says which removal is under way: a second one enables the
\* button of the first.
handleRemoveIP(ip) ==
    /\ OnAllowed /\ ~loading /\ ~view.error
    /\ ip \in view.ips /\ view.removing # ip
    /\ Send("removeIP", ip)
    /\ view' = [view EXCEPT !.removing = ip, !.trust = AskedBeside(ListOps)]
    /\ UNCHANGED <<server, cache, told, faults>>

ServeIPs(i) ==
    LET ip == calls[i].on
        ips == CASE calls[i].op = "addIP" -> server.ips \cup {ip}
                 [] calls[i].op = "removeIP" -> server.ips \ {ip}
                 [] OTHER -> server.ips
    IN /\ calls[i].op \in ListOps /\ calls[i].stage = "sent"
       /\ server' = [server EXCEPT !.ips = ips]
       /\ Serve(i, ips)
       /\ UNCHANGED <<view, cache, told>>

\* Mutant: an addition leaves the list as it is.
IPsAnsweredShort(i) ==
    LET c == calls[i] IN
    /\ c.op \in ListOps /\ c.stage # "sent"
    /\ view' = IF ~c.live THEN view
               ELSE [view EXCEPT
                       !.ips = IF c.stage = "ok" /\ c.op # "addIP" THEN c.got ELSE @,
                       !.error = IF c.op = "ips" THEN c.stage = "failed" ELSE @,
                       !.adding = @ /\ c.op # "addIP",
                       !.removing = IF c.op = "removeIP" THEN None ELSE @,
                       !.trust = Heard(i, @)]
    /\ Settle(i)
    /\ UNCHANGED <<server, cache, told, faults>>

\* An error of the first request hides the list, and stays until Try again
\* has an answer, also when an addition succeeds meanwhile.
IPsAnswered(i) ==
    LET c == calls[i] IN
    /\ c.op \in ListOps /\ c.stage # "sent"
    /\ view' = IF ~c.live THEN view
               ELSE [view EXCEPT
                       !.ips = IF c.stage = "ok" THEN c.got ELSE @,
                       !.error = IF c.op = "ips" THEN c.stage = "failed" ELSE @,
                       !.adding = @ /\ c.op # "addIP",
                       !.removing = IF c.op = "removeIP" THEN None ELSE @,
                       !.trust = Heard(i, @)]
    /\ Settle(i)
    /\ UNCHANGED <<server, cache, told, faults>>

AllowedSteps ==
    \/ OpenAllowed \/ TryAgain
    \/ \E ip \in Cidrs : handleAddIP(ip) \/ handleRemoveIP(ip)
=============================================================================
