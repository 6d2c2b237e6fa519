------------------------------ MODULE DeskProofs ------------------------------
(***************************************************************************)
(* Proofs about Desk: for every number of requests and failures, and every *)
(* set of addresses, keys, databases, schemas and users, what the panels   *)
(* say of the server is true.                                              *)
(*                                                                         *)
(* The argument: a step of one page changes what another page shows, the   *)
(* requests of that page and what they are about on the server not at all  *)
(* (Apart).  So each property is an invariant of the steps of its own      *)
(* page, of the page being opened and left, and of a request that fails.   *)
(***************************************************************************)
EXTENDS Desk, WellFoundedInduction, TLAPS

\* The page that sends a request.
PageOf(op) ==
    CASE op \in {"detect", "addEntry", "removeEntry"} -> "whitelist"
      [] op \in ListOps -> "allowedIPs"
      [] op \in AddonOps -> "storage"
      [] op \in {"makeKey", "revokeKey"} -> "keys"
      [] op = "saveProfile" -> "profile"
      [] op \in {"pay", "confirm"} -> "billing"
      [] op = "restore" -> "backups"
      [] OTHER -> "session"

Shaped(c) ==
    c = [op |-> c.op, on |-> c.on, stage |-> c.stage, try |-> c.try, live |-> c.live,
         watched |-> c.watched, got |-> c.got]

\* A request that is awaited is one of the page that is shown.
CallOf(c, page) ==
    /\ Shaped(c) /\ c.stage \in {"sent", "ok", "failed"}
    /\ c.live => c.op # "none" /\ page = PageOf(c.op)

CallsHere ==
    /\ calls = [i \in Slots |-> calls[i]]
    /\ \A i \in Slots : CallOf(calls[i], view.page)

ServerShaped ==
    server = [entries |-> server.entries, ips |-> server.ips, gb |-> server.gb,
              cu |-> server.cu, autoscale |-> server.autoscale, tier |-> server.tier,
              payment |-> server.payment, cookie |-> server.cookie]

ToldShaped == told = [lost |-> told.lost]

Base ==
    /\ "page" \in DOMAIN view
    /\ CallsHere
    /\ ServerShaped /\ ToldShaped
    /\ faults \in 0 .. MaxFaults

Same(c, e) == c.op = e.op /\ c.on = e.on /\ c.stage = e.stage /\ c.got = e.got

\* A step changes the requests of these kinds, and no other.
CallsApart(pages, ops) ==
    \A i \in Slots :
      \/ calls[i].op \in ops /\ calls'[i].op \in ops
      \/ /\ Same(calls'[i], calls[i])
         /\ calls'[i].live = calls[i].live \/ (view'.page \in pages /\ ~calls'[i].live)

\* A step shows only these pages, or changes nothing that is shown.
Apart(pages, ops) ==
    /\ view' = view \/ view'.page \in pages
    /\ CallsApart(pages, ops)
-----------------------------------------------------------------------------
LEMMA NoCallHere == \A page : CallOf(NoCall, page)
  BY DEF CallOf, Shaped, NoCall

LEMMA AgainKeeps ==
    ASSUME NEW c, NEW page, CallOf(c, page), c.stage = "sent"
    PROVE  /\ CallOf(Again(c), page)
           /\ Again(c).stage # "ok"
           /\ Again(c).op = c.op /\ Again(c).live = c.live /\ Again(c).on = c.on
<1>1. Shaped(c)
  BY DEF CallOf
<1>2. CASE c.try < Attempts(c.op)
  <2>1. Again(c) = [op |-> c.op, on |-> c.on, stage |-> c.stage, try |-> c.try + 1,
                    live |-> c.live, watched |-> c.watched, got |-> c.got]
    BY <1>1, <1>2 DEF Again, Shaped
  <2> QED
    BY <2>1 DEF CallOf, Shaped
<1>3. CASE ~(c.try < Attempts(c.op))
  <2>1. Again(c) = [op |-> c.op, on |-> c.on, stage |-> "failed", try |-> c.try,
                    live |-> c.live, watched |-> c.watched, got |-> c.got]
    BY <1>1, <1>3 DEF Again, Shaped
  <2> QED
    BY <2>1 DEF CallOf, Shaped
<1> QED
  BY <1>2, <1>3

\* One request changes, and no other.
LEMMA OneHere ==
    ASSUME CallsHere, NEW i \in Slots, NEW c, CallOf(c, view.page),
           calls' = [calls EXCEPT ![i] = c], view'.page = view.page
    PROVE  /\ CallsHere'
           /\ calls'[i] = c
           /\ \A j \in Slots \ {i} : calls'[j] = calls[j]
  BY DEF CallsHere

\* A request that has failed once more.
LEMMA AgainHere ==
    ASSUME CallsHere, NEW i \in Slots, calls[i].stage = "sent", view'.page = view.page,
           calls' = [calls EXCEPT ![i] = Again(@)]
    PROVE  /\ CallsHere'
           /\ \A j \in Slots \ {i} : calls'[j] = calls[j]
           /\ calls'[i].op = calls[i].op /\ calls'[i].on = calls[i].on
           /\ calls'[i].live = calls[i].live
           /\ calls'[i].stage # "ok"
<1>1. CallOf(calls[i], view.page) /\ CallOf(Again(calls[i]), view.page)
  BY AgainKeeps DEF CallsHere
<1>2. calls' = [calls EXCEPT ![i] = Again(calls[i])]
  OBVIOUS
<1>3. CallsHere' /\ calls'[i] = Again(calls[i]) /\ \A j \in Slots \ {i} : calls'[j] = calls[j]
  BY <1>1, <1>2, OneHere
<1> QED
  BY <1>1, <1>3, AgainKeeps

\* What a step of the server does to the request it serves.
LEMMA ServeHere ==
    ASSUME Base, NEW i \in Slots, calls[i].stage = "sent", view' = view,
           NEW got, Serve(i, got)
    PROVE  /\ CallsHere'
           /\ faults' \in 0 .. MaxFaults /\ faults' <= faults
           /\ \A j \in Slots \ {i} : calls'[j] = calls[j]
           /\ calls'[i].op = calls[i].op /\ calls'[i].on = calls[i].on
           /\ calls'[i].live = calls[i].live
           /\ calls'[i].stage = "ok" => calls'[i].got = got
<1>0. CallsHere /\ CallOf(calls[i], view.page) /\ Shaped(calls[i])
  BY DEF Base, CallsHere, CallOf
<1>00. faults \in 0 .. MaxFaults /\ MaxFaults \in Nat
  BY TabAssumption DEF Base
<1>1. CASE /\ calls' = [calls EXCEPT ![i].stage = "ok", ![i].got = got]
           /\ UNCHANGED faults
  <2>1. PICK c : c = [op |-> calls[i].op, on |-> calls[i].on, stage |-> "ok",
                      try |-> calls[i].try, live |-> calls[i].live,
                      watched |-> calls[i].watched, got |-> got]
    OBVIOUS
  <2>2. CallOf(c, view.page)
    BY <1>0, <2>1 DEF CallOf, Shaped
  <2>3. calls' = [j \in Slots |-> calls'[j]] /\ \A j \in Slots \ {i} : calls'[j] = calls[j]
    BY <1>0, <1>1 DEF CallsHere
  <2>4. calls'[i] = c
    BY <1>0, <1>1, <2>1 DEF CallsHere, Shaped
  <2>5. CallsHere'
    BY <1>0, <2>2, <2>3, <2>4 DEF CallsHere
  <2>6. calls'[i].op = c.op /\ calls'[i].on = c.on /\ calls'[i].live = c.live /\ calls'[i].got = c.got
    BY <2>4
  <2>7. c.op = calls[i].op /\ c.on = calls[i].on /\ c.live = calls[i].live /\ c.got = got
    BY <2>1
  <2>8. faults' \in 0 .. MaxFaults /\ faults' <= faults
    BY <1>00, <1>1
  <2> QED
    BY <2>3, <2>5, <2>6, <2>7, <2>8
<1>2. CASE /\ faults > 0 /\ faults' = faults - 1
           /\ calls' = [calls EXCEPT ![i] = Again(@)]
  <2>1. faults' \in 0 .. MaxFaults /\ faults' <= faults
    BY <1>00, <1>2
  <2> QED
    BY <1>0, <1>2, <2>1, AgainHere
<1> QED
  BY <1>1, <1>2 DEF Serve

LEMMA SettleHere ==
    ASSUME CallsHere, NEW i \in Slots, Settle(i), view'.page = view.page
    PROVE  /\ CallsHere'
           /\ calls'[i].op = "none" /\ ~calls'[i].live
           /\ \A j \in Slots \ {i} : calls'[j] = calls[j]
<1>1. CallsHere' /\ calls'[i] = NoCall /\ \A j \in Slots \ {i} : calls'[j] = calls[j]
  BY NoCallHere, OneHere DEF Settle
<1> QED
  BY <1>1 DEF NoCall

\* A page is left, and its requests go on unheard.
LEMMA OpenHere ==
    ASSUME CallsHere, calls' = [i \in Slots |-> [calls[i] EXCEPT !.live = FALSE]]
    PROVE  /\ CallsHere'
           /\ \A i \in Slots : Same(calls'[i], calls[i]) /\ ~calls'[i].live
<1>1. ASSUME NEW i \in Slots
      PROVE  CallOf(calls'[i], view'.page) /\ Same(calls'[i], calls[i]) /\ ~calls'[i].live
  <2>1. Shaped(calls[i]) /\ calls[i].stage \in {"sent", "ok", "failed"}
    BY DEF CallsHere, CallOf
  <2>2. calls'[i] = [op |-> calls[i].op, on |-> calls[i].on, stage |-> calls[i].stage,
                     try |-> calls[i].try, live |-> FALSE, watched |-> calls[i].watched,
                     got |-> calls[i].got]
    BY <2>1 DEF Shaped
  <2> QED
    BY <2>1, <2>2 DEF CallOf, Shaped, Same
<1> QED
  BY <1>1 DEF CallsHere

\* A page sends one request; the others stay as they were.
LEMMA SendHere ==
    ASSUME NEW op, op # "none", NEW on, CallsHere, Send(op, on),
           view'.page = PageOf(op), view.page = view'.page \/ view.page = "away"
    PROVE  /\ CallsHere'
           /\ \E s \in Slots :
                /\ calls[s].op = "none"
                /\ calls'[s].op = op /\ calls'[s].on = on
                /\ calls'[s].live /\ calls'[s].stage = "sent"
                /\ \A i \in Slots \ {s} : /\ Same(calls'[i], calls[i])
                                          /\ calls'[i].live = calls[i].live
<1>1. FreeSlot \in Slots /\ calls[FreeSlot].op = "none"
  BY DEF Send, UnderWay, FreeSlot
<1>2. /\ calls'[FreeSlot] = [NoCall EXCEPT !.op = op, !.on = on, !.live = TRUE,
                                           !.watched = TRUE]
      /\ \A i \in Slots \ {FreeSlot} :
           calls'[i] = [calls[i] EXCEPT !.watched = @ /\ calls[i].op # op]
      /\ calls' = [i \in Slots |-> calls'[i]]
  BY <1>1 DEF Send
<1>3. calls'[FreeSlot] = [op |-> op, on |-> on, stage |-> "sent", try |-> 1,
                          live |-> TRUE, watched |-> TRUE, got |-> None]
  BY <1>2 DEF NoCall
<1>4. CallOf(calls'[FreeSlot], view'.page)
  BY <1>3 DEF CallOf, Shaped
<1>5. ASSUME NEW i \in Slots \ {FreeSlot}
      PROVE  /\ CallOf(calls'[i], view'.page)
             /\ Same(calls'[i], calls[i]) /\ calls'[i].live = calls[i].live
  <2>1. CallOf(calls[i], view.page) /\ Shaped(calls[i])
    BY DEF CallsHere, CallOf
  <2>2. PICK w : w = (calls[i].watched /\ calls[i].op # op)
    OBVIOUS
  <2>3. calls'[i] = [calls[i] EXCEPT !.watched = w]
    BY <1>2, <2>2
  <2>4. calls'[i] = [op |-> calls[i].op, on |-> calls[i].on, stage |-> calls[i].stage,
                     try |-> calls[i].try, live |-> calls[i].live, watched |-> w,
                     got |-> calls[i].got]
    BY <2>1, <2>3 DEF Shaped
  <2>5. PageOf(calls[i].op) # "away"
    BY DEF PageOf
  <2>6. Same(calls'[i], calls[i]) /\ calls'[i].live = calls[i].live /\ Shaped(calls'[i])
    BY <2>4 DEF Same, Shaped
  <2> QED
    BY <2>1, <2>5, <2>6 DEF CallOf, Same
<1>6. CallsHere'
  BY <1>1, <1>2, <1>4, <1>5 DEF CallsHere
<1>7. calls'[FreeSlot].op = op /\ calls'[FreeSlot].on = on /\ calls'[FreeSlot].live
        /\ calls'[FreeSlot].stage = "sent"
  BY <1>3
<1> QED
  BY <1>1, <1>5, <1>6, <1>7
-----------------------------------------------------------------------------
(* The kinds of steps.                                                     *)

PageStays == "page" \in DOMAIN view' /\ view'.page = view.page

\* One request changes, and it is of these kinds.
LEMMA OneApart ==
    ASSUME NEW pages, NEW ops, NEW i \in Slots, calls[i].op \in ops, calls'[i].op \in ops,
           \A j \in Slots \ {i} : Same(calls'[j], calls[j]) /\ calls'[j].live = calls[j].live
    PROVE  CallsApart(pages, ops)
<1>1. ASSUME NEW j \in Slots
      PROVE  \/ calls[j].op \in ops /\ calls'[j].op \in ops
             \/ /\ Same(calls'[j], calls[j])
                /\ calls'[j].live = calls[j].live \/ (view'.page \in pages /\ ~calls'[j].live)
  <2>1. CASE j = i
    BY <2>1
  <2>2. CASE j # i
    <3>1. j \in Slots \ {i}
      BY <2>2
    <3>2. Same(calls'[j], calls[j]) /\ calls'[j].live = calls[j].live
      BY <3>1
    <3> QED
      BY <3>2, Zenon
  <2> QED
    BY <2>1, <2>2
<1> QED
  BY <1>1, Zenon DEF CallsApart

\* What the page shows changes, and nothing else.
LEMMA QuietStep ==
    ASSUME Base, NEW pages, NEW ops, PageStays, view.page \in pages,
           UNCHANGED <<calls, server, told>>, faults' \in 0 .. MaxFaults
    PROVE  Base' /\ Apart(pages, ops)
<1>1. CallsHere'
  BY DEF Base, CallsHere, PageStays
<1>2. calls' = calls
  OBVIOUS
<1>3. CallsApart(pages, ops)
  BY <1>2, Zenon DEF CallsApart, Same
<1> QED
  BY <1>1, <1>3 DEF Base, Apart, PageStays, ServerShaped, ToldShaped

\* A page sends a request.
LEMMA SendStep ==
    ASSUME Base, NEW pages, NEW op, NEW on, op # "none", Send(op, on),
           "page" \in DOMAIN view', view'.page = PageOf(op), PageOf(op) \in pages,
           view.page \in {PageOf(op), "away"}, UNCHANGED <<server, told, faults>>
    PROVE  Base' /\ Apart(pages, {"none", op})
<1>1. /\ CallsHere'
      /\ \E s \in Slots :
           /\ calls[s].op = "none"
           /\ calls'[s].op = op /\ calls'[s].on = on
           /\ calls'[s].live /\ calls'[s].stage = "sent"
           /\ \A i \in Slots \ {s} : /\ Same(calls'[i], calls[i])
                                     /\ calls'[i].live = calls[i].live
  BY SendHere DEF Base
<1>2. CallsApart(pages, {"none", op})
  BY <1>1, OneApart
<1> QED
  BY <1>1, <1>2 DEF Base, Apart, PageStays, ServerShaped, ToldShaped

\* An answer is handled.
LEMMA SettleStep ==
    ASSUME Base, NEW pages, NEW ops, NEW i \in Slots, Settle(i),
           calls[i].op \in ops, "none" \in ops, PageStays,
           view' = view \/ view.page \in pages, UNCHANGED <<server, told, faults>>
    PROVE  Base' /\ Apart(pages, ops)
<1>1. /\ CallsHere'
      /\ calls'[i].op = "none"
      /\ \A j \in Slots \ {i} : calls'[j] = calls[j]
  BY SettleHere DEF Base, PageStays
<1>2. CallsApart(pages, ops)
  BY <1>1, OneApart DEF Same
<1> QED
  BY <1>1, <1>2 DEF Base, Apart, PageStays, ServerShaped, ToldShaped

\* The server carries a request out.
LEMMA ServeStep ==
    ASSUME Base, NEW pages, NEW ops, NEW i \in Slots, NEW got, Serve(i, got),
           calls[i].stage = "sent", calls[i].op \in ops,
           view' = view, ServerShaped', ToldShaped'
    PROVE  Base' /\ Apart(pages, ops) /\ faults' <= faults
<1>1. /\ CallsHere'
      /\ faults' \in 0 .. MaxFaults /\ faults' <= faults
      /\ calls'[i].op = calls[i].op
      /\ \A j \in Slots \ {i} : calls'[j] = calls[j]
  BY ServeHere
<1>2. CallsApart(pages, ops)
  BY <1>1, OneApart DEF Same
<1>3. "page" \in DOMAIN view'
  BY DEF Base
<1>4. Base'
  BY <1>1, <1>3 DEF Base
<1>5. Apart(pages, ops)
  BY <1>2 DEF Apart
<1> QED
  BY <1>1, <1>4, <1>5

\* A request comes to nothing, and the server is as it was.
LEMMA AgainStep ==
    ASSUME Base, NEW pages, NEW ops, NEW i \in Slots, calls[i].stage = "sent",
           calls' = [calls EXCEPT ![i] = Again(@)], calls[i].op \in ops,
           view' = view, UNCHANGED <<server, told>>, faults' \in 0 .. MaxFaults
    PROVE  Base' /\ Apart(pages, ops)
<1>1. /\ CallsHere'
      /\ calls'[i].op = calls[i].op
      /\ \A j \in Slots \ {i} : calls'[j] = calls[j]
  BY AgainHere DEF Base
<1>2. CallsApart(pages, ops)
  BY <1>1, OneApart DEF Same
<1> QED
  BY <1>1, <1>2 DEF Base, Apart, ServerShaped, ToldShaped

\* A page is opened, and what was under way goes on unheard.
LEMMA OpenStep ==
    ASSUME Base, NEW pages, NEW ops, NEW v, Open(v), "page" \in DOMAIN v, v.page \in pages,
           UNCHANGED <<server, told, faults>>
    PROVE  /\ Base' /\ Apart(pages, ops) /\ view' = v
           /\ \A i \in Slots : Same(calls'[i], calls[i]) /\ ~calls'[i].live
<1>1. /\ CallsHere'
      /\ \A i \in Slots : Same(calls'[i], calls[i]) /\ ~calls'[i].live
  BY OpenHere DEF Base, Open
<1>2. view' = v
  BY DEF Open
<1>3. CallsApart(pages, ops)
  BY <1>1, <1>2 DEF CallsApart
<1> QED
  BY <1>1, <1>2, <1>3 DEF Base, Apart, ServerShaped, ToldShaped

LEMMA ApartGrows ==
    ASSUME NEW pages, NEW ops, NEW more, Apart(pages, ops), ops \subseteq more
    PROVE  Apart(pages, more)
  BY DEF Apart, CallsApart
-----------------------------------------------------------------------------
(* What the steps of a page leave alone.                                   *)

WhitelistOps == {"none", "detect", "addEntry", "removeEntry"}
WhitelistDoes ==
    WhitelistSteps \/ \E i \in Slots : WhitelistAnswers(i) \/ WhitelistApi(i)

LEMMA WhitelistApart ==
    ASSUME Base, WhitelistDoes
    PROVE  /\ Base' /\ Apart({"whitelist"}, WhitelistOps)
           /\ server'.ips = server.ips /\ server'.autoscale = server.autoscale
           /\ server'.cookie = server.cookie
           /\ told' = told /\ faults' <= faults
<1> DEFINE Goal == /\ Base' /\ Apart({"whitelist"}, WhitelistOps)
                   /\ server'.ips = server.ips /\ server'.autoscale = server.autoscale
                   /\ server'.cookie = server.cookie
                   /\ told' = told /\ faults' <= faults
<1>0. faults \in 0 .. MaxFaults /\ "page" \in DOMAIN view /\ MaxFaults \in Nat /\ ServerShaped
  BY TabAssumption DEF Base
<1>a. ASSUME UNCHANGED <<calls, server, told, faults>>, PageStays, view.page = "whitelist"
      PROVE  Goal
  BY <1>a, <1>0, QuietStep
<1>b. ASSUME NEW op \in WhitelistOps \ {"none"}, NEW on, Send(op, on), PageStays,
             view.page = "whitelist", UNCHANGED <<server, told, faults>>
      PROVE  Goal
  <2>1. PageOf(op) = "whitelist"
    BY DEF PageOf, WhitelistOps, ListOps, AddonOps
  <2>2. Base' /\ Apart({"whitelist"}, {"none", op})
    BY <1>b, <2>1, SendStep DEF PageStays
  <2> QED
    BY <1>0, <1>b, <2>2, ApartGrows DEF WhitelistOps
<1>c. ASSUME NEW i \in Slots, calls[i].op \in WhitelistOps, Settle(i), PageStays,
             view' = view \/ view.page = "whitelist", UNCHANGED <<server, told, faults>>
      PROVE  Goal
  BY <1>c, <1>0, SettleStep DEF WhitelistOps
<1>d. ASSUME NEW i \in Slots, calls[i].op \in WhitelistOps, calls[i].stage = "sent",
             NEW got, Serve(i, got), UNCHANGED <<view, told>>, ServerShaped',
             server'.ips = server.ips, server'.autoscale = server.autoscale,
             server'.cookie = server.cookie
      PROVE  Goal
  BY <1>d, ServeStep DEF Base, ToldShaped
<1>2. CASE ShowAdd
  BY <1>0, <1>2, <1>a DEF ShowAdd, AllowClick, OnWhitelist, PageStays
<1>3. CASE CloseAdd
  BY <1>0, <1>3, <1>a DEF CloseAdd, Adding, OnWhitelist, PageStays
<1>4. CASE handleUseCurrentIp
  BY <1>0, <1>4, <1>b DEF handleUseCurrentIp, Adding, OnWhitelist, PageStays, WhitelistOps
<1>5. CASE handleSubmitEntry
  BY <1>0, <1>5, <1>b DEF handleSubmitEntry, Adding, OnWhitelist, PageStays, WhitelistOps
<1>6. CASE CloseRemove
  BY <1>0, <1>6, <1>a DEF CloseRemove, OnWhitelist, PageStays
<1>7. CASE handleRemoveEntry
  BY <1>0, <1>7, <1>b DEF handleRemoveEntry, OnWhitelist, PageStays, WhitelistOps
<1>8. ASSUME NEW c \in Cidrs, validateAndSetCidr(c) \/ AskRemove(c)
      PROVE  Goal
  BY <1>0, <1>8, <1>a DEF validateAndSetCidr, AskRemove, Adding, AllowClick, OnWhitelist,
                          PageStays
<1>1. ASSUME NEW i \in Slots, RefuseAddEntry(i)
      PROVE  Goal
  <2>1. /\ calls[i].op \in WhitelistOps /\ calls[i].stage = "sent" /\ view' = view
        /\ calls' = [calls EXCEPT ![i] = Again(@)] /\ UNCHANGED <<server, told, faults>>
    BY <1>1 DEF RefuseAddEntry, Refuse, Sent, WhitelistOps
  <2>2. Base' /\ Apart({"whitelist"}, WhitelistOps)
    BY <1>0, <2>1, AgainStep
  <2> QED
    BY <1>0, <2>1, <2>2
<1>9. ASSUME NEW i \in Slots, Detect(i) \/ ServeAddEntry(i) \/ ServeRemoveEntry(i)
      PROVE  Goal
  <2>1. CASE Detect(i)
    BY <1>0, <2>1, <1>d DEF Detect, Sent, WhitelistOps, ServerShaped
  <2>2. CASE ServeAddEntry(i)
    BY <1>0, <2>2, <1>d DEF ServeAddEntry, Sent, WhitelistOps, ServerShaped
  <2>3. CASE ServeRemoveEntry(i)
    BY <1>0, <2>3, <1>d DEF ServeRemoveEntry, Sent, WhitelistOps, ServerShaped
  <2> QED
    BY <1>9, <2>1, <2>2, <2>3
<1>10. ASSUME NEW i \in Slots, Detected(i) \/ EntryAdded(i) \/ EntryRemoved(i)
       PROVE  Goal
  <2>1. calls[i].op \in WhitelistOps \ {"none"}
    BY <1>10 DEF Detected, EntryAdded, EntryRemoved, Answered, WhitelistOps
  <2>2. calls[i].live => view.page = "whitelist"
    BY <2>1 DEF Base, CallsHere, CallOf, PageOf, WhitelistOps, ListOps, AddonOps
  <2>3. PageStays /\ (view' = view \/ view.page = "whitelist")
    BY <1>0, <1>10, <2>2 DEF Detected, EntryAdded, EntryRemoved, PageStays
  <2>4. Settle(i) /\ UNCHANGED <<server, told, faults>>
    BY <1>10 DEF Detected, EntryAdded, EntryRemoved
  <2> QED
    BY <1>c, <2>1, <2>3, <2>4
<1> QED
  BY <1>1, <1>2, <1>3, <1>4, <1>5, <1>6, <1>7, <1>8, <1>9, <1>10
  DEF WhitelistDoes, WhitelistSteps, WhitelistAnswers, WhitelistApi

AllowedOps == {"none", "ips", "addIP", "removeIP"}
AllowedDoes == AllowedSteps \/ \E i \in Slots : IPsAnswered(i) \/ ServeIPs(i)

LEMMA AllowedApart ==
    ASSUME Base, AllowedDoes
    PROVE  /\ Base' /\ Apart({"allowedIPs"}, AllowedOps)
           /\ server'.entries = server.entries /\ server'.autoscale = server.autoscale
           /\ server'.cookie = server.cookie
           /\ told' = told /\ faults' <= faults
<1> DEFINE Goal == /\ Base' /\ Apart({"allowedIPs"}, AllowedOps)
                   /\ server'.entries = server.entries
                   /\ server'.autoscale = server.autoscale
                   /\ server'.cookie = server.cookie
                   /\ told' = told /\ faults' <= faults
<1>0. faults \in 0 .. MaxFaults /\ "page" \in DOMAIN view /\ MaxFaults \in Nat /\ ServerShaped
  BY TabAssumption DEF Base
<1>b. ASSUME NEW op \in ListOps, NEW on, Send(op, on), "page" \in DOMAIN view',
             view'.page = "allowedIPs", view.page \in {"allowedIPs", "away"},
             UNCHANGED <<server, told, faults>>
      PROVE  Goal
  <2>1. PageOf(op) = "allowedIPs" /\ op # "none"
    BY DEF PageOf, ListOps, AddonOps
  <2>2. Base' /\ Apart({"allowedIPs"}, {"none", op})
    BY <1>b, <2>1, SendStep
  <2> QED
    BY <1>0, <1>b, <2>2, ApartGrows DEF AllowedOps, ListOps
<1>1. CASE OpenAllowed
  BY <1>0, <1>1, <1>b DEF OpenAllowed, fetchIPs, AllowedPage, ListOps
<1>2. CASE TryAgain
  BY <1>0, <1>2, <1>b DEF TryAgain, fetchIPs, OnAllowed, ListOps
<1>3. ASSUME NEW ip \in Cidrs, handleAddIP(ip)
      PROVE  Goal
  BY <1>0, <1>3, <1>b DEF handleAddIP, OnAllowed, ListOps
<1>4. ASSUME NEW ip \in Cidrs, handleRemoveIP(ip)
      PROVE  Goal
  BY <1>0, <1>4, <1>b DEF handleRemoveIP, OnAllowed, ListOps
<1>5. ASSUME NEW i \in Slots, ServeIPs(i)
      PROVE  Goal
  <2>1. PICK got : Serve(i, got) /\ server' = [server EXCEPT !.ips = got]
    BY <1>5 DEF ServeIPs
  <2>2. calls[i].stage = "sent" /\ calls[i].op \in AllowedOps /\ UNCHANGED <<view, told>>
    BY <1>5 DEF ServeIPs, AllowedOps, ListOps
  <2>3. ServerShaped' /\ ToldShaped'
    BY <1>0, <2>1, <2>2 DEF ServerShaped, ToldShaped, Base
  <2>4. Base' /\ Apart({"allowedIPs"}, AllowedOps) /\ faults' <= faults
    BY <2>1, <2>2, <2>3, ServeStep
  <2> QED
    BY <1>0, <2>1, <2>2, <2>4 DEF ServerShaped
<1>6. ASSUME NEW i \in Slots, IPsAnswered(i)
      PROVE  Goal
  <2>1. calls[i].op \in ListOps /\ Settle(i) /\ UNCHANGED <<server, told, faults>>
    BY <1>6 DEF IPsAnswered
  <2>2. calls[i].live => view.page = "allowedIPs"
    BY <2>1 DEF Base, CallsHere, CallOf, PageOf, ListOps, AddonOps
  <2>3. PageStays /\ (view' = view \/ view.page = "allowedIPs")
    BY <1>0, <1>6, <2>2 DEF IPsAnswered, PageStays
  <2> QED
    BY <1>0, <2>1, <2>3, SettleStep DEF AllowedOps, ListOps
<1> QED
  BY <1>1, <1>2, <1>3, <1>4, <1>5, <1>6 DEF AllowedDoes, AllowedSteps

KeysOps == {"none", "makeKey", "revokeKey"}
KeysDoes == KeySteps \/ \E i \in Slots : KeyTimers(i)

LEMMA KeysApart ==
    ASSUME Base, KeysDoes
    PROVE  /\ Base' /\ Apart({"keys"}, KeysOps)
           /\ server' = server /\ told' = told /\ faults' <= faults
<1> DEFINE Goal == /\ Base' /\ Apart({"keys"}, KeysOps)
                   /\ server' = server /\ told' = told /\ faults' <= faults
<1>0. faults \in 0 .. MaxFaults /\ "page" \in DOMAIN view /\ MaxFaults \in Nat
  BY TabAssumption DEF Base
<1>a. ASSUME UNCHANGED <<calls, server, told, faults>>, PageStays, view.page = "keys"
      PROVE  Goal
  BY <1>a, <1>0, QuietStep
<1>b. ASSUME NEW op \in KeysOps \ {"none"}, NEW on, Send(op, on), PageStays,
             view.page = "keys", UNCHANGED <<server, told, faults>>
      PROVE  Goal
  <2>1. PageOf(op) = "keys"
    BY DEF PageOf, KeysOps, ListOps, AddonOps
  <2>2. Base' /\ Apart({"keys"}, {"none", op})
    BY <1>b, <2>1, SendStep DEF PageStays
  <2> QED
    BY <1>0, <1>b, <2>2, ApartGrows DEF KeysOps
<1>1. CASE ShowCreateKey
  BY <1>0, <1>1, <1>a DEF ShowCreateKey, KeysClick, OnKeys, OnScreen, PageStays
<1>2. CASE CloseKey
  BY <1>0, <1>2, <1>a DEF CloseKey, OnKeys, PageStays
<1>3. CASE handleCreateKey
  BY <1>0, <1>3, <1>b DEF handleCreateKey, OnKeys, PageStays, KeysOps
<1>4. CASE CloseRevoke
  BY <1>0, <1>4, <1>a DEF CloseRevoke, OnKeys, PageStays
<1>5. CASE handleRevoke
  BY <1>0, <1>5, <1>b DEF handleRevoke, OnKeys, PageStays, KeysOps
<1>6. ASSUME NEW k \in KeyIds, AskRevoke(k)
      PROVE  Goal
  BY <1>0, <1>6, <1>a DEF AskRevoke, KeysClick, OnKeys, PageStays
<1>7. ASSUME NEW i \in Slots, KeyTimers(i)
      PROVE  Goal
  <2>1. /\ calls[i].op \in KeysOps \ {"none"} /\ Settle(i)
        /\ UNCHANGED <<server, told, faults>>
    BY <1>7 DEF KeyTimers, KeyMade, KeyRevoked, Sent, KeysOps
  <2>2. calls[i].live => view.page = "keys"
    BY <2>1 DEF Base, CallsHere, CallOf, PageOf, KeysOps, ListOps, AddonOps
  <2>3. CASE KeyMade(i)
    <3>1. PageStays /\ (view' = view \/ view.page = "keys")
      BY <1>0, <2>2, <2>3 DEF KeyMade, OnScreen, PageStays
    <3> QED
      BY <1>0, <2>1, <3>1, SettleStep DEF KeysOps
  <2>4. CASE KeyRevoked(i)
    <3>1. PageStays /\ (view' = view \/ view.page = "keys")
      BY <1>0, <2>2, <2>4 DEF KeyRevoked, PageStays
    <3> QED
      BY <1>0, <2>1, <3>1, SettleStep DEF KeysOps
  <2> QED
    BY <1>7, <2>3, <2>4 DEF KeyTimers
<1> QED
  BY <1>1, <1>2, <1>3, <1>4, <1>5, <1>6, <1>7 DEF KeysDoes, KeySteps

ProfileOps == {"none", "saveProfile"}
ProfileDoes == ProfileSteps \/ \E i \in Slots : Saved(i)

LEMMA ProfileApart ==
    ASSUME Base, ProfileDoes
    PROVE  /\ Base' /\ Apart({"profile"}, ProfileOps)
           /\ server' = server /\ told' = told /\ faults' <= faults
<1> DEFINE Goal == /\ Base' /\ Apart({"profile"}, ProfileOps)
                   /\ server' = server /\ told' = told /\ faults' <= faults
<1>0. faults \in 0 .. MaxFaults /\ "page" \in DOMAIN view /\ MaxFaults \in Nat
  BY TabAssumption DEF Base
<1>a. ASSUME UNCHANGED <<calls, server, told, faults>>, PageStays, view.page = "profile"
      PROVE  Goal
  BY <1>a, <1>0, QuietStep
<1>1. CASE EditName
  BY <1>0, <1>1, <1>a DEF EditName, OnProfile, PageStays
<1>2. CASE CancelEdit
  BY <1>0, <1>2, <1>a DEF CancelEdit, OnProfile, PageStays
<1>3. CASE handleSave
  <2>1. PageOf("saveProfile") = "profile"
    BY DEF PageOf, ListOps, AddonOps
  <2>2. Send("saveProfile", None) /\ PageStays /\ view.page = "profile"
          /\ UNCHANGED <<server, told, faults>>
    BY <1>0, <1>3 DEF handleSave, OnProfile, PageStays
  <2> QED
    BY <1>0, <2>1, <2>2, SendStep DEF ProfileOps, PageStays
<1>4. CASE togglePref
  BY <1>0, <1>4, <1>a DEF togglePref, OnProfile, PageStays
<1>5. ASSUME NEW name \in {"own", "typed", "empty"}, TypeName(name)
      PROVE  Goal
  BY <1>0, <1>5, <1>a DEF TypeName, OnProfile, PageStays
<1>6. ASSUME NEW i \in Slots, Saved(i)
      PROVE  Goal
  <2>1. calls[i].op = "saveProfile" /\ Settle(i) /\ UNCHANGED <<server, told, faults>>
    BY <1>6 DEF Saved, Sent
  <2>2. calls[i].live => view.page = "profile"
    BY <2>1 DEF Base, CallsHere, CallOf, PageOf, ListOps, AddonOps
  <2>3. PageStays /\ (view' = view \/ view.page = "profile")
    BY <1>0, <1>6, <2>2 DEF Saved, PageStays
  <2> QED
    BY <1>0, <2>1, <2>3, SettleStep DEF ProfileOps
<1> QED
  BY <1>1, <1>2, <1>3, <1>4, <1>5, <1>6 DEF ProfileDoes, ProfileSteps

AddonsOps == {"none"} \cup AddonOps
AddonsDoes ==
    AddonSteps \/ \E i \in Slots : AddonAnswered(i) \/ ServeAddon(i) \/ RefuseAddon(i)

\* The requests that Apply sends.
LEMMA ApplySends ==
    ASSUME Base, handleApply
    PROVE  /\ Base' /\ Apart({"storage"}, AddonsOps)
           /\ \A i \in Slots : \/ calls'[i] = calls[i]
                               \/ /\ calls[i].op = "none"
                                  /\ <<calls'[i].op, calls'[i].on>> \in Applied
                                  /\ calls'[i].live /\ calls'[i].stage = "sent"
                                  /\ calls'[i].try = 1 /\ calls'[i].live \in BOOLEAN
                                  /\ calls'[i].watched \in BOOLEAN
           /\ \E i \in Slots : calls'[i].op = "setAutoscale" /\ calls[i].op = "none"
           /\ \A i, j \in Slots : (/\ calls[i].op = "none" /\ calls[j].op = "none"
                                   /\ calls'[i].op = "setAutoscale"
                                   /\ calls'[j].op = "setAutoscale") => i = j
<1>0. CallsHere /\ "page" \in DOMAIN view /\ view.page = "storage"
  BY DEF Base, handleApply, OnAddons
<1>1. PICK slot \in [Applied -> UnderWay("none")] :
         /\ IsInjective(slot)
         /\ calls' = [i \in Slots |->
                        IF \E a \in Applied : slot[a] = i
                        THEN LET a == CHOOSE x \in Applied : slot[x] = i IN
                             [NoCall EXCEPT !.op = a[1], !.on = a[2], !.live = TRUE,
                                            !.watched = TRUE]
                        ELSE calls[i]]
  BY Zenon DEF handleApply
<1>2. /\ \A a \in Applied : a = <<a[1], a[2]>> /\ a[1] \in AddonOps
      /\ \A a, b \in Applied : a[1] = "setAutoscale" /\ b[1] = "setAutoscale" => a = b
      /\ <<"setAutoscale", view.autoscale>> \in Applied
  BY DEF Applied, AddonOps
<1>3. ASSUME NEW i \in Slots
      PROVE  \/ calls'[i] = calls[i] /\ ~\E a \in Applied : slot[a] = i
             \/ \E a \in Applied :
                  /\ slot[a] = i
                  /\ calls[i].op = "none"
                  /\ calls'[i] = [op |-> a[1], on |-> a[2], stage |-> "sent", try |-> 1,
                                  live |-> TRUE, watched |-> TRUE, got |-> None]
  <2>1. CASE \E a \in Applied : slot[a] = i
    <3>1. PICK a : a = CHOOSE x \in Applied : slot[x] = i
      OBVIOUS
    <3>2. a \in Applied /\ slot[a] = i
      BY <2>1, <3>1
    <3>3. calls'[i] = [NoCall EXCEPT !.op = a[1], !.on = a[2], !.live = TRUE, !.watched = TRUE]
      BY <1>1, <2>1, <3>1
    <3>4. calls'[i] = [op |-> a[1], on |-> a[2], stage |-> "sent", try |-> 1,
                       live |-> TRUE, watched |-> TRUE, got |-> None]
      BY <3>3 DEF NoCall
    <3>5. calls[i].op = "none"
      BY <3>2 DEF UnderWay
    <3> QED
      BY <3>2, <3>4, <3>5
  <2>2. CASE ~\E a \in Applied : slot[a] = i
    BY <1>1, <2>2, Zenon
  <2> QED
    BY <2>1, <2>2
<1>4. PageStays
  BY <1>0 DEF handleApply, Setting, PageStays
<1>5. ASSUME NEW op \in AddonOps
      PROVE  op # "none" /\ PageOf(op) = "storage"
  BY DEF PageOf, AddonOps, ListOps
<1>6. ASSUME NEW i \in Slots
      PROVE  CallOf(calls'[i], view'.page)
  <2>1. CASE calls'[i] = calls[i]
    BY <1>0, <1>4, <2>1 DEF CallsHere, PageStays
  <2>2. ASSUME NEW a \in Applied,
               calls'[i] = [op |-> a[1], on |-> a[2], stage |-> "sent", try |-> 1,
                            live |-> TRUE, watched |-> TRUE, got |-> None]
        PROVE  CallOf(calls'[i], view'.page)
    <3>1. calls'[i].op = a[1] /\ Shaped(calls'[i]) /\ calls'[i].stage = "sent"
      BY <2>2 DEF Shaped
    <3> QED
      BY <1>0, <1>2, <1>4, <1>5, <3>1 DEF CallOf, PageStays
  <2> QED
    BY <1>3, <2>1, <2>2
<1>7. calls' = [i \in Slots |-> calls'[i]]
  BY <1>1
<1>8. CallsHere'
  BY <1>6, <1>7 DEF CallsHere
<1>9. ASSUME NEW i \in Slots
      PROVE  \/ calls'[i] = calls[i]
             \/ /\ calls[i].op = "none"
                /\ <<calls'[i].op, calls'[i].on>> \in Applied
                /\ calls'[i].op \in AddonOps
                /\ calls'[i].live /\ calls'[i].stage = "sent"
                /\ calls'[i].try = 1 /\ calls'[i].live \in BOOLEAN
                /\ calls'[i].watched \in BOOLEAN
  <2>1. ASSUME NEW a \in Applied, calls[i].op = "none",
               calls'[i] = [op |-> a[1], on |-> a[2], stage |-> "sent", try |-> 1,
                            live |-> TRUE, watched |-> TRUE, got |-> None]
        PROVE  /\ <<calls'[i].op, calls'[i].on>> \in Applied
               /\ calls'[i].op \in AddonOps
               /\ calls'[i].live /\ calls'[i].stage = "sent"
               /\ calls'[i].try = 1 /\ calls'[i].live \in BOOLEAN
               /\ calls'[i].watched \in BOOLEAN
    <3>1. /\ calls'[i].op = a[1] /\ calls'[i].on = a[2] /\ calls'[i].live
          /\ calls'[i].stage = "sent" /\ calls'[i].try = 1
          /\ calls'[i].live \in BOOLEAN /\ calls'[i].watched \in BOOLEAN
      BY <2>1
    <3>2. <<a[1], a[2]>> \in Applied /\ a[1] \in AddonOps
      BY <1>2
    <3> QED
      BY <3>1, <3>2
  <2> QED
    BY ZenonT(60), <1>3, <2>1
<1>10. CallsApart({"storage"}, AddonsOps)
  <2>1. ASSUME NEW i \in Slots, calls'[i] = calls[i]
        PROVE  Same(calls'[i], calls[i]) /\ calls'[i].live = calls[i].live
    BY <2>1 DEF Same
  <2>2. ASSUME NEW i \in Slots, calls[i].op = "none", calls'[i].op \in AddonOps
        PROVE  calls[i].op \in AddonsOps /\ calls'[i].op \in AddonsOps
    BY <2>2 DEF AddonsOps
  <2> QED
    BY <1>9, <2>1, <2>2, Zenon DEF CallsApart
<1>11. \E i \in Slots : calls'[i].op = "setAutoscale" /\ calls[i].op = "none"
  <2>1. PICK a \in Applied : a[1] = "setAutoscale"
    BY <1>2
  <2>2. slot[a] \in Slots /\ calls[slot[a]].op = "none"
    BY DEF UnderWay
  <2>3. PICK b \in Applied :
          /\ slot[b] = slot[a]
          /\ calls'[slot[a]] = [op |-> b[1], on |-> b[2], stage |-> "sent", try |-> 1,
                                live |-> TRUE, watched |-> TRUE, got |-> None]
    BY <1>3, <2>2
  <2>4. b = a
    BY <1>1, <2>3 DEF IsInjective
  <2> QED
    BY <2>1, <2>2, <2>3, <2>4
<1>12. ASSUME NEW i \in Slots, NEW j \in Slots, calls[i].op = "none", calls[j].op = "none",
              calls'[i].op = "setAutoscale", calls'[j].op = "setAutoscale"
       PROVE  i = j
  <2>1. ASSUME NEW h \in Slots, calls[h].op = "none", calls'[h].op = "setAutoscale"
        PROVE  slot[<<"setAutoscale", view.autoscale>>] = h
    <3>0. PICK a \in Applied :
            /\ slot[a] = h
            /\ calls'[h] = [op |-> a[1], on |-> a[2], stage |-> "sent", try |-> 1,
                            live |-> TRUE, watched |-> TRUE, got |-> None]
      <4>1. calls'[h] # calls[h]
        BY <2>1
      <4> QED
        BY <1>3, <4>1, Zenon
    <3>1. slot[a] = h /\ calls'[h].op = a[1]
      BY <3>0
    <3>2. a = <<"setAutoscale", view.autoscale>>
      BY <1>2, <2>1, <3>1
    <3> QED
      BY <3>1, <3>2
  <2> QED
    BY <1>12, <2>1
<1>13. Base' /\ Apart({"storage"}, AddonsOps)
  BY <1>0, <1>4, <1>8, <1>10
  DEF Base, Apart, PageStays, ServerShaped, ToldShaped, handleApply
<1> QED
  BY <1>9, <1>11, <1>12, <1>13

LEMMA AddonsApart ==
    ASSUME Base, AddonsDoes
    PROVE  /\ Base' /\ Apart({"storage"}, AddonsOps)
           /\ server'.entries = server.entries /\ server'.ips = server.ips
           /\ server'.cookie = server.cookie
           /\ told'.lost = told.lost /\ faults' <= faults
<1> DEFINE Goal == /\ Base' /\ Apart({"storage"}, AddonsOps)
                   /\ server'.entries = server.entries /\ server'.ips = server.ips
                   /\ server'.cookie = server.cookie
                   /\ told'.lost = told.lost /\ faults' <= faults
<1>0. /\ faults \in 0 .. MaxFaults /\ "page" \in DOMAIN view /\ MaxFaults \in Nat
      /\ ServerShaped /\ ToldShaped
  BY TabAssumption DEF Base
<1>7. CASE UsageComes \/ UsageFails
  <2>1. PageStays /\ view.page = "storage" /\ UNCHANGED <<calls, server, told>>
    BY <1>0, <1>7 DEF UsageComes, UsageFails, OnAddons, PageStays, Addons
  <2>2. faults' \in 0 .. MaxFaults /\ faults' <= faults
    BY <1>0, <1>7 DEF UsageComes, UsageFails
  <2> QED
    BY <1>0, <2>1, <2>2, QuietStep
<1>1. CASE Slide
  <2>1. PageStays /\ view.page = "storage" /\ UNCHANGED <<calls, server, told, faults>>
    BY <1>0, <1>1 DEF Slide, OnAddons, PageStays
  <2> QED
    BY <1>0, <2>1, QuietStep
<1>2. CASE Toggle
  <2>1. PageOf("setAutoscale") = "storage"
    BY DEF PageOf, ListOps, AddonOps
  <2>2. PICK on : Send("setAutoscale", on)
    BY <1>2 DEF Toggle
  <2>3. PageStays /\ view.page = "storage" /\ UNCHANGED <<server, told, faults>>
    BY <1>0, <1>2 DEF Toggle, Setting, OnAddons, PageStays
  <2>4. Base' /\ Apart({"storage"}, {"none", "setAutoscale"})
    BY <2>1, <2>2, <2>3, SendStep DEF PageStays
  <2> QED
    BY <1>0, <2>3, <2>4, ApartGrows DEF AddonsOps, AddonOps
<1>3. CASE handleApply
  <2>1. UNCHANGED <<server, told, faults>>
    BY <1>3 DEF handleApply
  <2>2. Base' /\ Apart({"storage"}, AddonsOps)
    BY <1>3, ApplySends
  <2> QED
    BY <1>0, <2>1, <2>2
<1>4. ASSUME NEW i \in Slots, ServeAddon(i)
      PROVE  Goal
  <2>1. /\ calls[i].op \in AddonsOps /\ calls[i].stage = "sent" /\ view' = view
        /\ Serve(i, None)
    BY <1>4 DEF ServeAddon, AddonsOps
  <2>2. /\ ServerShaped' /\ server'.entries = server.entries
        /\ server'.ips = server.ips /\ server'.cookie = server.cookie
    BY <1>0, <1>4 DEF ServeAddon, ServerShaped
  <2>3. told' = told
    BY <1>4 DEF ServeAddon
  <2>4. ToldShaped'
    BY <1>0, <2>3 DEF ToldShaped
  <2> QED
    BY <2>1, <2>2, <2>3, <2>4, ServeStep
<1>5. ASSUME NEW i \in Slots, RefuseAddon(i)
      PROVE  Goal
  <2>1. /\ calls[i].op \in AddonsOps /\ calls[i].stage = "sent" /\ view' = view
        /\ calls' = [calls EXCEPT ![i] = Again(@)] /\ UNCHANGED <<server, told, faults>>
    BY <1>5 DEF RefuseAddon, Refuse, Sent, AddonsOps, AddonOps
  <2>2. Base' /\ Apart({"storage"}, AddonsOps)
    BY <1>0, <2>1, AgainStep
  <2> QED
    BY <1>0, <2>1, <2>2
<1>6. ASSUME NEW i \in Slots, AddonAnswered(i)
      PROVE  Goal
  <2>1. calls[i].op \in AddonOps /\ Settle(i) /\ UNCHANGED <<server, told, faults>>
    BY <1>6 DEF AddonAnswered
  <2>2. calls[i].live => view.page = "storage"
    BY <2>1 DEF Base, CallsHere, CallOf, PageOf, ListOps, AddonOps
  <2>3. PageStays /\ (view' = view \/ view.page = "storage")
    BY <1>0, <1>6, <2>2 DEF AddonAnswered, PageStays
  <2> QED
    BY <1>0, <2>1, <2>3, SettleStep DEF AddonsOps
<1> QED
  BY <1>1, <1>2, <1>3, <1>4, <1>5, <1>6, <1>7 DEF AddonsDoes, AddonSteps

BillingOps == {"none", "pay", "confirm"}
BillingPages == {"billing", "checkout"}
BillingDoes == BillingSteps \/ \E i \in Slots : BillingAnswers(i) \/ BillingApi(i)

LEMMA BillingApart ==
    ASSUME Base, BillingDoes
    PROVE  /\ Base' /\ Apart(BillingPages, BillingOps)
           /\ server'.entries = server.entries /\ server'.ips = server.ips
           /\ server'.autoscale = server.autoscale /\ server'.cookie = server.cookie
           /\ told' = told /\ faults' <= faults
<1> DEFINE Others == /\ server'.entries = server.entries /\ server'.ips = server.ips
                     /\ server'.autoscale = server.autoscale
                     /\ server'.cookie = server.cookie
           Goal == /\ Base' /\ Apart(BillingPages, BillingOps) /\ Others
                   /\ told' = told /\ faults' <= faults
<1>0. /\ faults \in 0 .. MaxFaults /\ "page" \in DOMAIN view /\ MaxFaults \in Nat
      /\ ServerShaped /\ ToldShaped
  BY TabAssumption DEF Base
<1>a. ASSUME UNCHANGED <<calls, server, told>>, PageStays, view.page = "billing",
             faults' \in 0 .. MaxFaults, faults' <= faults
      PROVE  Goal
  BY <1>a, <1>0, QuietStep DEF BillingPages
<1>b. ASSUME NEW op \in {"pay", "confirm"}, NEW on, Send(op, on), PageStays,
             view.page = "billing", UNCHANGED <<server, told, faults>>
      PROVE  Goal
  <2>1. PageOf(op) = "billing" /\ PageOf(op) \in BillingPages
    BY DEF PageOf, ListOps, AddonOps, BillingPages
  <2>2. Base' /\ Apart(BillingPages, {"none", op})
    BY <1>b, <2>1, SendStep DEF PageStays
  <2> QED
    BY <1>0, <1>b, <2>2, ApartGrows DEF BillingOps
<1>c. ASSUME UNCHANGED <<view, calls, told, faults>>, ServerShaped', Others
      PROVE  Goal
  <2>1. CallsHere'
    BY <1>c DEF Base, CallsHere
  <2>2. CallsApart(BillingPages, BillingOps)
    <3>1. calls' = calls
      BY <1>c
    <3> QED
      BY <3>1, Zenon DEF CallsApart, Same
  <2> QED
    BY <1>0, <1>c, <2>1, <2>2 DEF Base, Apart, ToldShaped
<1>1. CASE FetchUsage
  BY <1>0, <1>1, <1>a DEF FetchUsage, OnBilling, PageStays
<1>2. CASE FetchUsageFails \/ FetchInvoices
  <2>1. PageStays /\ view.page = "billing" /\ UNCHANGED <<calls, server, told>>
    BY <1>0, <1>2 DEF FetchUsageFails, FetchInvoices, OnBilling, PageStays
  <2>2. faults' \in 0 .. MaxFaults /\ faults' <= faults
    BY <1>0, <1>2 DEF FetchUsageFails, FetchInvoices
  <2> QED
    BY <1>a, <2>1, <2>2
<1>3. CASE AtCheckout
  <2>1. PICK payment : server' = [server EXCEPT !.payment = payment]
    BY <1>0, <1>3 DEF AtCheckout
  <2>2. ServerShaped' /\ Others
    BY <1>0, <2>1 DEF ServerShaped
  <2>3. UNCHANGED <<view, calls, told, faults>>
    BY <1>3 DEF AtCheckout
  <2> QED
    BY <1>c, <2>2, <2>3
<1>4. CASE Webhook
  <2>1. ServerShaped' /\ Others
    BY <1>0, <1>4 DEF Webhook, ServerShaped
  <2>2. UNCHANGED <<view, calls, told, faults>>
    BY <1>4 DEF Webhook
  <2> QED
    BY <1>c, <2>1, <2>2
<1>5. CASE HandleReturn
  <2>1. CASE view.back = "id"
    BY <1>0, <1>5, <2>1, <1>b DEF HandleReturn, OnBilling, PageStays
  <2>2. CASE view.back # "id"
    <3>1. /\ UNCHANGED <<calls, server, told, faults>> /\ view.page = "billing"
          /\ \E toast : view' = [view EXCEPT !.back = "none", !.toast = toast]
      BY <1>5, <2>2 DEF HandleReturn, OnBilling
    <3>2. PageStays
      BY <1>0, <3>1 DEF PageStays
    <3> QED
      BY <1>0, <1>a, <3>1, <3>2
  <2> QED
    BY <2>1, <2>2
<1>6. ASSUME NEW t \in 1 .. MaxTier, handleUpgrade(t)
      PROVE  Goal
  BY <1>0, <1>6, <1>b DEF handleUpgrade, OnBilling, PageStays
<1>7. ASSUME NEW back \in Returns, ComeBack(back)
      PROVE  Goal
  <2>1. PICK v : v = [Billing EXCEPT !.back = back]
    OBVIOUS
  <2>2. Open(v) /\ UNCHANGED <<server, told, faults>>
    BY <1>7, <2>1 DEF ComeBack
  <2>3. "page" \in DOMAIN v /\ v.page \in BillingPages
    BY <2>1 DEF Billing, BillingPages
  <2>4. Base' /\ Apart(BillingPages, BillingOps)
    BY <2>2, <2>3, OpenStep
  <2> QED
    BY <1>0, <2>2, <2>4
<1>8. ASSUME NEW i \in Slots, ServePay(i)
      PROVE  Goal
  <2>1. PICK payment : server' = [server EXCEPT !.payment = payment]
    BY <1>8 DEF ServePay
  <2>2. /\ calls[i].op \in BillingOps /\ calls[i].stage = "sent" /\ Serve(i, None)
        /\ UNCHANGED <<view, told>>
    BY <1>8 DEF ServePay, Sent, BillingOps
  <2>3. ServerShaped' /\ Others /\ ToldShaped'
    BY <1>0, <2>1, <2>2 DEF ServerShaped, ToldShaped
  <2> QED
    BY <2>2, <2>3, ServeStep
<1>9. ASSUME NEW i \in Slots, ServeConfirm(i)
      PROVE  Goal
  <2>1. calls[i].op \in BillingOps /\ calls[i].stage = "sent" /\ UNCHANGED <<view, told>>
    BY <1>9 DEF ServeConfirm, Sent, BillingOps
  <2>2. CASE /\ server' = IF server.payment.status = "paid"
                          THEN [server EXCEPT !.tier = server.payment.tier] ELSE server
             /\ Serve(i, server.payment.status)
    <3>1. ServerShaped' /\ Others /\ ToldShaped'
      BY <1>0, <2>1, <2>2 DEF ServerShaped, ToldShaped
    <3> QED
      BY <2>1, <2>2, <3>1, ServeStep
  <2>3. CASE /\ faults > 0
             /\ faults' = faults - 1
             /\ calls' = [calls EXCEPT ![i].stage = "ok", ![i].got = "error"]
             /\ UNCHANGED server
    <3>1. CallsHere /\ CallOf(calls[i], view.page) /\ Shaped(calls[i])
      BY DEF Base, CallsHere, CallOf
    <3>2. PICK c : c = [op |-> calls[i].op, on |-> calls[i].on, stage |-> "ok",
                        try |-> calls[i].try, live |-> calls[i].live,
                        watched |-> calls[i].watched, got |-> "error"]
      OBVIOUS
    <3>3. CallOf(c, view.page) /\ c.op \in BillingOps
      BY <2>1, <3>1, <3>2 DEF CallOf, Shaped
    <3>4. calls' = [j \in Slots |-> calls'[j]] /\ \A j \in Slots \ {i} : calls'[j] = calls[j]
      BY <2>3, <3>1 DEF CallsHere
    <3>5. calls'[i] = c
      BY <2>3, <3>1, <3>2 DEF CallsHere, Shaped
    <3>6. CallsHere'
      BY <2>1, <3>1, <3>3, <3>4, <3>5 DEF CallsHere
    <3>7. CallsApart(BillingPages, BillingOps)
      BY <2>1, <3>3, <3>4, <3>5, OneApart DEF Same
    <3>8. faults' \in 0 .. MaxFaults /\ faults' <= faults
      BY <1>0, <2>3
    <3>9. server' = server
      BY <2>3
    <3>10. Base'
      BY <1>0, <2>1, <3>6, <3>8, <3>9 DEF Base, ServerShaped, ToldShaped
    <3> QED
      BY <2>1, <3>7, <3>8, <3>9, <3>10 DEF Apart
  <2> QED
    BY <1>9, <2>2, <2>3 DEF ServeConfirm
<1>10. ASSUME NEW i \in Slots, PayAnswered(i)
       PROVE  Goal
  <2>1. calls[i].op = "pay" /\ UNCHANGED <<server, told, faults>>
    BY <1>10 DEF PayAnswered, Answered
  <2>2. calls[i].live => view.page = "billing"
    BY <2>1 DEF Base, CallsHere, CallOf, PageOf, ListOps, AddonOps
  <2>3. CASE calls[i].stage = "ok"
    <3>1. /\ view' = Checkout
          /\ calls' = [j \in Slots |-> IF j = i THEN NoCall
                                       ELSE [calls[j] EXCEPT !.live = FALSE]]
      BY <1>10, <2>3 DEF PayAnswered
    <3>2. "page" \in DOMAIN view' /\ view'.page = "checkout"
      BY <3>1 DEF Checkout
    <3>3. ASSUME NEW j \in Slots
          PROVE  /\ CallOf(calls'[j], view'.page) /\ ~calls'[j].live
                 /\ \/ calls[j].op \in BillingOps /\ calls'[j].op \in BillingOps
                    \/ Same(calls'[j], calls[j])
      <4>1. CASE j = i
        <5>1. calls'[j] = NoCall
          BY <3>1, <4>1
        <5>2. CallOf(calls'[j], view'.page)
          BY <5>1, NoCallHere
        <5>3. calls'[j].op = "none" /\ ~calls'[j].live
          BY <5>1 DEF NoCall
        <5> QED
          BY <2>1, <4>1, <5>2, <5>3 DEF BillingOps
      <4>2. CASE j # i
        <5>1. Shaped(calls[j]) /\ calls[j].stage \in {"sent", "ok", "failed"}
          BY DEF Base, CallsHere, CallOf
        <5>2. calls'[j] = [op |-> calls[j].op, on |-> calls[j].on, stage |-> calls[j].stage,
                           try |-> calls[j].try, live |-> FALSE,
                           watched |-> calls[j].watched, got |-> calls[j].got]
          BY <3>1, <4>2, <5>1 DEF Shaped
        <5> QED
          BY <5>1, <5>2 DEF CallOf, Shaped, Same
      <4> QED
        BY <4>1, <4>2
    <3>4. CallsHere'
      BY <3>1, <3>3 DEF CallsHere
    <3>5. CallsApart(BillingPages, BillingOps)
      BY <3>2, <3>3 DEF CallsApart, BillingPages
    <3>6. Base'
      BY <1>0, <2>1, <3>2, <3>4 DEF Base, ServerShaped, ToldShaped
    <3> QED
      BY <1>0, <2>1, <3>2, <3>5, <3>6 DEF Apart, BillingPages
  <2>4. CASE calls[i].stage # "ok"
    <3>1. Settle(i) /\ PageStays /\ (view' = view \/ view.page = "billing")
      BY <1>0, <1>10, <2>2, <2>4 DEF PayAnswered, PageStays
    <3> QED
      BY <1>0, <2>1, <3>1, SettleStep DEF BillingOps, BillingPages
  <2> QED
    BY <2>3, <2>4
<1>11. ASSUME NEW i \in Slots, ConfirmAnswered(i)
       PROVE  Goal
  <2>1. calls[i].op = "confirm" /\ Settle(i) /\ UNCHANGED <<server, told, faults>>
    BY <1>11 DEF ConfirmAnswered, Answered
  <2>2. calls[i].live => view.page = "billing"
    BY <2>1 DEF Base, CallsHere, CallOf, PageOf, ListOps, AddonOps
  <2>3. PageStays /\ (view' = view \/ view.page = "billing")
    BY <1>0, <1>11, <2>2 DEF ConfirmAnswered, PageStays
  <2> QED
    BY <1>0, <2>1, <2>3, SettleStep DEF BillingOps, BillingPages
<1> QED
  BY <1>1, <1>2, <1>3, <1>4, <1>5, <1>6, <1>7, <1>8, <1>9, <1>10, <1>11
  DEF BillingDoes, BillingSteps, BillingAnswers, BillingApi

BackupOps == {"none", "restore"}
BackupsDoes == BackupSteps \/ \E i \in Slots : RestoreAnswered(i) \/ ServeRestore(i)

LEMMA BackupsApart ==
    ASSUME Base, BackupsDoes
    PROVE  /\ Base' /\ Apart({"backups"}, BackupOps)
           /\ server' = server /\ told' = told /\ faults' <= faults
<1> DEFINE Goal == /\ Base' /\ Apart({"backups"}, BackupOps)
                   /\ server' = server /\ told' = told /\ faults' <= faults
<1>0. /\ faults \in 0 .. MaxFaults /\ "page" \in DOMAIN view /\ MaxFaults \in Nat
      /\ ServerShaped /\ ToldShaped
  BY TabAssumption DEF Base
<1>a. ASSUME UNCHANGED <<calls, server, told>>, PageStays, view.page = "backups",
             faults' \in 0 .. MaxFaults, faults' <= faults
      PROVE  Goal
  BY <1>a, <1>0, QuietStep
<1>b. ASSUME NEW v, "page" \in DOMAIN v, NEW ls, NEW d
      PROVE  "page" \in DOMAIN Asking(v, ls, d) /\ Asking(v, ls, d).page = v.page
  BY <1>b DEF Asking
<1>1. CASE Refresh
  BY <1>0, <1>1, <1>a, <1>b DEF Refresh, BackupsClick, OnBackups, PageStays
<1>2. CASE RetryBackups
  BY <1>0, <1>2, <1>a, <1>b DEF RetryBackups, BackupsClick, OnBackups, PageStays
<1>3. CASE PickTime
  BY <1>0, <1>3, <1>a DEF PickTime, RestoreForm, OnBackups, PageStays
<1>4. CASE AskRestore
  BY <1>0, <1>4, <1>a DEF AskRestore, RestoreForm, OnBackups, PageStays
<1>5. CASE CloseConfirmRestore
  BY <1>0, <1>5, <1>a DEF CloseConfirmRestore, OnBackups, PageStays
<1>6. CASE handleRestore
  <2>1. PageOf("restore") = "backups"
    BY DEF PageOf, ListOps, AddonOps
  <2>2. /\ Send("restore", view.db) /\ PageStays /\ view.page = "backups"
        /\ UNCHANGED <<server, told, faults>>
    BY <1>0, <1>6 DEF handleRestore, OnBackups, PageStays
  <2>3. Base' /\ Apart({"backups"}, {"none", "restore"})
    BY <2>1, <2>2, SendStep DEF PageStays
  <2> QED
    BY <1>0, <2>2, <2>3 DEF BackupOps
<1>7. ASSUME NEW d \in Stores, SelectDb(d)
      PROVE  Goal
  <2>1. PICK v : v = [view EXCEPT !.db = d]
    OBVIOUS
  <2>2. "page" \in DOMAIN v /\ v.page = view.page
    BY <1>0, <2>1
  <2> QED
    BY <1>0, <1>7, <1>a, <1>b, <2>1, <2>2 DEF SelectDb, BackupsClick, OnBackups, PageStays
<1>8. ASSUME NEW l \in Lists, NEW d \in Stores, ListComes(l, d) \/ ListFails(l, d)
      PROVE  Goal
  <2>1. PageStays /\ view.page = "backups" /\ UNCHANGED <<calls, server, told>>
    BY <1>0, <1>8 DEF ListComes, ListFails, OnBackups, PageStays
  <2>2. faults' \in 0 .. MaxFaults /\ faults' <= faults
    BY <1>0, <1>8 DEF ListComes, ListFails
  <2> QED
    BY <1>a, <2>1, <2>2
<1>9. ASSUME NEW i \in Slots, ServeRestore(i)
      PROVE  Goal
  <2>1. /\ calls[i].op \in BackupOps /\ calls[i].stage = "sent" /\ Serve(i, None)
        /\ UNCHANGED <<view, server, told>>
    BY <1>9 DEF ServeRestore, Sent, BackupOps
  <2>2. ServerShaped' /\ ToldShaped'
    BY <1>0, <2>1 DEF ServerShaped, ToldShaped
  <2> QED
    BY <2>1, <2>2, ServeStep
<1>10. ASSUME NEW i \in Slots, RestoreAnswered(i)
       PROVE  Goal
  <2>1. calls[i].op = "restore" /\ Settle(i) /\ UNCHANGED <<server, told, faults>>
    BY <1>10 DEF RestoreAnswered, Answered
  <2>2. calls[i].live => view.page = "backups"
    BY <2>1 DEF Base, CallsHere, CallOf, PageOf, ListOps, AddonOps
  <2>3. PICK v : v = [view EXCEPT !.restoring = FALSE]
    OBVIOUS
  <2>4. "page" \in DOMAIN v /\ v.page = view.page
    BY <1>0, <2>3
  <2>5. \/ view' = view
        \/ calls[i].live /\ (view' = v \/ view' = Asking(v, {"restores"}, calls[i].on))
    BY <1>10, <2>3 DEF RestoreAnswered
  <2>6. PageStays /\ (view' = view \/ view.page = "backups")
    BY <1>0, <1>b, <2>2, <2>4, <2>5 DEF PageStays
  <2> QED
    BY <1>0, <2>1, <2>6, SettleStep DEF BackupOps
<1> QED
  BY <1>1, <1>2, <1>3, <1>4, <1>5, <1>6, <1>7, <1>8, <1>9, <1>10
  DEF BackupsDoes, BackupSteps

LEMMA MinOfTwo ==
    ASSUME NEW a \in Nat, NEW b \in Nat
    PROVE  Min({a, b}) \in {a, b} /\ Min({a, b}) <= a
  BY DEF Min

BrowseDoes == BrowseSteps

LEMMA BrowseApart ==
    ASSUME Base, BrowseDoes
    PROVE  /\ Base' /\ Apart({"browse"}, {"none"})
           /\ server' = server /\ told' = told /\ faults' <= faults
<1> DEFINE Goal == /\ Base' /\ Apart({"browse"}, {"none"})
                   /\ server' = server /\ told' = told /\ faults' <= faults
<1>0. faults \in 0 .. MaxFaults /\ "page" \in DOMAIN view /\ MaxFaults \in Nat
  BY TabAssumption DEF Base
<1>a. ASSUME UNCHANGED <<calls, server, told>>, PageStays, view.page = "browse",
             faults' \in 0 .. MaxFaults, faults' <= faults
      PROVE  Goal
  BY <1>a, <1>0, QuietStep
<1>1. CASE refetchDbs
  BY <1>0, <1>1, <1>a DEF refetchDbs, OnBrowse, PageStays
<1>2. ASSUME NEW field \in {"schemas", "columns", "rows"}, FetchPart(field)
      PROVE  Goal
  <2>1. PageStays /\ view.page = "browse" /\ UNCHANGED <<calls, server, told>>
    BY <1>0, <1>2 DEF FetchPart, OnBrowse, PageStays
  <2>2. faults' \in 0 .. MaxFaults /\ faults' <= faults
    BY <1>0, <1>2 DEF FetchPart
  <2> QED
    BY <1>a, <2>1, <2>2
<1>3. ASSUME NEW size \in PageSizes, setDbPageSize(size)
      PROVE  Goal
  BY <1>0, <1>3, <1>a DEF setDbPageSize, OnBrowse, PageStays
<1>4. ASSUME NEW s \in 0 .. Schemas - 1, toggleDb(s)
      PROVE  Goal
  <2>1. PageStays /\ view.page = "browse" /\ UNCHANGED <<calls, server, told, faults>>
    BY <1>0, <1>4 DEF toggleDb, OnBrowse, PageStays
  <2> QED
    BY <1>0, <1>a, <2>1
<1>5. ASSUME NEW s \in 0 .. Schemas - 1, NEW t \in 0 .. Tables - 1, handleSelectTable(s, t)
      PROVE  Goal
  <2>1. PageStays /\ view.page = "browse" /\ UNCHANGED <<calls, server, told, faults>>
    BY <1>0, <1>5 DEF handleSelectTable, OnBrowse, PageStays
  <2> QED
    BY <1>0, <1>a, <2>1
<1>6. ASSUME NEW s \in 0 .. Schemas - 1, NEW p \in 0 .. Tables, setTablePage(s, p)
      PROVE  Goal
  <2>1. PageStays /\ view.page = "browse" /\ UNCHANGED <<calls, server, told, faults>>
    BY <1>0, <1>6 DEF setTablePage, OnBrowse, PageStays
  <2> QED
    BY <1>0, <1>a, <2>1
<1>7. ASSUME NEW p \in 0 .. Schemas, handleDbPageChange(p)
      PROVE  Goal
  <2>1. PageStays /\ view.page = "browse" /\ UNCHANGED <<calls, server, told, faults>>
    BY <1>0, <1>7 DEF handleDbPageChange, Browse, OnBrowse, PageStays
  <2> QED
    BY <1>0, <1>a, <2>1
<1> QED
  BY <1>1, <1>2, <1>3, <1>4, <1>5, <1>6, <1>7 DEF BrowseDoes, BrowseSteps

SessionOps == {"none", "signIn", "signOut"} \cup Routes
SessionDoes == SessionSteps \/ \E i \in Slots : SessionAnswers(i) \/ SessionApi(i)

LEMMA SessionApart ==
    ASSUME Base, SessionDoes
    PROVE  /\ Base' /\ Apart({"session"}, SessionOps)
           /\ server'.entries = server.entries /\ server'.ips = server.ips
           /\ server'.autoscale = server.autoscale
           /\ faults' <= faults
<1> DEFINE Others == /\ server'.entries = server.entries /\ server'.ips = server.ips
                     /\ server'.autoscale = server.autoscale
           Goal == /\ Base' /\ Apart({"session"}, SessionOps) /\ Others
                   /\ faults' <= faults
<1>0. /\ faults \in 0 .. MaxFaults /\ "page" \in DOMAIN view /\ MaxFaults \in Nat
      /\ ServerShaped /\ ToldShaped
  BY TabAssumption DEF Base
<1>00. "none" \in SessionOps /\ \A op \in SessionOps : PageOf(op) = "session"
  BY DEF SessionOps, Routes, PageOf, ListOps, AddonOps
<1>a. ASSUME UNCHANGED <<calls, server, told>>, PageStays, view.page = "session",
             faults' \in 0 .. MaxFaults, faults' <= faults
      PROVE  Goal
  BY <1>a, <1>0, QuietStep
<1>b. ASSUME NEW op \in SessionOps \ {"none"}, NEW on, Send(op, on), PageStays,
             view.page = "session", UNCHANGED <<server, told, faults>>
      PROVE  Goal
  <2>1. Base' /\ Apart({"session"}, {"none", op})
    BY <1>b, <1>00, SendStep DEF PageStays
  <2> QED
    BY <1>0, <1>b, <2>1, ApartGrows DEF SessionOps
<1>c. ASSUME NEW v, Open(v), "page" \in DOMAIN v, v.page = "session",
             UNCHANGED <<server, told, faults>>
      PROVE  Goal
  <2>1. Base' /\ Apart({"session"}, SessionOps)
    BY <1>c, OpenStep
  <2> QED
    BY <1>0, <1>c, <2>1
<1>d. ASSUME NEW v, "page" \in DOMAIN v, NEW at
      PROVE  "page" \in DOMAIN GoTo(v, at) /\ GoTo(v, at).page = v.page
  BY <1>d DEF GoTo
<1>1. CASE OpenSession
  <2>1. PICK at : Open(SignIn(proxy(at))) /\ UNCHANGED <<server, told, faults>>
    BY <1>1 DEF OpenSession
  <2>2. "page" \in DOMAIN SignIn(proxy(at)) /\ SignIn(proxy(at)).page = "session"
    BY DEF SignIn
  <2> QED
    BY <1>c, <2>1, <2>2
<1>2. CASE useSession
  <2>1. PageStays /\ view.page = "session" /\ UNCHANGED <<calls, server, told>>
    BY <1>0, <1>2 DEF useSession, OnSession, PageStays
  <2>2. faults' \in 0 .. MaxFaults /\ faults' <= faults
    BY <1>0, <1>2 DEF useSession
  <2> QED
    BY <1>a, <2>1, <2>2
<1>3. CASE AuthGuard
  BY <1>0, <1>3, <1>a, <1>d DEF AuthGuard, Guarded, OnSession, PageStays
<1>4. CASE OtherDoor
  <2>1. PICK at : Open(GoTo(view, at)) /\ UNCHANGED <<server, told, faults>>
    BY <1>4 DEF OtherDoor
  <2>2. view.page = "session"
    BY <1>4 DEF OtherDoor, AtDoor, OnSession
  <2> QED
    BY <1>0, <1>c, <1>d, <2>1, <2>2
<1>5. CASE handleSignIn
  <2>1. /\ view.page = "session" /\ UNCHANGED <<server, told, faults>>
        /\ UNCHANGED calls \/ \E on : Send("signIn", on)
    BY <1>5 DEF handleSignIn, AtDoor, OnSession
  <2>2. PageStays
    BY <1>0, <1>5 DEF handleSignIn, PageStays
  <2>3. "signIn" \in SessionOps \ {"none"}
    BY DEF SessionOps
  <2> QED
    BY <1>0, <1>a, <1>b, <2>1, <2>2, <2>3
<1>6. CASE logout
  <2>1. /\ view.page = "session" /\ Send("signOut", None) /\ PageStays
        /\ UNCHANGED <<server, told, faults>>
    BY <1>0, <1>6 DEF logout, Shown, Guarded, OnSession, PageStays
  <2>2. "signOut" \in SessionOps \ {"none"}
    BY DEF SessionOps
  <2> QED
    BY <1>b, <2>1, <2>2
<1>7. CASE OtherTab
  <2>1. PICK u : server' = [server EXCEPT !.cookie = u]
    BY <1>7 DEF OtherTab
  <2>2. ServerShaped' /\ Others
    BY <1>0, <2>1 DEF ServerShaped
  <2>3. PageStays /\ view.page = "session" /\ UNCHANGED <<calls, told>>
    BY <1>0, <1>7 DEF OtherTab, OnSession, PageStays
  <2>4. faults' \in 0 .. MaxFaults /\ faults' <= faults
    BY <1>0, <1>7 DEF OtherTab
  <2>5. CallsHere'
    BY <2>3 DEF Base, CallsHere, PageStays
  <2>6. CallsApart({"session"}, SessionOps)
    <3>1. calls' = calls
      BY <2>3
    <3> QED
      BY <3>1, Zenon DEF CallsApart, Same
  <2>7. Base'
    BY <1>0, <2>2, <2>3, <2>4, <2>5 DEF Base, PageStays, ToldShaped
  <2> QED
    BY <2>2, <2>3, <2>4, <2>6, <2>7 DEF Apart, PageStays
<1>8. ASSUME NEW what \in Typed, Type(what)
      PROVE  Goal
  BY <1>0, <1>8, <1>a DEF Type, AtDoor, OnSession, PageStays
<1>9. ASSUME NEW route \in Routes, AskApi(route)
      PROVE  Goal
  <2>1. /\ view.page = "session" /\ Send(route, None) /\ PageStays
        /\ UNCHANGED <<server, told, faults>>
    BY <1>0, <1>9 DEF AskApi, Shown, Guarded, OnSession, PageStays
  <2>2. route \in SessionOps \ {"none"}
    BY DEF SessionOps, Routes
  <2> QED
    BY <1>b, <2>1, <2>2
<1>10. ASSUME NEW i \in Slots, ServeSignIn(i) \/ ServeSignOut(i)
       PROVE  Goal
  <2>1. calls[i].op \in SessionOps /\ calls[i].stage = "sent" /\ view' = view
    BY <1>10 DEF ServeSignIn, ServeSignOut, Sent, SessionOps
  <2>2. CASE Refuse(i) /\ told' = told
    <3>1. Base' /\ Apart({"session"}, SessionOps)
      BY <1>0, <2>1, <2>2, AgainStep DEF Refuse
    <3> QED
      BY <1>0, <2>2, <3>1 DEF Refuse
  <2>3. ASSUME NEW u, NEW lost, server' = [server EXCEPT !.cookie = u], Serve(i, None),
               told' = [told EXCEPT !.lost = lost]
        PROVE  Goal
    <3>1. ServerShaped' /\ Others
      BY <1>0, <2>3 DEF ServerShaped
    <3>2. ToldShaped'
      BY <1>0, <2>3 DEF ToldShaped
    <3> QED
      BY <2>1, <2>3, <3>1, <3>2, ServeStep
  <2>4. \/ Refuse(i) /\ told' = told
        \/ \E u, lost : /\ server' = [server EXCEPT !.cookie = u] /\ Serve(i, None)
                        /\ told' = [told EXCEPT !.lost = lost]
    BY <1>10 DEF ServeSignIn, ServeSignOut
  <2> QED
    BY <2>2, <2>3, <2>4
<1>11. ASSUME NEW i \in Slots, Forward(i)
       PROVE  Goal
  <2>1. /\ calls[i].op \in SessionOps /\ calls[i].stage = "sent"
        /\ UNCHANGED <<view, server, told>>
    BY <1>11 DEF Forward, SessionOps
  <2>2. PICK failing, stage, got :
          /\ failing \in 0 .. Min({faults, lookups(calls[i].op)})
          /\ stage \in {"ok", "failed"}
          /\ faults' = faults - failing
          /\ calls' = [calls EXCEPT ![i].stage = stage, ![i].got = got]
    BY <1>11 DEF Forward
  <2>3. CallsHere /\ CallOf(calls[i], view.page) /\ Shaped(calls[i])
    BY DEF Base, CallsHere, CallOf
  <2>4. PICK c : c = [op |-> calls[i].op, on |-> calls[i].on, stage |-> stage,
                      try |-> calls[i].try, live |-> calls[i].live,
                      watched |-> calls[i].watched, got |-> got]
    OBVIOUS
  <2>5. CallOf(c, view.page) /\ c.op \in SessionOps
    BY <2>1, <2>2, <2>3, <2>4 DEF CallOf, Shaped
  <2>6. calls' = [j \in Slots |-> calls'[j]] /\ \A j \in Slots \ {i} : calls'[j] = calls[j]
    BY <2>2, <2>3 DEF CallsHere
  <2>7. calls'[i] = c
    BY <2>2, <2>3, <2>4 DEF CallsHere, Shaped
  <2>8. CallsHere'
    BY <2>1, <2>3, <2>5, <2>6, <2>7 DEF CallsHere
  <2>9. CallsApart({"session"}, SessionOps)
    BY <2>1, <2>5, <2>6, <2>7, OneApart DEF Same
  <2>10. faults' \in 0 .. MaxFaults /\ faults' <= faults
    <3>1. lookups(calls[i].op) \in {1, 2}
      BY DEF lookups
    <3>2. PICK m : m = Min({faults, lookups(calls[i].op)})
      OBVIOUS
    <3>3. m \in {faults, lookups(calls[i].op)} /\ m <= faults
      BY <1>0, <3>1, <3>2, MinOfTwo
    <3> QED
      BY <1>0, <2>2, <3>1, <3>2, <3>3
  <2>11. Base'
    BY <1>0, <2>1, <2>8, <2>10 DEF Base, ServerShaped, ToldShaped
  <2> QED
    BY <2>1, <2>9, <2>10, <2>11 DEF Apart
<1>12. ASSUME NEW i \in Slots, SessionAnswers(i)
       PROVE  Goal
  <2>1. calls[i].op \in SessionOps /\ Settle(i) /\ UNCHANGED <<server, told, faults>>
    BY <1>12 DEF SessionAnswers, SignInAnswered, SignedOut, ApiAnswered, Answered, SessionOps
  <2>2. calls[i].live => view.page = "session"
    BY <1>00, <2>1 DEF Base, CallsHere, CallOf
  <2>3. PICK v : v = GoTo(view, "dashboard")
    OBVIOUS
  <2>4. "page" \in DOMAIN v /\ v.page = view.page
    BY <1>0, <1>d, <2>3
  <2>5. \/ view' = view
        \/ view.page = "session" /\ \/ view' = [v EXCEPT !.asking = TRUE]
                                    \/ view' = [view EXCEPT !.asking = TRUE]
        \/ calls[i].live /\ view' = [view EXCEPT !.loading = FALSE, !.error = TRUE]
    BY <1>12, <2>3
    DEF SessionAnswers, SignInAnswered, SignedOut, ApiAnswered, OnSession
  <2>6. PageStays /\ (view' = view \/ view.page = "session")
    BY <1>0, <2>2, <2>4, <2>5 DEF PageStays
  <2> QED
    BY <1>0, <1>00, <2>1, <2>6, SettleStep
<1> QED
  BY <1>1, <1>2, <1>3, <1>4, <1>5, <1>6, <1>7, <1>8, <1>9, <1>10, <1>11, <1>12
  DEF SessionDoes, SessionSteps, SessionAnswers, SessionApi
-----------------------------------------------------------------------------
(* Every step is one of a page, leaves it, opens it, or is a failure.      *)

LEMMA LeaveApart ==
    ASSUME Base, Leave
    PROVE  Base' /\ Apart({"away"}, {"none"}) /\ UNCHANGED <<server, told, faults>>
<1>1. PICK v : v = [page |-> "away", back |-> view.page]
  OBVIOUS
<1>2. Open(v) /\ UNCHANGED <<server, told, faults>>
  BY <1>1 DEF Leave
<1>3. "page" \in DOMAIN v /\ v.page \in {"away"}
  BY <1>1
<1> QED
  BY <1>2, <1>3, OpenStep

LEMMA ReturnApart ==
    ASSUME Base, Return
    PROVE  /\ Base' /\ view' \in Areas /\ UNCHANGED <<server, told, faults>>
           /\ \A i \in Slots : Same(calls'[i], calls[i]) /\ ~calls'[i].live
           /\ Apart({view'.page}, {"none"})
<1>1. PICK a \in Areas : Open(a) /\ UNCHANGED <<server, told, faults>>
  BY DEF Return
<1>2. "page" \in DOMAIN a
  BY DEF Areas, Whitelist, Addons, Keys, Profile, Billing, Backups, Browse
<1>3. view' = a
  BY <1>1 DEF Open
<1>4. a.page \in {view'.page}
  BY <1>3
<1> QED
  BY <1>1, <1>2, <1>3, <1>4, OpenStep

LEMMA FailApart ==
    ASSUME Base, NEW i \in Slots, Fail(i)
    PROVE  /\ Base' /\ UNCHANGED <<view, server, told>> /\ faults' <= faults
           /\ \A j \in Slots \ {i} : calls'[j] = calls[j]
           /\ calls'[i].op = calls[i].op /\ calls'[i].on = calls[i].on
           /\ calls'[i].live = calls[i].live
           /\ calls[i].stage = "sent" /\ calls'[i].stage # "ok"
<1>1. /\ calls[i].stage = "sent" /\ calls' = [calls EXCEPT ![i] = Again(@)]
      /\ UNCHANGED <<view, server, told>>
  BY DEF Fail
<1>2. faults' \in 0 .. MaxFaults /\ faults' <= faults
  BY TabAssumption DEF Base, Fail
<1>3. Base'
  BY <1>1, <1>2, AgainStep
<1> QED
  BY <1>1, <1>2, <1>3, AgainHere DEF Base

LEMMA NextOfPages ==
    ASSUME Next
    PROVE  \/ WhitelistDoes \/ AllowedDoes \/ AddonsDoes \/ KeysDoes \/ ProfileDoes
           \/ BillingDoes \/ BackupsDoes \/ BrowseDoes \/ SessionDoes
           \/ Leave \/ Return \/ \E i \in Slots : Fail(i)
  BY DEF Next, Answers, Api, WhitelistDoes, AllowedDoes, AddonsDoes, KeysDoes, ProfileDoes,
         BillingDoes, BackupsDoes, BrowseDoes, SessionDoes

LEMMA BaseInit == Init => Base
<1> SUFFICES ASSUME Init
             PROVE  Base
  OBVIOUS
<1>1. "page" \in DOMAIN view /\ ServerShaped /\ ToldShaped
  BY DEF Init, ServerShaped, ToldShaped
<1>2. CallsHere
  <2>1. calls = [i \in Slots |-> NoCall]
    BY DEF Init
  <2> QED
    BY <2>1, NoCallHere DEF CallsHere
<1>3. faults \in 0 .. MaxFaults
  BY TabAssumption DEF Init
<1> QED
  BY <1>1, <1>2, <1>3 DEF Base

LEMMA BaseNext == Base /\ Next => Base' /\ faults' <= faults
<1> SUFFICES ASSUME Base, Next
             PROVE  Base' /\ faults' <= faults
  OBVIOUS
<1>1. CASE Leave \/ Return
  <2>1. Base' /\ faults' = faults
    BY <1>1, LeaveApart, ReturnApart
  <2>2. faults \in Nat
    BY TabAssumption DEF Base
  <2> QED
    BY <2>1, <2>2
<1> QED
  BY <1>1, NextOfPages, WhitelistApart, AllowedApart, AddonsApart, KeysApart, ProfileApart,
     BillingApart, BackupsApart, BrowseApart, SessionApart, FailApart

LEMMA BaseStutter == Base /\ UNCHANGED vars => Base'
<1> SUFFICES ASSUME Base, UNCHANGED vars
             PROVE  Base'
  OBVIOUS
<1>1. UNCHANGED <<view, calls, server, told, faults>>
  BY DEF vars
<1>2. CallsHere'
  BY <1>1 DEF Base, CallsHere
<1> QED
  BY <1>1, <1>2 DEF Base, ServerShaped, ToldShaped

LEMMA BaseAlways == Spec => []Base
<1>1. Init => Base
  BY BaseInit
<1>2. Base /\ [Next]_vars => Base'
  BY BaseNext, BaseStutter
<1> QED
  BY <1>1, <1>2, PTL DEF Spec

\* A request that is of a page.
Of(op, page) == op # "none" /\ PageOf(op) = page

\* What a step of another page does to this one.
Foreign(page) ==
    /\ view' = view \/ view'.page # page
    /\ \A i \in Slots :
         \/ ~Of(calls[i].op, page) /\ ~Of(calls'[i].op, page)
         \/ /\ Same(calls'[i], calls[i])
            /\ calls'[i].live = calls[i].live \/ (view'.page # page /\ ~calls'[i].live)

LEMMA ApartIsForeign ==
    ASSUME NEW pages, NEW kinds, NEW page, Apart(pages, kinds),
           page \notin pages, \A op \in kinds : ~Of(op, page)
    PROVE  Foreign(page)
<1>1. ASSUME NEW i \in Slots
      PROVE  \/ ~Of(calls[i].op, page) /\ ~Of(calls'[i].op, page)
             \/ /\ Same(calls'[i], calls[i])
                /\ calls'[i].live = calls[i].live \/ (view'.page # page /\ ~calls'[i].live)
  <2>1. CASE calls[i].op \in kinds /\ calls'[i].op \in kinds
    BY <2>1
  <2>2. CASE ~(calls[i].op \in kinds /\ calls'[i].op \in kinds)
    <3>1. /\ Same(calls'[i], calls[i])
          /\ calls'[i].live = calls[i].live \/ (view'.page \in pages /\ ~calls'[i].live)
      BY <2>2, Zenon DEF Apart, CallsApart
    <3>2. view'.page \in pages => view'.page # page
      OBVIOUS
    <3> QED
      BY <3>1, <3>2, Zenon
  <2> QED
    BY <2>1, <2>2
<1> QED
  BY <1>1 DEF Foreign, Apart

\* The requests of one page are of no other.
LEMMA KindsOf ==
    ASSUME NEW page
    PROVE  /\ page # "whitelist" => \A op \in WhitelistOps : ~Of(op, page)
           /\ page # "allowedIPs" => \A op \in AllowedOps : ~Of(op, page)
           /\ page # "storage" => \A op \in AddonsOps : ~Of(op, page)
           /\ page # "keys" => \A op \in KeysOps : ~Of(op, page)
           /\ page # "profile" => \A op \in ProfileOps : ~Of(op, page)
           /\ page # "billing" => \A op \in BillingOps : ~Of(op, page)
           /\ page # "backups" => \A op \in BackupOps : ~Of(op, page)
           /\ page # "session" => \A op \in SessionOps : ~Of(op, page)
  BY DEF Of, PageOf, ListOps, AddonOps, Routes, WhitelistOps, AllowedOps, AddonsOps, KeysOps,
         ProfileOps, BillingOps, BackupOps, SessionOps

\* A step is one of this page, opens it, is a failure, or is foreign.
LEMMA NextOrForeign ==
    ASSUME Base, Next, NEW page, page \notin {"away", "checkout"}
    PROVE  \/ page = "whitelist" /\ WhitelistDoes
           \/ page = "allowedIPs" /\ AllowedDoes
           \/ page = "storage" /\ AddonsDoes
           \/ page = "keys" /\ KeysDoes
           \/ page = "profile" /\ ProfileDoes
           \/ page = "billing" /\ BillingDoes
           \/ page = "backups" /\ BackupsDoes
           \/ page = "browse" /\ BrowseDoes
           \/ page = "session" /\ SessionDoes
           \/ /\ Return /\ view' \in Areas /\ view'.page = page
              /\ \A i \in Slots : Same(calls'[i], calls[i]) /\ ~calls'[i].live
           \/ \E i \in Slots : Fail(i)
           \/ Foreign(page)
<1>1. ASSUME page # "whitelist", WhitelistDoes
      PROVE  Foreign(page)
  <2>1. page \notin {"whitelist"} /\ \A op \in WhitelistOps : ~Of(op, page)
    BY <1>1, KindsOf
  <2> QED
    BY <1>1, <2>1, WhitelistApart, ApartIsForeign
<1>2. ASSUME page # "allowedIPs", AllowedDoes
      PROVE  Foreign(page)
  <2>1. page \notin {"allowedIPs"} /\ \A op \in AllowedOps : ~Of(op, page)
    BY <1>2, KindsOf
  <2> QED
    BY <1>2, <2>1, AllowedApart, ApartIsForeign
<1>3. ASSUME page # "storage", AddonsDoes
      PROVE  Foreign(page)
  <2>1. page \notin {"storage"} /\ \A op \in AddonsOps : ~Of(op, page)
    BY <1>3, KindsOf
  <2> QED
    BY <1>3, <2>1, AddonsApart, ApartIsForeign
<1>4. ASSUME page # "keys", KeysDoes
      PROVE  Foreign(page)
  <2>1. page \notin {"keys"} /\ \A op \in KeysOps : ~Of(op, page)
    BY <1>4, KindsOf
  <2> QED
    BY <1>4, <2>1, KeysApart, ApartIsForeign
<1>5. ASSUME page # "profile", ProfileDoes
      PROVE  Foreign(page)
  <2>1. page \notin {"profile"} /\ \A op \in ProfileOps : ~Of(op, page)
    BY <1>5, KindsOf
  <2> QED
    BY <1>5, <2>1, ProfileApart, ApartIsForeign
<1>6. ASSUME page # "billing", BillingDoes
      PROVE  Foreign(page)
  <2>1. page \notin BillingPages /\ \A op \in BillingOps : ~Of(op, page)
    BY <1>6, KindsOf DEF BillingPages
  <2> QED
    BY <1>6, <2>1, BillingApart, ApartIsForeign
<1>7. ASSUME page # "backups", BackupsDoes
      PROVE  Foreign(page)
  <2>1. page \notin {"backups"} /\ \A op \in BackupOps : ~Of(op, page)
    BY <1>7, KindsOf
  <2> QED
    BY <1>7, <2>1, BackupsApart, ApartIsForeign
<1>8. ASSUME page # "browse", BrowseDoes
      PROVE  Foreign(page)
  <2>1. page \notin {"browse"} /\ \A op \in {"none"} : ~Of(op, page)
    BY <1>8 DEF Of
  <2> QED
    BY <1>8, <2>1, BrowseApart, ApartIsForeign
<1>9. ASSUME page # "session", SessionDoes
      PROVE  Foreign(page)
  <2>1. page \notin {"session"} /\ \A op \in SessionOps : ~Of(op, page)
    BY <1>9, KindsOf
  <2> QED
    BY <1>9, <2>1, SessionApart, ApartIsForeign
<1>10. ASSUME Leave
       PROVE  Foreign(page)
  <2>1. page \notin {"away"} /\ \A op \in {"none"} : ~Of(op, page)
    BY DEF Of
  <2> QED
    BY <1>10, <2>1, LeaveApart, ApartIsForeign
<1>11. ASSUME Return, view'.page # page
       PROVE  Foreign(page)
  <2>1. page \notin {view'.page} /\ \A op \in {"none"} : ~Of(op, page)
    BY <1>11 DEF Of
  <2> QED
    BY <1>11, <2>1, ReturnApart, ApartIsForeign
<1>12. ASSUME Return, view'.page = page
       PROVE  /\ Return /\ view' \in Areas /\ view'.page = page
              /\ \A i \in Slots : Same(calls'[i], calls[i]) /\ ~calls'[i].live
  BY <1>12, ReturnApart
<1> QED
  BY <1>1, <1>2, <1>3, <1>4, <1>5, <1>6, <1>7, <1>8, <1>9, <1>10, <1>11, <1>12, NextOfPages,
     Zenon
-----------------------------------------------------------------------------
(* The whitelist of a database.                                            *)

\* One detection at most is awaited, unless a dialog has been closed on one.
WhitelistInv ==
    view.page = "whitelist" =>
      /\ DOMAIN view = DOMAIN Whitelist
      /\ ~view.reopened =>
           \A i \in Slots : (calls[i].op = "detect" /\ calls[i].live) =>
             /\ view.detecting
             /\ \A j \in Slots : (calls[j].op = "detect" /\ calls[j].live) => j = i

LEMMA WhitelistOfOthers ==
    ASSUME Base, Next, WhitelistInv, ~WhitelistDoes
    PROVE  WhitelistInv'
<1>1. \A op \in {"detect", "addEntry", "removeEntry"} : Of(op, "whitelist")
  BY DEF Of, PageOf, ListOps, AddonOps
<1>2. CASE Foreign("whitelist")
  <2>1. SUFFICES ASSUME view'.page = "whitelist"
                 PROVE  WhitelistInv'
    BY DEF WhitelistInv
  <2>2. view' = view
    BY <1>2, <2>1 DEF Foreign
  <2>3. \A i \in Slots :
          \/ /\ calls[i].op \notin {"detect", "addEntry", "removeEntry"}
             /\ calls'[i].op \notin {"detect", "addEntry", "removeEntry"}
          \/ calls'[i].op = calls[i].op /\ calls'[i].live = calls[i].live
    BY <1>1, <1>2, <2>1 DEF Foreign, Same
  <2> QED
    BY <2>2, <2>3 DEF WhitelistInv
<1>3. CASE \E i \in Slots : Fail(i)
  <2>1. PICK i \in Slots : Fail(i)
    BY <1>3
  <2>2. /\ view' = view
        /\ \A j \in Slots : calls'[j].op = calls[j].op /\ calls'[j].live = calls[j].live
    BY <2>1, FailApart
  <2> QED
    BY <2>2 DEF WhitelistInv
<1>4. CASE /\ view' \in Areas /\ view'.page = "whitelist"
           /\ \A i \in Slots : Same(calls'[i], calls[i]) /\ ~calls'[i].live
  <2>1. view' = Whitelist
    BY <1>4 DEF Areas, Whitelist, Addons, Keys, Profile, Billing, Backups, Browse
  <2>2. DOMAIN view' = DOMAIN Whitelist
    BY <2>1 DEF Whitelist
  <2> QED
    BY <1>4, <2>2 DEF WhitelistInv
<1> QED
  BY <1>2, <1>3, <1>4, NextOrForeign

LEMMA WhitelistOfItself ==
    ASSUME Base, Next, WhitelistInv, WhitelistDoes
    PROVE  WhitelistInv'
<1>0. CallsHere /\ "page" \in DOMAIN view /\ ServerShaped
  BY DEF Base
<1>2. CASE ShowAdd
  BY <1>0, <1>2 DEF ShowAdd, AllowClick, OnWhitelist, WhitelistInv, Whitelist
<1>3. CASE CloseAdd
  BY <1>0, <1>3 DEF CloseAdd, Adding, OnWhitelist, WhitelistInv, Whitelist
<1>4. CASE CloseRemove
  BY <1>0, <1>4 DEF CloseRemove, OnWhitelist, WhitelistInv, Whitelist
<1>5. ASSUME NEW c \in Cidrs, validateAndSetCidr(c) \/ AskRemove(c)
      PROVE  WhitelistInv'
  BY ZenonT(60), <1>0, <1>5 DEF validateAndSetCidr, AskRemove, Adding, AllowClick, OnWhitelist,
                    WhitelistInv, Whitelist
<1>6. ASSUME NEW op \in {"detect", "addEntry", "removeEntry"}, NEW on, Send(op, on),
             view.page = "whitelist", "page" \in DOMAIN view', view'.page = "whitelist"
      PROVE  \E s \in Slots :
               /\ calls[s].op = "none" /\ calls'[s].op = op /\ calls'[s].live
               /\ \A i \in Slots \ {s} : /\ calls'[i].op = calls[i].op
                                         /\ calls'[i].live = calls[i].live
  <2>1. PageOf(op) = "whitelist" /\ op # "none"
    BY DEF PageOf, ListOps, AddonOps
  <2> QED
    BY <1>0, <1>6, <2>1, SendHere DEF Same
<1>7. CASE handleUseCurrentIp
  <2>1. /\ Send("detect", None) /\ view.page = "whitelist" /\ ~view.detecting
        /\ view' = [view EXCEPT !.detecting = TRUE] /\ server' = server
    BY <1>7 DEF handleUseCurrentIp, Adding, OnWhitelist
  <2>2. /\ view'.page = "whitelist" /\ DOMAIN view' = DOMAIN Whitelist /\ view'.detecting
        /\ view'.reopened = view.reopened /\ "page" \in DOMAIN view'
    BY <2>1 DEF WhitelistInv, Whitelist
  <2>3. PICK s \in Slots :
               /\ calls[s].op = "none" /\ calls'[s].op = "detect" /\ calls'[s].live
               /\ \A i \in Slots \ {s} : /\ calls'[i].op = calls[i].op
                                         /\ calls'[i].live = calls[i].live
    BY <1>6, <2>1, <2>2
  <2>4. ASSUME ~view.reopened
        PROVE  \A i \in Slots : ~(calls[i].op = "detect" /\ calls[i].live)
    BY <2>1, <2>4 DEF WhitelistInv
  <2> QED
    BY <2>1, <2>2, <2>3, <2>4 DEF WhitelistInv
<1>8. CASE handleSubmitEntry \/ handleRemoveEntry
  <2>1. /\ \E op \in {"addEntry", "removeEntry"} : \E on : Send(op, on)
        /\ view.page = "whitelist" /\ view' = view
    BY <1>8 DEF handleSubmitEntry, handleRemoveEntry, Adding, OnWhitelist
  <2>2. view'.page = "whitelist" /\ "page" \in DOMAIN view'
    BY <1>0, <2>1
  <2>3. PICK op \in {"addEntry", "removeEntry"} : \E on : Send(op, on)
    BY <2>1
  <2>4. PICK s \in Slots :
               /\ calls[s].op = "none" /\ calls'[s].op = op /\ calls'[s].live
               /\ \A i \in Slots \ {s} : /\ calls'[i].op = calls[i].op
                                         /\ calls'[i].live = calls[i].live
    BY <1>6, <2>1, <2>2, <2>3
  <2> QED
    BY <2>1, <2>2, <2>4 DEF WhitelistInv
<1>1. ASSUME NEW i \in Slots, RefuseAddEntry(i)
      PROVE  WhitelistInv'
  <2>1. /\ calls[i].stage = "sent" /\ view' = view
        /\ calls' = [calls EXCEPT ![i] = Again(@)]
    BY <1>1 DEF RefuseAddEntry, Refuse, Sent
  <2>2. \A j \in Slots : calls'[j].op = calls[j].op /\ calls'[j].live = calls[j].live
    BY <1>0, <2>1, AgainHere
  <2> QED
    BY <2>1, <2>2 DEF WhitelistInv
<1>9. ASSUME NEW i \in Slots, Detect(i) \/ ServeAddEntry(i) \/ ServeRemoveEntry(i)
      PROVE  WhitelistInv'
  <2>1. view' = view /\ calls[i].stage = "sent" /\ \E got : Serve(i, got)
    BY <1>9 DEF Detect, ServeAddEntry, ServeRemoveEntry, Sent
  <2>2. \A j \in Slots : calls'[j].op = calls[j].op /\ calls'[j].live = calls[j].live
    BY <2>1, ServeHere
  <2> QED
    BY <2>1, <2>2 DEF WhitelistInv
<1>10. ASSUME NEW i \in Slots, Detected(i) \/ EntryAdded(i) \/ EntryRemoved(i)
       PROVE  WhitelistInv'
  <2>1. Settle(i) /\ server' = server /\ calls[i].op \in {"detect", "addEntry", "removeEntry"}
    BY <1>10 DEF Detected, EntryAdded, EntryRemoved, Answered
  <2>2. calls[i].live => view.page = "whitelist"
    BY <1>0, <2>1 DEF CallsHere, CallOf, PageOf, ListOps, AddonOps
  <2>3. "page" \in DOMAIN view' /\ view'.page = view.page
    BY <1>0, <1>10 DEF Detected, EntryAdded, EntryRemoved
  <2>4. /\ calls'[i].op = "none" /\ ~calls'[i].live
        /\ \A j \in Slots \ {i} : calls'[j] = calls[j]
    BY <1>0, <2>1, <2>3, SettleHere
  <2>5. SUFFICES ASSUME view.page = "whitelist"
                 PROVE  WhitelistInv'
    BY <2>3 DEF WhitelistInv
  <2>6. /\ DOMAIN view' = DOMAIN Whitelist
        /\ view'.reopened = view.reopened
        /\ view'.detecting = view.detecting \/ (calls[i].op = "detect" /\ calls[i].live)
    BY <1>10, <2>5 DEF Detected, EntryAdded, EntryRemoved, Answered, WhitelistInv, Whitelist
  <2> QED
    BY <2>1, <2>3, <2>4, <2>5, <2>6 DEF WhitelistInv
<1> QED
  BY <1>1, <1>2, <1>3, <1>4, <1>5, <1>7, <1>8, <1>9, <1>10
  DEF WhitelistDoes, WhitelistSteps, WhitelistAnswers, WhitelistApi

LEMMA WhitelistAlways == Spec => []WhitelistInv
<1>1. Init => WhitelistInv
  <2>1. Init => view.page = "away"
    BY DEF Init
  <2> QED
    BY <2>1 DEF WhitelistInv
<1>2. WhitelistInv /\ Base /\ [Next]_vars => WhitelistInv'
  <2>1. WhitelistInv /\ UNCHANGED vars => WhitelistInv'
    BY DEF vars, WhitelistInv
  <2> QED
    BY <2>1, WhitelistOfOthers, WhitelistOfItself
<1> QED
  BY <1>1, <1>2, BaseAlways, PTL DEF Spec

\* An address that the user typed is replaced by a detected one only after the
\* dialog has been closed on a detection under way (TypedIsKept).
THEOREM TypedStays == Spec => TypedIsKept
<1>1. ASSUME Base, WhitelistInv, Next
      PROVE  \A i \in Slots :
               (Detected(i) /\ Adding /\ ~view.reopened /\ view'.cidr # view.cidr)
                 => view.detecting
  <2>1. SUFFICES ASSUME NEW i \in Slots, Detected(i), Adding, ~view.reopened,
                        view'.cidr # view.cidr
                 PROVE  view.detecting
    OBVIOUS
  <2>2. calls[i].op = "detect" /\ calls[i].live
    BY <2>1 DEF Detected, Answered
  <2> QED
    BY <1>1, <2>1, <2>2 DEF WhitelistInv, Adding, OnWhitelist
<1> QED
  BY <1>1, BaseAlways, WhitelistAlways, PTL DEF Spec, TypedIsKept
-----------------------------------------------------------------------------
(* The addresses from which a user's requests are let in.                  *)

LEMMA AskedAlone ==
    ASSUME NEW ops
    PROVE  /\ AskedBeside(ops) \in {"alone", "unsure"}
           /\ AskedBeside(ops) = "alone" => \A i \in Slots : calls[i].op \notin ops
  BY DEF AskedBeside, UnderWay

LEMMA HeardWell ==
    ASSUME NEW i \in Slots, NEW trust, calls[i].stage \in {"ok", "failed"},
           Heard(i, trust) \in {"alone", "true"}
    PROVE  Heard(i, trust) = "true" /\ trust \in {"alone", "true"} /\ calls[i].stage = "ok"
  BY DEF Heard

\* What a page that is not unsure has under way is one request at most; its
\* answer is what the API has, and without one the list is.
AllowedInv ==
    view.page = "allowedIPs" =>
      /\ DOMAIN view = DOMAIN AllowedPage
      /\ view.trust \in {"alone", "true"} =>
           /\ \A i, j \in Slots : (calls[i].op \in ListOps /\ calls[j].op \in ListOps) => i = j
           /\ \A i \in Slots : calls[i].op \in ListOps =>
                                 /\ calls[i].live
                                 /\ calls[i].stage = "ok" => calls[i].got = server.ips
      /\ view.trust = "true" =>
           view.ips = server.ips /\ \A i \in Slots : calls[i].op \notin ListOps

LEMMA AllowedServer ==
    ASSUME Base, Next, ~AllowedDoes
    PROVE  server'.ips = server.ips
  BY NextOfPages, WhitelistApart, AddonsApart, KeysApart, ProfileApart, BillingApart,
     BackupsApart, BrowseApart, SessionApart, LeaveApart, ReturnApart, FailApart

LEMMA AllowedOfOthers ==
    ASSUME Base, Next, AllowedInv, ~AllowedDoes
    PROVE  AllowedInv'
<1>0. server'.ips = server.ips
  BY AllowedServer
<1>1. \A op \in ListOps : Of(op, "allowedIPs")
  BY DEF Of, PageOf, ListOps, AddonOps
<1>2. CASE Foreign("allowedIPs")
  <2>1. SUFFICES ASSUME view'.page = "allowedIPs"
                 PROVE  AllowedInv'
    BY DEF AllowedInv
  <2>2. view' = view
    BY <1>2, <2>1 DEF Foreign
  <2>3. \A i \in Slots :
          \/ calls[i].op \notin ListOps /\ calls'[i].op \notin ListOps
          \/ Same(calls'[i], calls[i]) /\ calls'[i].live = calls[i].live
    BY <1>1, <1>2, <2>1 DEF Foreign
  <2> QED
    BY <1>0, <2>2, <2>3 DEF AllowedInv, Same
<1>3. CASE \E i \in Slots : Fail(i)
  <2>1. PICK i \in Slots : Fail(i)
    BY <1>3
  <2>2. /\ view' = view
        /\ \A j \in Slots : /\ calls'[j].op = calls[j].op /\ calls'[j].live = calls[j].live
                            /\ calls'[j] = calls[j] \/ calls'[j].stage # "ok"
    BY <2>1, FailApart
  <2> QED
    BY <1>0, <2>2 DEF AllowedInv
<1>4. CASE view' \in Areas
  <2>1. view'.page # "allowedIPs"
    BY <1>4 DEF Areas, Whitelist, Addons, Keys, Profile, Billing, Backups, Browse
  <2> QED
    BY <2>1 DEF AllowedInv
<1> QED
  BY <1>2, <1>3, <1>4, NextOrForeign

LEMMA AllowedOfItself ==
    ASSUME Base, Next, AllowedInv, AllowedDoes
    PROVE  AllowedInv'
<1>0. CallsHere /\ "page" \in DOMAIN view /\ ServerShaped
  BY DEF Base
<1>1. ASSUME NEW op \in ListOps, NEW on, Send(op, on), server' = server,
             view.page \in {"allowedIPs", "away"},
             "page" \in DOMAIN view', view'.page = "allowedIPs",
             DOMAIN view' = DOMAIN AllowedPage, view'.trust = AskedBeside(ListOps)
      PROVE  AllowedInv'
  <2>1. PageOf(op) = "allowedIPs" /\ op # "none"
    BY DEF PageOf, ListOps, AddonOps
  <2>2. PICK s \in Slots :
          /\ calls'[s].op = op /\ calls'[s].live /\ calls'[s].stage = "sent"
          /\ \A i \in Slots \ {s} : calls'[i].op = calls[i].op
    BY <1>0, <1>1, <2>1, SendHere DEF Same
  <2>3. /\ view'.trust \in {"alone", "unsure"}
        /\ view'.trust = "alone" => \A i \in Slots : calls[i].op \notin ListOps
    BY <1>1, AskedAlone
  <2> QED
    BY <1>1, <2>2, <2>3 DEF AllowedInv
<1>2. CASE OpenAllowed
  <2>1. /\ DOMAIN view' = DOMAIN AllowedPage /\ "page" \in DOMAIN view'
        /\ view'.page = "allowedIPs" /\ view'.trust = AskedBeside(ListOps)
    BY <1>2 DEF OpenAllowed, AllowedPage
  <2> QED
    BY <1>1, <1>2, <2>1 DEF OpenAllowed, fetchIPs, ListOps
<1>3. ASSUME NEW trust, view.page = "allowedIPs",
             \/ view' = [view EXCEPT !.trust = trust]
             \/ view' = [view EXCEPT !.adding = TRUE, !.trust = trust]
             \/ \E ip : view' = [view EXCEPT !.removing = ip, !.trust = trust]
      PROVE  /\ DOMAIN view' = DOMAIN AllowedPage /\ "page" \in DOMAIN view'
             /\ view'.page = "allowedIPs" /\ view'.trust = trust
  BY <1>3 DEF AllowedInv, AllowedPage
<1>4. CASE TryAgain
  <2>1. /\ view.page = "allowedIPs" /\ Send("ips", None) /\ server' = server
        /\ view' = [view EXCEPT !.trust = AskedBeside(ListOps)]
    BY <1>4 DEF TryAgain, OnAllowed, fetchIPs
  <2> QED
    BY <1>1, <1>3, <2>1 DEF ListOps
<1>5. ASSUME NEW ip \in Cidrs, handleAddIP(ip)
      PROVE  AllowedInv'
  <2>1. /\ view.page = "allowedIPs" /\ Send("addIP", ip) /\ server' = server
        /\ view' = [view EXCEPT !.adding = TRUE, !.trust = AskedBeside(ListOps)]
    BY <1>5 DEF handleAddIP, OnAllowed
  <2> QED
    BY <1>1, <1>3, <2>1 DEF ListOps
<1>6. ASSUME NEW ip \in Cidrs, handleRemoveIP(ip)
      PROVE  AllowedInv'
  <2>1. /\ view.page = "allowedIPs" /\ Send("removeIP", ip) /\ server' = server
        /\ view' = [view EXCEPT !.removing = ip, !.trust = AskedBeside(ListOps)]
    BY <1>6 DEF handleRemoveIP, OnAllowed
  <2> QED
    BY <1>1, <1>3, <2>1 DEF ListOps
<1>7. ASSUME NEW i \in Slots, ServeIPs(i)
      PROVE  AllowedInv'
  <2>1. PICK got : Serve(i, got) /\ server' = [server EXCEPT !.ips = got]
    BY <1>7 DEF ServeIPs
  <2>2. /\ view' = view /\ calls[i].op \in ListOps /\ calls[i].stage = "sent"
        /\ server'.ips = got
    BY <1>0, <1>7, <2>1 DEF ServeIPs, ServerShaped
  <2>3. /\ calls'[i].op = calls[i].op /\ calls'[i].live = calls[i].live
        /\ calls'[i].stage = "ok" => calls'[i].got = got
        /\ \A j \in Slots \ {i} : calls'[j] = calls[j]
    BY <2>1, <2>2, ServeHere
  <2> QED
    BY <2>2, <2>3 DEF AllowedInv
<1>8. ASSUME NEW i \in Slots, IPsAnswered(i)
      PROVE  AllowedInv'
  <2>1. /\ Settle(i) /\ server' = server /\ calls[i].op \in ListOps
        /\ calls[i].stage \in {"ok", "failed"}
    BY <1>0, <1>8 DEF IPsAnswered, CallsHere, CallOf
  <2>2. "page" \in DOMAIN view' /\ view'.page = view.page
    BY <1>0, <1>8 DEF IPsAnswered
  <2>3. calls'[i].op = "none" /\ \A j \in Slots \ {i} : calls'[j] = calls[j]
    BY <1>0, <2>1, <2>2, SettleHere
  <2>4. SUFFICES ASSUME view.page = "allowedIPs"
                 PROVE  AllowedInv'
    BY <2>2 DEF AllowedInv
  <2>5. CASE ~calls[i].live
    <3>1. view' = view
      BY <1>8, <2>5 DEF IPsAnswered
    <3>2. view.trust \notin {"alone", "true"}
      BY <2>1, <2>4, <2>5 DEF AllowedInv
    <3> QED
      BY <2>4, <3>1, <3>2 DEF AllowedInv
  <2>6. CASE calls[i].live
    <3>1. /\ DOMAIN view' = DOMAIN AllowedPage
          /\ view'.trust = Heard(i, view.trust)
          /\ calls[i].stage = "ok" => view'.ips = calls[i].got
      BY <1>8, <2>1, <2>4, <2>6 DEF IPsAnswered, AllowedInv, AllowedPage
    <3>2. "none" \notin ListOps
      BY DEF ListOps
    <3>3. view'.trust \in {"alone", "true"} =>
            view'.trust = "true" /\ view.trust \in {"alone", "true"} /\ calls[i].stage = "ok"
      BY <2>1, <3>1, HeardWell
    <3> QED
      BY <2>1, <2>3, <2>4, <3>1, <3>2, <3>3 DEF AllowedInv
  <2> QED
    BY <2>5, <2>6
<1> QED
  BY <1>2, <1>4, <1>5, <1>6, <1>7, <1>8 DEF AllowedDoes, AllowedSteps

LEMMA AllowedAlways == Spec => []AllowedInv
<1>1. Init => AllowedInv
  <2>1. Init => view.page = "away"
    BY DEF Init
  <2> QED
    BY <2>1 DEF AllowedInv
<1>2. AllowedInv /\ Base /\ [Next]_vars => AllowedInv'
  <2>1. AllowedInv /\ UNCHANGED vars => AllowedInv'
    BY DEF vars, AllowedInv
  <2> QED
    BY <2>1, AllowedOfOthers, AllowedOfItself
<1> QED
  BY <1>1, <1>2, BaseAlways, PTL DEF Spec
-----------------------------------------------------------------------------
(* The schemas, a page at a time.                                          *)

\* A page that the buttons lead to is not empty.
LEMMA PageNotEmpty ==
    ASSUME NEW n \in Nat, NEW m \in Nat \ {0}, NEW p \in Nat, p < Pages(n, m), p > 0
    PROVE  p * m < n
<1>1. n # 0 /\ Pages(n, m) = (n + m - 1) \div m
  BY DEF Pages
<1>2. PICK q \in Int : q = (n + m - 1) \div m
  BY <1>1
<1>3. q * m <= n + m - 1
  BY <1>2
<1>4. p + 1 <= q
  BY <1>1, <1>2
<1>5. (p + 1) * m <= q * m
  BY <1>4
<1>6. (p + 1) * m = p * m + m /\ p * m \in Nat
  OBVIOUS
<1> QED
  BY <1>3, <1>5, <1>6

BrowseInv ==
    view.page = "browse" =>
      /\ DOMAIN view = DOMAIN Browse
      /\ view.size \in Nat \ {0} /\ view.dbPage \in Nat
      /\ ~view.resized => view.dbPage = 0 \/ view.dbPage * view.size < Schemas

Less == {pair \in Nat \X Nat : pair[1] < pair[2]}

LEMMA LeastSize == Min(PageSizes) \in PageSizes
<1>1. IsWellFoundedOn(Less, Nat)
  BY NatLessThanWellFounded, Zenon DEF OpToRel, Less
<1>2. PageSizes \subseteq Nat /\ PageSizes # {}
  BY BrowseAssumption
<1>3. PICK x \in PageSizes : \A y \in PageSizes : <<y, x>> \notin Less
  BY <1>1, <1>2, WFMin
<1>4. ASSUME NEW y \in PageSizes
      PROVE  x <= y
  <2>1. x \in Nat /\ y \in Nat /\ <<y, x>> \notin Less
    BY <1>2, <1>3
  <2>2. y < x => <<y, x>> \in Less
    BY <2>1 DEF Less
  <2> QED
    BY <2>1, <2>2
<1> QED
  BY <1>4 DEF Min

LEMMA BrowseOfOthers ==
    ASSUME Base, Next, BrowseInv, ~BrowseDoes
    PROVE  BrowseInv'
<1>1. CASE Foreign("browse")
  <2>1. view' = view \/ view'.page # "browse"
    BY <1>1 DEF Foreign
  <2> QED
    BY <2>1 DEF BrowseInv
<1>2. CASE \E i \in Slots : Fail(i)
  <2>1. view' = view
    BY <1>2, FailApart
  <2> QED
    BY <2>1 DEF BrowseInv
<1>3. CASE view' \in Areas /\ view'.page = "browse"
  <2>1. view' = Browse
    BY <1>3 DEF Areas, Whitelist, Addons, Keys, Profile, Billing, Backups, Browse
  <2>2. view'.size = Min(PageSizes) /\ view'.dbPage = 0
    BY <2>1 DEF Browse
  <2>3. Min(PageSizes) \in Nat \ {0}
    BY LeastSize, BrowseAssumption
  <2> QED
    BY <2>1, <2>2, <2>3 DEF BrowseInv
<1> QED
  BY <1>1, <1>2, <1>3, NextOrForeign

LEMMA BrowseOfItself ==
    ASSUME Base, Next, BrowseInv, BrowseDoes
    PROVE  BrowseInv'
<1>0. /\ "page" \in DOMAIN view /\ Schemas \in Nat /\ Tables \in Nat
      /\ PageSizes \subseteq Nat \ {0}
  BY BrowseAssumption DEF Base
<1>a. ASSUME view.page = "browse", view'.page = "browse", DOMAIN view' = DOMAIN Browse,
             view'.size = view.size, view'.dbPage = view.dbPage, view'.resized = view.resized
      PROVE  BrowseInv'
  BY <1>a DEF BrowseInv
<1>1. CASE refetchDbs
  BY <1>1, <1>a DEF refetchDbs, OnBrowse, BrowseInv, Browse
<1>2. ASSUME NEW field \in {"schemas", "columns", "rows"}, FetchPart(field)
      PROVE  BrowseInv'
  BY <1>2, <1>a DEF FetchPart, OnBrowse, BrowseInv, Browse
<1>3. ASSUME NEW size \in PageSizes, setDbPageSize(size)
      PROVE  BrowseInv'
  <2>1. /\ view.page = "browse"
        /\ view' = [view EXCEPT !.size = size, !.schemas = "loading",
                                !.resized = view.resized \/ view.dbPage > 0]
    BY <1>3 DEF setDbPageSize, OnBrowse
  <2>2. /\ view'.size = size /\ view'.dbPage = view.dbPage /\ DOMAIN view' = DOMAIN Browse
        /\ view'.resized = (view.resized \/ view.dbPage > 0)
    BY <2>1 DEF BrowseInv, Browse
  <2>3. size \in Nat \ {0} /\ view.dbPage \in Nat
    BY <1>0, <2>1 DEF BrowseInv
  <2>4. ~view'.resized => view.dbPage = 0
    <3>1. view.dbPage > 0 => view'.resized
      BY <2>2, Zenon
    <3> QED
      BY <2>3, <3>1
  <2> QED
    BY <2>2, <2>3, <2>4 DEF BrowseInv
<1>4. ASSUME NEW s \in 0 .. Schemas - 1, toggleDb(s)
      PROVE  BrowseInv'
  <2>1. view.page = "browse" /\ DOMAIN view = DOMAIN Browse
    BY <1>4 DEF toggleDb, OnBrowse, BrowseInv
  <2>2. PICK v : \E e : v = [view EXCEPT !.expanded = e]
                        /\ (view' = v \/ view' = [v EXCEPT !.table = None, !.columns = "none",
                                                         !.rows = "none"])
    BY <1>4 DEF toggleDb
  <2>3. /\ v.page = "browse" /\ v.size = view.size /\ v.dbPage = view.dbPage
        /\ v.resized = view.resized /\ DOMAIN v = DOMAIN Browse
    BY <2>1, <2>2 DEF Browse
  <2> QED
    BY <2>1, <2>2, <2>3, <1>a DEF Browse
<1>5. ASSUME NEW s \in 0 .. Schemas - 1, NEW t \in 0 .. Tables - 1, handleSelectTable(s, t)
      PROVE  BrowseInv'
  BY <1>5, <1>a DEF handleSelectTable, OnBrowse, BrowseInv, Browse
<1>6. ASSUME NEW s \in 0 .. Schemas - 1, NEW p \in 0 .. Tables, setTablePage(s, p)
      PROVE  BrowseInv'
  BY <1>6, <1>a DEF setTablePage, OnBrowse, BrowseInv, Browse
<1>7. ASSUME NEW p \in 0 .. Schemas, handleDbPageChange(p)
      PROVE  BrowseInv'
  <2>1. /\ view.page = "browse" /\ p \in 0 .. Pages(Schemas, view.size) - 1
        /\ view' = [Browse EXCEPT !.size = view.size, !.dbPage = p]
    BY <1>7 DEF handleDbPageChange, OnBrowse, Turns
  <2>2. /\ view'.size = view.size /\ view'.dbPage = p /\ DOMAIN view' = DOMAIN Browse
    BY <2>1 DEF Browse
  <2>3. view.size \in Nat \ {0} /\ p \in Nat
    BY <2>1 DEF BrowseInv
  <2>4. Pages(Schemas, view.size) \in Int
    BY <1>0, <2>3 DEF Pages
  <2>5. p = 0 \/ p * view.size < Schemas
    BY <1>0, <2>1, <2>3, <2>4, PageNotEmpty
  <2> QED
    BY <2>2, <2>3, <2>5 DEF BrowseInv
<1> QED
  BY <1>1, <1>2, <1>3, <1>4, <1>5, <1>6, <1>7 DEF BrowseDoes, BrowseSteps

LEMMA BrowseAlways == Spec => []BrowseInv
<1>1. Init => BrowseInv
  <2>1. Init => view.page = "away"
    BY DEF Init
  <2> QED
    BY <2>1 DEF BrowseInv
<1>2. BrowseInv /\ Base /\ [Next]_vars => BrowseInv'
  <2>1. BrowseInv /\ UNCHANGED vars => BrowseInv'
    BY DEF vars, BrowseInv
  <2> QED
    BY <2>1, BrowseOfOthers, BrowseOfItself
<1> QED
  BY <1>1, <1>2, BaseAlways, PTL DEF Spec

LEMMA EmptyHolds == BrowseInv => EmptyIsTrue
<1> SUFFICES ASSUME BrowseInv, SaysEmpty, Schemas # 0, ~view.resized
             PROVE  FALSE
  BY DEF EmptyIsTrue
<1>1. /\ view.page = "browse" /\ view.schemas = "list" /\ Listed = {}
      /\ view.size \in Nat \ {0} /\ view.dbPage \in Nat /\ Schemas \in Nat
      /\ view.dbPage = 0 \/ view.dbPage * view.size < Schemas
  BY BrowseAssumption DEF SaysEmpty, OnBrowse, BrowseInv
<1>2. PICK s : s = view.dbPage * view.size
  OBVIOUS
<1>3. s \in Nat /\ s < Schemas
  BY <1>1, <1>2
<1>4. (view.dbPage + 1) * view.size = s + view.size
  BY <1>1, <1>2
<1>5. OnPage(s, view.dbPage, view.size)
  BY <1>1, <1>2, <1>3, <1>4 DEF OnPage
<1>6. s \in Listed
  BY <1>1, <1>3, <1>5 DEF Listed
<1> QED
  BY <1>1, <1>6

\* The list of allowed addresses is the one the API has, after any request that
\* was answered well with no other beside it (AllowedListIsTrue).
THEOREM AllowedListTrue == Spec => []AllowedListIsTrue
<1>1. AllowedInv => AllowedListIsTrue
  BY DEF AllowedInv, AllowedListIsTrue, OnAllowed
<1> QED
  BY <1>1, AllowedAlways, PTL

\* Turning pages of any size never leads to one that says there are no databases
\* when there are (EmptyIsTrue).
THEOREM EmptyTrue == Spec => []EmptyIsTrue
  BY EmptyHolds, BrowseAlways, PTL
-----------------------------------------------------------------------------
(* The switch for autoscaling.                                             *)

\* A card that is not unsure has one setting at most under way, of the switch as
\* it is; without one, or once its answer is there, the server has it so.
AddonsInv ==
    view.page = "storage" =>
      /\ DOMAIN view = DOMAIN Addons
      /\ view.trust \in {"alone", "true"} =>
           /\ \A i, j \in Slots :
                (calls[i].op = "setAutoscale" /\ calls[j].op = "setAutoscale") => i = j
           /\ \A i \in Slots : calls[i].op = "setAutoscale" =>
                /\ calls[i].live /\ calls[i].on = view.autoscale
                /\ calls[i].stage = "ok" => server.autoscale = view.autoscale
      /\ view.trust = "true" =>
           /\ \A i \in Slots : calls[i].op # "setAutoscale"
           /\ server.autoscale = view.autoscale

LEMMA AddonsServer ==
    ASSUME Base, Next, ~AddonsDoes
    PROVE  server'.autoscale = server.autoscale
  BY NextOfPages, WhitelistApart, AllowedApart, KeysApart, ProfileApart, BillingApart,
     BackupsApart, BrowseApart, SessionApart, LeaveApart, ReturnApart, FailApart

LEMMA AddonsOfOthers ==
    ASSUME Base, Next, AddonsInv, ~AddonsDoes
    PROVE  AddonsInv'
<1>0. server'.autoscale = server.autoscale
  BY AddonsServer
<1>1. Of("setAutoscale", "storage")
  BY DEF Of, PageOf, ListOps, AddonOps
<1>2. CASE Foreign("storage")
  <2>1. SUFFICES ASSUME view'.page = "storage"
                 PROVE  AddonsInv'
    BY DEF AddonsInv
  <2>2. view' = view
    BY <1>2, <2>1 DEF Foreign
  <2>3. \A i \in Slots :
          \/ calls[i].op # "setAutoscale" /\ calls'[i].op # "setAutoscale"
          \/ Same(calls'[i], calls[i]) /\ calls'[i].live = calls[i].live
    BY <1>1, <1>2, <2>1 DEF Foreign
  <2> QED
    BY <1>0, <2>2, <2>3 DEF AddonsInv, Same
<1>3. CASE \E i \in Slots : Fail(i)
  <2>1. PICK i \in Slots : Fail(i)
    BY <1>3
  <2>2. /\ view' = view
        /\ \A j \in Slots : /\ calls'[j].op = calls[j].op /\ calls'[j].live = calls[j].live
                            /\ calls'[j].on = calls[j].on
                            /\ calls'[j] = calls[j] \/ calls'[j].stage # "ok"
    BY <2>1, FailApart
  <2> QED
    BY <1>0, <2>2 DEF AddonsInv
<1>4. CASE view' \in Areas /\ view'.page = "storage"
  <2>1. view' = Addons
    BY <1>4 DEF Areas, Whitelist, Addons, Keys, Profile, Billing, Backups, Browse
  <2>2. DOMAIN view' = DOMAIN Addons /\ view'.trust = "unsure"
    BY <2>1 DEF Addons
  <2> QED
    BY <2>2 DEF AddonsInv
<1> QED
  BY <1>2, <1>3, <1>4, NextOrForeign

\* What setting the switch does to the history of the page.
LEMMA SettingShown ==
    ASSUME NEW v, DOMAIN view = DOMAIN Addons, view.page = "storage"
    PROVE  /\ DOMAIN Setting(v) = DOMAIN Addons /\ Setting(v).page = "storage"
           /\ Setting(v).autoscale = v
           /\ Setting(v).trust \in {"alone", "unsure"}
           /\ Setting(v).trust = "alone" => \A i \in Slots : calls[i].op # "setAutoscale"
<1>1. PICK trust : trust = AskedBeside({"setAutoscale"})
  OBVIOUS
<1>2. Setting(v) = [view EXCEPT !.autoscale = v, !.trust = trust]
  BY <1>1 DEF Setting
<1>3. /\ DOMAIN Setting(v) = DOMAIN Addons /\ Setting(v).page = "storage"
      /\ Setting(v).autoscale = v /\ Setting(v).trust = trust
  BY <1>2 DEF Addons
<1>4. trust \in {"alone", "unsure"}
  BY <1>1, AskedAlone
<1>5. trust = "alone" => \A i \in Slots : calls[i].op # "setAutoscale"
  BY <1>1, AskedAlone
<1> QED
  BY <1>3, <1>4, <1>5

LEMMA AddonsOfItself ==
    ASSUME Base, Next, AddonsInv, AddonsDoes
    PROVE  AddonsInv'
<1>0. CallsHere /\ "page" \in DOMAIN view /\ ServerShaped /\ ToldShaped
  BY DEF Base
<1>7. CASE UsageComes \/ UsageFails
  <2>1. DOMAIN view' = DOMAIN Addons /\ view'.trust = "unsure"
    BY <1>7 DEF UsageComes, UsageFails, Addons
  <2> QED
    BY <2>1 DEF AddonsInv
<1>1. CASE Slide
  <2>1. PICK field \in {"gb", "cu"}, n \in 0 .. 1 : view' = [view EXCEPT ![field] = n]
    BY <1>1 DEF Slide
  <2>2. view.page = "storage" /\ UNCHANGED <<calls, server, told>>
    BY <1>1 DEF Slide, OnAddons
  <2>3. /\ DOMAIN view' = DOMAIN Addons /\ view'.autoscale = view.autoscale
        /\ view'.trust = view.trust
    BY <2>1, <2>2 DEF AddonsInv, Addons
  <2> QED
    BY <2>2, <2>3 DEF AddonsInv
<1>2. CASE Toggle
  <2>1. PICK on : on = ~view.autoscale
    OBVIOUS
  <2>2. /\ view.page = "storage" /\ view' = Setting(on) /\ Send("setAutoscale", on)
        /\ UNCHANGED <<server, told>> /\ DOMAIN view = DOMAIN Addons
    BY <1>2, <2>1 DEF Toggle, OnAddons, AddonsInv
  <2>3. /\ DOMAIN view' = DOMAIN Addons /\ view'.page = "storage" /\ view'.autoscale = on
        /\ view'.trust \in {"alone", "unsure"}
        /\ view'.trust = "alone" => \A i \in Slots : calls[i].op # "setAutoscale"
    BY <2>2, SettingShown
  <2>4. PageOf("setAutoscale") = "storage"
    BY DEF PageOf, ListOps, AddonOps
  <2>5. PICK s \in Slots :
          /\ calls'[s].op = "setAutoscale" /\ calls'[s].on = on
          /\ calls'[s].live /\ calls'[s].stage = "sent"
          /\ \A i \in Slots \ {s} : calls'[i].op = calls[i].op
    BY <1>0, <2>2, <2>3, <2>4, SendHere DEF Same
  <2> QED
    BY <2>3, <2>5 DEF AddonsInv
<1>3. CASE handleApply
  <2>1. PICK v : v = Setting(view.autoscale)
    OBVIOUS
  <2>2. /\ view.page = "storage" /\ view' = [v EXCEPT !.gb = 0, !.cu = 0]
        /\ DOMAIN view = DOMAIN Addons
    BY <1>3, <2>1 DEF handleApply, OnAddons, AddonsInv
  <2>3. /\ DOMAIN v = DOMAIN Addons /\ v.page = "storage" /\ v.autoscale = view.autoscale
        /\ v.trust \in {"alone", "unsure"}
        /\ v.trust = "alone" => \A i \in Slots : calls[i].op # "setAutoscale"
    BY <2>1, <2>2, SettingShown
  <2>4. /\ DOMAIN view' = DOMAIN Addons /\ view'.page = "storage"
        /\ view'.autoscale = view.autoscale
        /\ view'.trust \in {"alone", "unsure"}
        /\ view'.trust = "alone" => \A i \in Slots : calls[i].op # "setAutoscale"
    BY <2>2, <2>3 DEF Addons
  <2>5. /\ \A i \in Slots : \/ calls'[i] = calls[i]
                            \/ /\ calls[i].op = "none"
                               /\ <<calls'[i].op, calls'[i].on>> \in Applied
                               /\ calls'[i].live /\ calls'[i].stage = "sent"
        /\ \E i \in Slots : calls'[i].op = "setAutoscale" /\ calls[i].op = "none"
        /\ \A i, j \in Slots : (/\ calls[i].op = "none" /\ calls[j].op = "none"
                                /\ calls'[i].op = "setAutoscale"
                                /\ calls'[j].op = "setAutoscale") => i = j
    BY <1>3, ApplySends
  <2>6. \A op, on : (<<op, on>> \in Applied /\ op = "setAutoscale") => on = view.autoscale
    BY DEF Applied
  <2>7. ASSUME view'.trust = "alone", NEW i \in Slots, calls'[i].op = "setAutoscale"
        PROVE  /\ calls[i].op = "none" /\ calls'[i].on = view.autoscale
               /\ calls'[i].live /\ calls'[i].stage = "sent"
    BY <2>4, <2>5, <2>6, <2>7
  <2>8. ASSUME view'.trust = "alone"
        PROVE  \A i, j \in Slots :
                 (calls'[i].op = "setAutoscale" /\ calls'[j].op = "setAutoscale") => i = j
    BY <2>5, <2>7, <2>8
  <2> QED
    BY <2>4, <2>7, <2>8 DEF AddonsInv
<1>4. ASSUME NEW i \in Slots, ServeAddon(i)
      PROVE  AddonsInv'
  <2>1. /\ calls[i].op \in AddonOps /\ calls[i].stage = "sent" /\ view' = view
        /\ Serve(i, None)
    BY <1>4 DEF ServeAddon
  <2>2. /\ calls[i].op = "setAutoscale" => server'.autoscale = calls[i].on
        /\ calls[i].op # "setAutoscale" => server'.autoscale = server.autoscale
    BY <1>0, <1>4 DEF ServeAddon, ServerShaped
  <2>6. /\ calls'[i].op = calls[i].op /\ calls'[i].live = calls[i].live
        /\ calls'[i].on = calls[i].on
        /\ \A j \in Slots \ {i} : calls'[j] = calls[j]
    BY <2>1, ServeHere
  <2> QED
    BY <2>1, <2>2, <2>6 DEF AddonsInv
<1>5. ASSUME NEW i \in Slots, RefuseAddon(i)
      PROVE  AddonsInv'
  <2>1. /\ calls[i].op # "setAutoscale" /\ calls[i].stage = "sent" /\ view' = view
        /\ calls' = [calls EXCEPT ![i] = Again(@)] /\ UNCHANGED <<server, told>>
    BY <1>5 DEF RefuseAddon, Refuse, Sent
  <2>2. calls'[i].op = calls[i].op /\ \A j \in Slots \ {i} : calls'[j] = calls[j]
    BY <1>0, <2>1, AgainHere
  <2> QED
    BY <2>1, <2>2 DEF AddonsInv
<1>6. ASSUME NEW i \in Slots, AddonAnswered(i)
      PROVE  AddonsInv'
  <2>1. /\ Settle(i) /\ UNCHANGED <<server, told>> /\ calls[i].op \in AddonOps
        /\ calls[i].stage \in {"ok", "failed"}
    BY <1>0, <1>6 DEF AddonAnswered, CallsHere, CallOf
  <2>2. "page" \in DOMAIN view' /\ view'.page = view.page
    BY <1>0, <1>6 DEF AddonAnswered
  <2>3. calls'[i].op = "none" /\ \A j \in Slots \ {i} : calls'[j] = calls[j]
    BY <1>0, <2>1, <2>2, SettleHere
  <2>4. SUFFICES ASSUME view.page = "storage"
                 PROVE  AddonsInv'
    BY <2>2 DEF AddonsInv
  <2>5. CASE calls[i].live /\ calls[i].op = "setAutoscale"
    <3>1. PICK trust : view' = [view EXCEPT !.trust = trust] /\ trust = Heard(i, view.trust)
      BY <1>6, <2>5 DEF AddonAnswered
    <3>2. /\ DOMAIN view' = DOMAIN Addons
          /\ view'.autoscale = view.autoscale /\ view'.trust = trust
      BY <2>4, <3>1 DEF AddonsInv, Addons
    <3>3. trust \in {"alone", "true"} =>
            trust = "true" /\ view.trust \in {"alone", "true"} /\ calls[i].stage = "ok"
      BY <2>1, <3>1, HeardWell
    <3> QED
      BY <2>1, <2>3, <2>4, <2>5, <3>2, <3>3 DEF AddonsInv
  <2>6. CASE ~(calls[i].live /\ calls[i].op = "setAutoscale")
    <3>1. view' = view
      BY <1>6, <2>6 DEF AddonAnswered
    <3> QED
      BY <2>1, <2>3, <2>4, <2>6, <3>1 DEF AddonsInv
  <2> QED
    BY <2>5, <2>6
<1> QED
  BY <1>1, <1>2, <1>3, <1>4, <1>5, <1>6, <1>7 DEF AddonsDoes, AddonSteps

\* Autoscaling is as the switch has it, after any setting the card sent that was
\* answered well with no other beside it (SwitchIsTrue).
THEOREM SwitchTrue == Spec => []SwitchIsTrue
<1>1. Init => AddonsInv
  <2>1. Init => view.page = "away"
    BY DEF Init
  <2> QED
    BY <2>1 DEF AddonsInv
<1>2. AddonsInv /\ Base /\ [Next]_vars => AddonsInv'
  <2>1. AddonsInv /\ UNCHANGED vars => AddonsInv'
    BY DEF vars, AddonsInv
  <2> QED
    BY <2>1, AddonsOfOthers, AddonsOfItself
<1>3. AddonsInv => SwitchIsTrue
  BY DEF AddonsInv, SwitchIsTrue, OnAddons
<1> QED
  BY <1>1, <1>2, <1>3, BaseAlways, PTL DEF Spec
-----------------------------------------------------------------------------
(* The API keys.                                                           *)

HasKey(v, k) == v.status[k] # "none"

\* Until two keys are in the making together: while one is, every key has been
\* on the screen.
KeysInv ==
    view.page = "keys" =>
      /\ DOMAIN view = DOMAIN Keys /\ DOMAIN view.status = KeyIds
      /\ (view.dialog = "create" /\ view.created # None) => view.created \in view.seen
      /\ view.dialog = "revoke" => view.revoking \in KeyIds /\ HasKey(view, view.revoking)
      /\ \A i \in Slots : (calls[i].op = "revokeKey" /\ calls[i].live) =>
                            calls[i].on \in KeyIds /\ HasKey(view, calls[i].on)
      /\ ~view.crossed =>
           /\ \A k \in KeyIds : (HasKey(view, k) /\ k \notin view.seen) => view.created = k
           /\ \A i \in Slots : (calls[i].op = "makeKey" /\ calls[i].live) =>
                /\ \A k \in KeyIds : HasKey(view, k) => k \in view.seen
                /\ \A j \in Slots : (calls[j].op = "makeKey" /\ calls[j].live) => j = i

LEMMA KeysOfOthers ==
    ASSUME Base, Next, KeysInv, ~KeysDoes
    PROVE  KeysInv'
<1>1. Of("makeKey", "keys") /\ Of("revokeKey", "keys")
  BY DEF Of, PageOf, ListOps, AddonOps
<1>2. CASE Foreign("keys")
  <2>1. SUFFICES ASSUME view'.page = "keys"
                 PROVE  KeysInv'
    BY DEF KeysInv
  <2>2. view' = view
    BY <1>2, <2>1 DEF Foreign
  <2>3. \A i \in Slots :
          \/ /\ calls[i].op \notin {"makeKey", "revokeKey"}
             /\ calls'[i].op \notin {"makeKey", "revokeKey"}
          \/ Same(calls'[i], calls[i]) /\ calls'[i].live = calls[i].live
    BY <1>1, <1>2, <2>1 DEF Foreign
  <2> QED
    BY <2>2, <2>3 DEF KeysInv, Same, HasKey
<1>3. CASE \E i \in Slots : Fail(i)
  <2>1. PICK i \in Slots : Fail(i)
    BY <1>3
  <2>2. /\ view' = view
        /\ \A j \in Slots : /\ calls'[j].op = calls[j].op /\ calls'[j].live = calls[j].live
                            /\ calls'[j].on = calls[j].on
    BY <2>1, FailApart
  <2> QED
    BY <2>2 DEF KeysInv, HasKey
<1>4. CASE /\ view' \in Areas /\ view'.page = "keys"
           /\ \A i \in Slots : Same(calls'[i], calls[i]) /\ ~calls'[i].live
  <2>1. view' = Keys
    BY <1>4 DEF Areas, Whitelist, Addons, Keys, Profile, Billing, Backups, Browse
  <2>2. /\ DOMAIN view' = DOMAIN Keys /\ view'.dialog = "none"
        /\ view'.status = [k \in KeyIds |-> IF k \in MockKeys THEN "active" ELSE "none"]
        /\ view'.seen = MockKeys
    BY <2>1 DEF Keys
  <2>3. \A k \in KeyIds : HasKey(view', k) => k \in view'.seen
    BY <2>2 DEF HasKey
  <2> QED
    BY <1>4, <2>2, <2>3 DEF KeysInv
<1> QED
  BY <1>2, <1>3, <1>4, NextOrForeign

\* What is shown stays on record.
LEMMA ShowsKey ==
    ASSUME NEW v, DOMAIN v = DOMAIN Keys
    PROVE  /\ DOMAIN OnScreen(v) = DOMAIN Keys
           /\ OnScreen(v).page = v.page /\ OnScreen(v).dialog = v.dialog
           /\ OnScreen(v).status = v.status /\ OnScreen(v).created = v.created
           /\ OnScreen(v).revoking = v.revoking /\ OnScreen(v).crossed = v.crossed
           /\ v.seen \subseteq OnScreen(v).seen
           /\ v.dialog = "create" /\ v.created # None => v.created \in OnScreen(v).seen
  BY DEF OnScreen, Keys

LEMMA KeysOfItself ==
    ASSUME Base, Next, KeysInv, KeysDoes
    PROVE  KeysInv'
<1>0. CallsHere /\ "page" \in DOMAIN view /\ None \notin KeyIds
  BY KeyAssumption DEF Base
<1>1. CASE ShowCreateKey
  <2>1. PICK v : v = [view EXCEPT !.dialog = "create"]
    OBVIOUS
  <2>2. view.page = "keys" /\ view' = OnScreen(v) /\ calls' = calls
    BY <1>1, <2>1 DEF ShowCreateKey, KeysClick, OnKeys
  <2>3. /\ DOMAIN v = DOMAIN Keys /\ v.page = "keys" /\ v.dialog = "create"
        /\ v.status = view.status /\ v.created = view.created /\ v.seen = view.seen
        /\ v.crossed = view.crossed
    BY <2>1, <2>2 DEF KeysInv, Keys
  <2>4. /\ DOMAIN view' = DOMAIN Keys /\ view'.dialog = "create"
        /\ view'.status = view.status /\ view'.created = view.created
        /\ view'.crossed = view.crossed /\ view.seen \subseteq view'.seen
        /\ view'.created # None => view'.created \in view'.seen
    BY <2>2, <2>3, ShowsKey
  <2> QED
    BY <2>2, <2>4 DEF KeysInv, HasKey
<1>2. CASE CloseKey
  <2>1. /\ view.page = "keys" /\ view.dialog = "create" /\ calls' = calls
        /\ view' = [view EXCEPT !.dialog = "none", !.creating = FALSE, !.created = None]
    BY <1>2 DEF CloseKey, OnKeys
  <2>2. /\ DOMAIN view' = DOMAIN Keys /\ view'.dialog = "none"
        /\ view'.status = view.status /\ view'.created = None
        /\ view'.crossed = view.crossed /\ view'.seen = view.seen
    BY <2>1 DEF KeysInv, Keys
  <2> QED
    BY <1>0, <2>1, <2>2 DEF KeysInv, HasKey
<1>3. CASE handleCreateKey
  <2>1. PICK crossed : crossed = (view.crossed \/ UnderWay("makeKey") # {})
    OBVIOUS
  <2>2. /\ view.page = "keys" /\ view.created = None /\ Send("makeKey", None)
        /\ view' = [view EXCEPT !.creating = TRUE, !.crossed = crossed]
    BY <1>3, <2>1 DEF handleCreateKey, OnKeys
  <2>3. /\ DOMAIN view' = DOMAIN Keys /\ view'.page = "keys" /\ view'.dialog = view.dialog
        /\ view'.status = view.status /\ view'.created = view.created
        /\ view'.crossed = crossed /\ view'.seen = view.seen
        /\ view'.revoking = view.revoking /\ "page" \in DOMAIN view'
    BY <2>2 DEF KeysInv, Keys
  <2>4. PageOf("makeKey") = "keys"
    BY DEF PageOf, ListOps, AddonOps
  <2>5. PICK s \in Slots :
          /\ calls'[s].op = "makeKey" /\ calls'[s].live
          /\ \A i \in Slots \ {s} : /\ Same(calls'[i], calls[i])
                                    /\ calls'[i].live = calls[i].live
    BY <1>0, <2>2, <2>3, <2>4, SendHere
  <2>6. ~crossed => ~view.crossed /\ \A i \in Slots : calls[i].op # "makeKey"
    BY <2>1 DEF UnderWay
  <2>7. ~crossed => \A k \in KeyIds : HasKey(view, k) => k \in view.seen
    BY <1>0, <2>2, <2>6 DEF KeysInv
  <2> QED
    BY <2>2, <2>3, <2>5, <2>6, <2>7 DEF KeysInv, HasKey, Same
<1>4. CASE CloseRevoke
  <2>1. /\ view.page = "keys" /\ calls' = calls
        /\ view' = [view EXCEPT !.dialog = "none", !.revoking = None]
    BY <1>4 DEF CloseRevoke, OnKeys
  <2>2. /\ DOMAIN view' = DOMAIN Keys /\ view'.dialog = "none"
        /\ view'.status = view.status /\ view'.created = view.created
        /\ view'.crossed = view.crossed /\ view'.seen = view.seen
    BY <2>1 DEF KeysInv, Keys
  <2> QED
    BY <2>1, <2>2 DEF KeysInv, HasKey
<1>5. CASE handleRevoke
  <2>1. /\ view.page = "keys" /\ view.dialog = "revoke" /\ view' = view
        /\ Send("revokeKey", view.revoking)
    BY <1>5 DEF handleRevoke, OnKeys
  <2>2. PageOf("revokeKey") = "keys"
    BY DEF PageOf, ListOps, AddonOps
  <2>3. PICK s \in Slots :
          /\ calls'[s].op = "revokeKey" /\ calls'[s].on = view.revoking
          /\ \A i \in Slots \ {s} : /\ Same(calls'[i], calls[i])
                                    /\ calls'[i].live = calls[i].live
    BY <1>0, <2>1, <2>2, SendHere
  <2> QED
    BY <2>1, <2>3 DEF KeysInv, HasKey, Same
<1>6. ASSUME NEW k \in KeyIds, AskRevoke(k)
      PROVE  KeysInv'
  <2>1. /\ view.page = "keys" /\ view.status[k] = "active" /\ calls' = calls
        /\ view' = [view EXCEPT !.dialog = "revoke", !.revoking = k]
    BY <1>6 DEF AskRevoke, KeysClick, OnKeys
  <2>2. /\ DOMAIN view' = DOMAIN Keys /\ view'.dialog = "revoke" /\ view'.revoking = k
        /\ view'.status = view.status /\ view'.created = view.created
        /\ view'.crossed = view.crossed /\ view'.seen = view.seen
    BY <2>1 DEF KeysInv, Keys
  <2> QED
    BY <2>1, <2>2 DEF KeysInv, HasKey
<1>7. ASSUME NEW i \in Slots, calls[i].op \in {"makeKey", "revokeKey"}, Settle(i),
             "page" \in DOMAIN view', view'.page = view.page
      PROVE  ~calls'[i].live /\ \A j \in Slots \ {i} : calls'[j] = calls[j]
  BY <1>0, <1>7, SettleHere
<1>8. ASSUME NEW i \in Slots, calls[i].op \in {"makeKey", "revokeKey"}, Settle(i),
             view' = view
      PROVE  KeysInv'
  <2>1. ~calls'[i].live /\ \A j \in Slots \ {i} : calls'[j] = calls[j]
    BY <1>0, <1>7, <1>8
  <2> QED
    BY <1>8, <2>1 DEF KeysInv, HasKey
<1>9. ASSUME NEW i \in Slots, KeyMade(i)
      PROVE  KeysInv'
  <2>1. calls[i].op = "makeKey" /\ Settle(i)
    BY <1>9 DEF KeyMade, Sent
  <2>2. CASE ~calls[i].live
    BY <1>8, <1>9, <2>1, <2>2 DEF KeyMade
  <2>3. CASE calls[i].live
    <3>1. view.page = "keys"
      BY <1>0, <2>1, <2>3 DEF CallsHere, CallOf, PageOf, ListOps, AddonOps
    <3>2. PICK k \in {id \in KeyIds : view.status[id] = "none"} :
            view' = OnScreen([view EXCEPT !.created = k, !.creating = FALSE,
                                          !.status[k] = "active"])
      BY <1>9, <2>3 DEF KeyMade
    <3>3. PICK v : v = [view EXCEPT !.created = k, !.creating = FALSE,
                                    !.status[k] = "active"]
      OBVIOUS
    <3>4. /\ DOMAIN v = DOMAIN Keys /\ v.page = "keys" /\ v.dialog = view.dialog
          /\ v.created = k /\ v.seen = view.seen /\ v.crossed = view.crossed
          /\ v.revoking = view.revoking
          /\ v.status = [view.status EXCEPT ![k] = "active"]
      BY <3>1, <3>3 DEF KeysInv, Keys
    <3>5. /\ DOMAIN view' = DOMAIN Keys /\ view'.page = "keys" /\ view'.dialog = view.dialog
          /\ view'.created = k /\ view.seen \subseteq view'.seen
          /\ view'.crossed = view.crossed /\ view'.revoking = view.revoking
          /\ view'.status = [view.status EXCEPT ![k] = "active"]
          /\ view.dialog = "create" => k \in view'.seen
      BY ZenonT(60), <1>0, <3>2, <3>3, <3>4, ShowsKey
    <3>6. /\ DOMAIN view'.status = KeyIds
          /\ \A h \in KeyIds : HasKey(view', h) <=> HasKey(view, h) \/ h = k
      BY <3>1, <3>5 DEF KeysInv, HasKey
    <3>7. "page" \in DOMAIN view' /\ view'.page = view.page
      BY <3>1, <3>5 DEF Keys
    <3>8. ~calls'[i].live /\ \A j \in Slots \ {i} : calls'[j] = calls[j]
      BY <1>7, <2>1, <3>7
    <3>9. ~view.crossed =>
            /\ \A h \in KeyIds : HasKey(view, h) => h \in view.seen
            /\ \A j \in Slots : (calls[j].op = "makeKey" /\ calls[j].live) => j = i
      BY <2>1, <2>3, <3>1 DEF KeysInv
    <3> QED
      BY <3>1, <3>5, <3>6, <3>8, <3>9 DEF KeysInv
  <2> QED
    BY <2>2, <2>3
<1>10. ASSUME NEW i \in Slots, KeyRevoked(i)
       PROVE  KeysInv'
  <2>1. calls[i].op = "revokeKey" /\ Settle(i)
    BY <1>10 DEF KeyRevoked, Sent
  <2>2. CASE ~calls[i].live
    BY <1>8, <1>10, <2>1, <2>2 DEF KeyRevoked
  <2>3. CASE calls[i].live
    <3>1. view.page = "keys"
      BY <1>0, <2>1, <2>3 DEF CallsHere, CallOf, PageOf, ListOps, AddonOps
    <3>2. PICK k : k = calls[i].on
      OBVIOUS
    <3>3. k \in KeyIds /\ HasKey(view, k)
      BY <2>1, <2>3, <3>1, <3>2 DEF KeysInv
    <3>4. view' = [view EXCEPT !.status[k] = "revoked", !.revoking = None,
                               !.dialog = IF @ = "revoke" THEN "none" ELSE @]
      BY <1>10, <2>3, <3>2 DEF KeyRevoked
    <3>5. /\ DOMAIN view' = DOMAIN Keys /\ view'.page = "keys"
          /\ view'.dialog = view.dialog \/ view'.dialog = "none"
          /\ view'.dialog # "revoke"
          /\ view'.created = view.created /\ view'.seen = view.seen
          /\ view'.crossed = view.crossed
          /\ view'.status = [view.status EXCEPT ![k] = "revoked"]
      BY <3>1, <3>4 DEF KeysInv, Keys
    <3>6. /\ DOMAIN view'.status = KeyIds
          /\ \A h \in KeyIds : HasKey(view', h) <=> HasKey(view, h)
      BY <3>1, <3>3, <3>5 DEF KeysInv, HasKey
    <3>7. "page" \in DOMAIN view' /\ view'.page = view.page
      BY <3>1, <3>5 DEF Keys
    <3>8. ~calls'[i].live /\ \A j \in Slots \ {i} : calls'[j] = calls[j]
      BY <1>7, <2>1, <3>7
    <3> QED
      BY <3>1, <3>5, <3>6, <3>8 DEF KeysInv
  <2> QED
    BY <2>2, <2>3
<1> QED
  BY <1>1, <1>2, <1>3, <1>4, <1>5, <1>6, <1>9, <1>10 DEF KeysDoes, KeySteps, KeyTimers

\* A key that exists is on the screen, has been, or will be when the dialog is
\* opened again, unless two were made together (SecretKept).
THEOREM SecretStays == Spec => []SecretKept
<1>1. Init => KeysInv
  <2>1. Init => view.page = "away"
    BY DEF Init
  <2> QED
    BY <2>1 DEF KeysInv
<1>2. KeysInv /\ Base /\ [Next]_vars => KeysInv'
  <2>1. KeysInv /\ UNCHANGED vars => KeysInv'
    BY DEF vars, KeysInv, HasKey
  <2> QED
    BY <2>1, KeysOfOthers, KeysOfItself
<1>3. KeysInv => SecretKept
  BY DEF KeysInv, SecretKept, OnKeys, HasKey
<1> QED
  BY <1>1, <1>2, <1>3, BaseAlways, PTL DEF Spec
-----------------------------------------------------------------------------
(* Backups.                                                                *)

\* What a list shows is of the selected database, or is on its way.
OfSelected(v) == \A l \in Lists : v.of[l] = v.db \/ <<l, v.db>> \in v.asked

BackupsInv ==
    view.page = "backups" =>
      /\ DOMAIN view = DOMAIN Backups /\ DOMAIN view.of = Lists
      /\ ~view.crossed =>
           /\ \A a \in view.asked : a[2] = view.db
           /\ (faults = MaxFaults /\ view.db # None) => OfSelected(view)

LEMMA BackupsOfOthers ==
    ASSUME Base, Next, BackupsInv, ~BackupsDoes
    PROVE  BackupsInv'
<1>0. faults' = MaxFaults => faults = MaxFaults
  <2>1. faults' <= faults /\ faults' \in 0 .. MaxFaults /\ faults \in 0 .. MaxFaults
    BY BaseNext DEF Base
  <2> QED
    BY <2>1, TabAssumption
<1>1. CASE view' = view
  BY <1>0, <1>1 DEF BackupsInv, OfSelected
<1>2. CASE Foreign("backups")
  <2>1. CASE view'.page # "backups"
    BY <2>1 DEF BackupsInv
  <2> QED
    BY <1>1, <1>2, <2>1 DEF Foreign
<1>3. CASE \E i \in Slots : Fail(i)
  BY <1>1, <1>3, FailApart
<1>4. CASE view' \in Areas /\ view'.page = "backups"
  <2>1. view' = Backups
    BY <1>4 DEF Areas, Whitelist, Addons, Keys, Profile, Billing, Backups, Browse
  <2>2. /\ DOMAIN view' = DOMAIN Backups /\ DOMAIN view'.of = Lists
        /\ view'.asked = {} /\ view'.db = None
    BY <2>1 DEF Backups
  <2> QED
    BY <2>2 DEF BackupsInv
<1> QED
  BY <1>2, <1>3, <1>4, NextOrForeign

\* What asking for lists does to the page, and when it is not crossed.
LEMMA AskingShown ==
    ASSUME NEW v, DOMAIN v = DOMAIN Backups, NEW ls, NEW d
    PROVE  LET w == Asking(v, ls, d) IN
           /\ DOMAIN w = DOMAIN Backups /\ w.page = v.page /\ w.db = v.db /\ w.of = v.of
           /\ w.asked = v.asked \cup (ls \X {d})
           /\ ~w.crossed => ~v.crossed /\ \A a \in w.asked : a[2] = v.db
<1>1. PICK crossed : crossed = (v.crossed \/ \E a \in v.asked \cup (ls \X {d}) : a[2] # v.db)
  OBVIOUS
<1>2. PICK error : error = (v.error /\ "backups" \notin ls)
  OBVIOUS
<1>3. PICK waits : waits = [l \in Lists |-> v.loading[l] \/ l \in ls]
  OBVIOUS
<1>4. PICK w : w = Asking(v, ls, d)
  OBVIOUS
<1>5. w = [v EXCEPT !.asked = v.asked \cup (ls \X {d}), !.loading = waits,
                    !.error = error, !.crossed = crossed]
  BY <1>1, <1>2, <1>3, <1>4 DEF Asking
<1>6. /\ DOMAIN w = DOMAIN Backups /\ w.page = v.page /\ w.db = v.db /\ w.of = v.of
      /\ w.asked = v.asked \cup (ls \X {d}) /\ w.crossed = crossed
  BY <1>5 DEF Backups
<1>7. ~crossed => ~v.crossed /\ \A a \in v.asked \cup (ls \X {d}) : a[2] = v.db
  BY <1>1
<1> QED
  BY <1>4, <1>6, <1>7

LEMMA BackupsOfItself ==
    ASSUME Base, Next, BackupsInv, BackupsDoes
    PROVE  BackupsInv'
<1>0. CallsHere /\ "page" \in DOMAIN view
  BY DEF Base
<1>a. faults' = MaxFaults => faults = MaxFaults
  <2>1. faults' <= faults /\ faults' \in 0 .. MaxFaults /\ faults \in 0 .. MaxFaults
    BY BaseNext DEF Base
  <2> QED
    BY <2>1, TabAssumption
\* The page asks for more.
<1>b. ASSUME NEW v, NEW ls, NEW d, view.page = "backups",
             DOMAIN v = DOMAIN Backups, v.page = "backups", v.of = view.of,
             v.asked = view.asked, v.crossed = view.crossed,
             view' = Asking(v, ls, d),
             v.db = view.db \/ (v.db = d /\ ls = Lists)
      PROVE  BackupsInv'
  <2>1. /\ DOMAIN view' = DOMAIN Backups /\ view'.page = "backups" /\ view'.db = v.db
        /\ view'.of = view.of /\ view'.asked = view.asked \cup (ls \X {d})
        /\ ~view'.crossed => ~view.crossed /\ \A a \in view'.asked : a[2] = v.db
    BY <1>b, AskingShown
  <2>2. DOMAIN view'.of = Lists
    BY <1>b, <2>1 DEF BackupsInv
  <2>3. ASSUME ~view'.crossed, faults' = MaxFaults, view'.db # None
        PROVE  OfSelected(view')
    <3>1. CASE v.db = view.db
      <4>1. OfSelected(view)
        BY <1>a, <1>b, <2>1, <2>3, <3>1 DEF BackupsInv
      <4> QED
        BY <2>1, <3>1, <4>1 DEF OfSelected
    <3>2. CASE v.db = d /\ ls = Lists
      BY <2>1, <3>2 DEF OfSelected
    <3> QED
      BY <1>b, <3>1, <3>2
  <2> QED
    BY <2>1, <2>2, <2>3 DEF BackupsInv
\* The page changes what has nothing to do with its lists.
<1>c. ASSUME view.page = "backups", DOMAIN view' = DOMAIN view, view'.page = "backups",
             view'.db = view.db, view'.of = view.of, view'.asked = view.asked,
             view'.crossed = view.crossed
      PROVE  BackupsInv'
  BY <1>a, <1>c DEF BackupsInv, OfSelected
<1>1. CASE Refresh
  BY <1>1, <1>b DEF Refresh, BackupsClick, OnBackups, BackupsInv
<1>2. CASE RetryBackups
  BY <1>2, <1>b DEF RetryBackups, BackupsClick, OnBackups, BackupsInv
<1>3. ASSUME NEW d \in Stores, SelectDb(d)
      PROVE  BackupsInv'
  <2>1. PICK v : v = [view EXCEPT !.db = d]
    OBVIOUS
  <2>2. view.page = "backups" /\ DOMAIN view = DOMAIN Backups /\ view' = Asking(v, Lists, d)
    BY <1>3, <2>1 DEF SelectDb, BackupsClick, OnBackups, BackupsInv
  <2>3. /\ DOMAIN v = DOMAIN Backups /\ v.page = "backups" /\ v.of = view.of
        /\ v.asked = view.asked /\ v.crossed = view.crossed /\ v.db = d
    BY <2>1, <2>2 DEF Backups
  <2> QED
    BY <1>b, <2>2, <2>3
<1>4. CASE PickTime \/ AskRestore \/ CloseConfirmRestore \/ handleRestore
  <2>1. /\ view.page = "backups" /\ DOMAIN view = DOMAIN Backups
        /\ \/ view' = [view EXCEPT !.time = TRUE]
           \/ view' = [view EXCEPT !.confirm = TRUE]
           \/ view' = [view EXCEPT !.confirm = FALSE]
           \/ view' = [view EXCEPT !.confirm = FALSE, !.restoring = TRUE]
    BY <1>4 DEF PickTime, AskRestore, CloseConfirmRestore, handleRestore, RestoreForm,
                OnBackups, BackupsInv
  <2>2. /\ DOMAIN view' = DOMAIN view /\ view'.page = "backups" /\ view'.db = view.db
        /\ view'.of = view.of /\ view'.asked = view.asked /\ view'.crossed = view.crossed
    BY <2>1 DEF Backups
  <2> QED
    BY <1>c, <2>1, <2>2
<1>5. ASSUME NEW l \in Lists, NEW d \in Stores, ListComes(l, d)
      PROVE  BackupsInv'
  <2>1. /\ view.page = "backups" /\ DOMAIN view = DOMAIN Backups /\ <<l, d>> \in view.asked
        /\ DOMAIN view.of = Lists
    BY <1>5 DEF ListComes, OnBackups, BackupsInv
  <2>2. PICK waits : waits = [view.loading EXCEPT ![l] = FALSE]
    OBVIOUS
  <2>3. view' = [view EXCEPT !.asked = view.asked \ {<<l, d>>},
                             !.of = [view.of EXCEPT ![l] = d], !.loading = waits]
    BY <1>5, <2>1, <2>2 DEF ListComes, Backups
  <2>4. /\ DOMAIN view' = DOMAIN Backups /\ view'.db = view.db /\ view'.crossed = view.crossed
        /\ view'.asked = view.asked \ {<<l, d>>} /\ view'.of = [view.of EXCEPT ![l] = d]
    BY <2>1, <2>3 DEF Backups
  <2>5. DOMAIN view'.of = Lists /\ view'.of[l] = d
        /\ \A m \in Lists \ {l} : view'.of[m] = view.of[m]
    BY <2>1, <2>4
  <2>6. ASSUME ~view'.crossed
        PROVE  d = view.db /\ \A a \in view'.asked : a[2] = view'.db
    <3>1. \A a \in view.asked : a[2] = view.db
      BY <2>1, <2>4, <2>6 DEF BackupsInv
    <3> QED
      BY <2>1, <2>4, <3>1
  <2>7. ASSUME ~view'.crossed, faults' = MaxFaults, view'.db # None
        PROVE  OfSelected(view')
    <3>1. OfSelected(view)
      BY <1>a, <2>1, <2>4, <2>7 DEF BackupsInv
    <3>2. d = view.db
      BY <2>6, <2>7
    <3>3. ASSUME NEW m \in Lists
          PROVE  view'.of[m] = view'.db \/ <<m, view'.db>> \in view'.asked
      <4>1. CASE m = l
        BY <2>4, <2>5, <3>2, <4>1
      <4>2. CASE m # l
        <5>1. <<m, view.db>> # <<l, d>> /\ view'.of[m] = view.of[m]
          BY <2>5, <4>2
        <5> QED
          BY <2>4, <3>1, <5>1 DEF OfSelected
      <4> QED
        BY <4>1, <4>2
    <3> QED
      BY <3>3 DEF OfSelected
  <2> QED
    BY <2>4, <2>5, <2>6, <2>7 DEF BackupsInv
<1>6. ASSUME NEW l \in Lists, NEW d \in Stores, ListFails(l, d)
      PROVE  BackupsInv'
  <2>1. /\ view.page = "backups" /\ DOMAIN view = DOMAIN Backups
        /\ faults > 0 /\ faults' = faults - 1
    BY <1>6 DEF ListFails, OnBackups, BackupsInv
  <2>2. PICK waits : waits = [view.loading EXCEPT ![l] = FALSE]
    OBVIOUS
  <2>3. PICK error : error = (view.error \/ l = "backups")
    OBVIOUS
  <2>4. view' = [view EXCEPT !.asked = view.asked \ {<<l, d>>}, !.loading = waits,
                             !.error = error]
    BY <1>6, <2>1, <2>2, <2>3 DEF ListFails, Backups
  <2>5. /\ DOMAIN view' = DOMAIN Backups /\ view'.db = view.db /\ view'.crossed = view.crossed
        /\ view'.asked = view.asked \ {<<l, d>>} /\ view'.of = view.of
    BY <2>1, <2>4 DEF Backups
  <2>6. faults' # MaxFaults
    <3>1. faults \in 0 .. MaxFaults
      BY DEF Base
    <3> QED
      BY <2>1, <3>1, TabAssumption
  <2> QED
    BY <2>1, <2>5, <2>6 DEF BackupsInv
<1>7. ASSUME NEW i \in Slots, ServeRestore(i)
      PROVE  BackupsInv'
  <2>1. view' = view
    BY <1>7 DEF ServeRestore
  <2> QED
    BY <1>a, <2>1 DEF BackupsInv, OfSelected
<1>8. ASSUME NEW i \in Slots, RestoreAnswered(i)
      PROVE  BackupsInv'
  <2>1. CASE ~calls[i].live
    <3>1. view' = view
      BY <1>8, <2>1 DEF RestoreAnswered
    <3> QED
      BY <1>a, <3>1 DEF BackupsInv, OfSelected
  <2>2. CASE calls[i].live
    <3>1. calls[i].op = "restore"
      BY <1>8 DEF RestoreAnswered, Answered
    <3>2. view.page = "backups" /\ DOMAIN view = DOMAIN Backups
      BY <1>0, <2>2, <3>1 DEF CallsHere, CallOf, PageOf, ListOps, AddonOps, BackupsInv
    <3>3. PICK v : v = [view EXCEPT !.restoring = FALSE]
      OBVIOUS
    <3>4. /\ DOMAIN v = DOMAIN Backups /\ v.page = "backups" /\ v.of = view.of
          /\ v.asked = view.asked /\ v.crossed = view.crossed /\ v.db = view.db
      BY <3>2, <3>3 DEF Backups
    <3>5. view' = v \/ view' = Asking(v, {"restores"}, calls[i].on)
      BY <1>8, <2>2, <3>3 DEF RestoreAnswered
    <3> QED
      BY <1>b, <1>c, <3>2, <3>4, <3>5
  <2> QED
    BY <2>1, <2>2
<1> QED
  BY <1>1, <1>2, <1>3, <1>4, <1>5, <1>6, <1>7, <1>8 DEF BackupsDoes, BackupSteps

\* The form that restores a database, and its range, are made of that database's
\* backups once they are loaded, unless requests for two databases crossed or
\* one failed (RangeIsOfSelected).
THEOREM RangeTrue == Spec => []RangeIsOfSelected
<1>1. Init => BackupsInv
  <2>1. Init => view.page = "away"
    BY DEF Init
  <2> QED
    BY <2>1 DEF BackupsInv
<1>2. BackupsInv /\ Base /\ [Next]_vars => BackupsInv'
  <2>1. BackupsInv /\ UNCHANGED vars => BackupsInv'
    BY DEF vars, BackupsInv, OfSelected
  <2> QED
    BY <2>1, BackupsOfOthers, BackupsOfItself
<1>3. BackupsInv => RangeIsOfSelected
  BY DEF BackupsInv, RangeIsOfSelected, RestoreForm, OnBackups, OfSelected
<1> QED
  BY <1>1, <1>2, <1>3, BaseAlways, PTL DEF Spec
-----------------------------------------------------------------------------
(* The way in.                                                             *)

\* Nobody has answered yet that somebody signed in or out.
NoNews == \A i \in Slots : calls[i].op \in {"signIn", "signOut"} => calls[i].stage # "ok"

SessionInv ==
    view.page = "session" =>
      /\ DOMAIN view = DOMAIN SignIn("dashboard")
      /\ (~view.asking /\ ~view.other /\ ~told.lost /\ view.session # None /\ NoNews)
           => view.session = server.cookie

LEMMA SessionServer ==
    ASSUME Base, Next, ~SessionDoes
    PROVE  server'.cookie = server.cookie /\ told'.lost = told.lost
  BY NextOfPages, WhitelistApart, AllowedApart, AddonsApart, KeysApart, ProfileApart,
     BillingApart, BackupsApart, BrowseApart, LeaveApart, ReturnApart, FailApart

LEMMA SessionOfOthers ==
    ASSUME Base, Next, SessionInv, ~SessionDoes
    PROVE  SessionInv'
<1>0. server'.cookie = server.cookie /\ told'.lost = told.lost
  BY SessionServer
<1>1. Of("signIn", "session") /\ Of("signOut", "session")
  BY DEF Of, PageOf, ListOps, AddonOps
<1>2. CASE Foreign("session")
  <2>1. SUFFICES ASSUME view'.page = "session"
                 PROVE  SessionInv'
    BY DEF SessionInv
  <2>2. view' = view
    BY <1>2, <2>1 DEF Foreign
  <2>3. \A i \in Slots :
          \/ /\ calls[i].op \notin {"signIn", "signOut"}
             /\ calls'[i].op \notin {"signIn", "signOut"}
          \/ calls'[i].op = calls[i].op /\ calls'[i].stage = calls[i].stage
    BY <1>1, <1>2, <2>1 DEF Foreign, Same
  <2>4. NoNews' => NoNews
    BY <2>3 DEF NoNews
  <2> QED
    BY <1>0, <2>2, <2>4 DEF SessionInv
<1>3. CASE \E i \in Slots : Fail(i)
  <2>1. PICK i \in Slots : Fail(i)
    BY <1>3
  <2>2. /\ view' = view
        /\ \A j \in Slots \ {i} : calls'[j] = calls[j]
        /\ calls[i].stage = "sent"
    BY <2>1, FailApart
  <2>3. NoNews' => NoNews
    BY <2>2 DEF NoNews
  <2> QED
    BY <1>0, <2>2, <2>3 DEF SessionInv
<1>4. ~(view' \in Areas /\ view'.page = "session")
  BY DEF Areas, Whitelist, Addons, Keys, Profile, Billing, Backups, Browse
<1> QED
  BY <1>2, <1>3, <1>4, NextOrForeign

\* Another page of the dashboard is of the same session.
LEMMA GoToShown ==
    ASSUME NEW v, DOMAIN v = DOMAIN SignIn("dashboard"), NEW at
    PROVE  /\ DOMAIN GoTo(v, at) = DOMAIN SignIn("dashboard")
           /\ GoTo(v, at).page = v.page /\ GoTo(v, at).session = v.session
           /\ GoTo(v, at).asking = v.asking /\ GoTo(v, at).other = v.other
<1>1. PICK where : where = proxy(at)
  OBVIOUS
<1>2. GoTo(v, at) = [v EXCEPT !.at = where, !.typed = "empty", !.error = FALSE,
                              !.loading = FALSE]
  BY <1>1 DEF GoTo
<1> QED
  BY <1>2 DEF SignIn

LEMMA SessionOfItself ==
    ASSUME Base, Next, SessionInv, SessionDoes
    PROVE  SessionInv'
<1>0. CallsHere /\ "page" \in DOMAIN view /\ ServerShaped /\ ToldShaped
  BY DEF Base
\* A step of the page: what it says of the session stays.
<1>a. ASSUME view.page = "session", DOMAIN view' = DOMAIN view, view'.session = view.session,
             view'.asking = view.asking, view'.other = view.other,
             UNCHANGED <<server, told>>, NoNews' => NoNews
      PROVE  SessionInv'
  BY <1>a DEF SessionInv
\* A step after which the page asks again whose the session is.
<1>b. ASSUME view.page = "session", DOMAIN view' = DOMAIN view, view'.asking
      PROVE  SessionInv'
  BY <1>b DEF SessionInv
<1>c. calls' = calls => (NoNews' => NoNews)
  BY DEF NoNews
<1>d. ASSUME NEW op \in SessionOps \ {"none"}, NEW on, Send(op, on), view.page = "session",
             "page" \in DOMAIN view', view'.page = "session"
      PROVE  NoNews' => NoNews
  <2>1. PageOf(op) = "session" /\ op # "none"
    BY DEF PageOf, ListOps, AddonOps, SessionOps, Routes
  <2>2. PICK s \in Slots :
          /\ calls[s].op = "none"
          /\ \A i \in Slots \ {s} : Same(calls'[i], calls[i])
    BY <1>0, <1>d, <2>1, SendHere
  <2> QED
    BY <2>2 DEF NoNews, Same
<1>1. CASE OpenSession
  <2>1. PICK at : view' = SignIn(proxy(at))
    BY <1>1 DEF OpenSession, Open
  <2>2. DOMAIN view' = DOMAIN SignIn("dashboard") /\ view'.asking
    BY <2>1 DEF SignIn
  <2> QED
    BY <2>2 DEF SessionInv
<1>2. CASE useSession
  <2>1. /\ view.page = "session" /\ DOMAIN view = DOMAIN SignIn("dashboard")
        /\ UNCHANGED <<calls, server, told>>
        /\ \/ view' = [view EXCEPT !.asking = FALSE, !.session = server.cookie]
           \/ view' = [view EXCEPT !.asking = FALSE, !.session = None]
    BY <1>2 DEF useSession, OnSession, SessionInv
  <2>2. /\ DOMAIN view' = DOMAIN SignIn("dashboard")
        /\ view'.session = server.cookie \/ view'.session = None
    BY <2>1 DEF SignIn
  <2> QED
    BY <2>1, <2>2 DEF SessionInv
<1>3. CASE AuthGuard
  <2>1. /\ view.page = "session" /\ DOMAIN view = DOMAIN SignIn("dashboard")
        /\ UNCHANGED <<calls, server, told>> /\ view' = GoTo(view, "login")
    BY <1>3 DEF AuthGuard, Guarded, OnSession, SessionInv
  <2> QED
    BY <1>a, <1>c, <2>1, GoToShown
<1>4. CASE OtherDoor
  <2>1. PICK at : Open(GoTo(view, at)) /\ UNCHANGED <<server, told>>
    BY <1>4 DEF OtherDoor
  <2>2. view.page = "session" /\ DOMAIN view = DOMAIN SignIn("dashboard")
    BY <1>4 DEF OtherDoor, AtDoor, OnSession, SessionInv
  <2>3. view' = GoTo(view, at) /\ calls' = [i \in Slots |-> [calls[i] EXCEPT !.live = FALSE]]
    BY <2>1 DEF Open
  <2>4. \A i \in Slots : Same(calls'[i], calls[i])
    BY <1>0, <2>3, OpenHere
  <2>5. NoNews' => NoNews
    BY <2>4 DEF NoNews, Same
  <2> QED
    BY <1>a, <2>1, <2>2, <2>3, <2>5, GoToShown
<1>5. ASSUME NEW what \in Typed, Type(what)
      PROVE  SessionInv'
  <2>1. /\ view.page = "session" /\ DOMAIN view = DOMAIN SignIn("dashboard")
        /\ UNCHANGED <<calls, server, told>> /\ view' = [view EXCEPT !.typed = what]
    BY <1>5 DEF Type, AtDoor, OnSession, SessionInv
  <2>2. /\ DOMAIN view' = DOMAIN view /\ view'.session = view.session
        /\ view'.asking = view.asking /\ view'.other = view.other
    BY <2>1 DEF SignIn
  <2> QED
    BY <1>a, <1>c, <2>1, <2>2
<1>6. CASE handleSignIn
  <2>1. /\ view.page = "session" /\ DOMAIN view = DOMAIN SignIn("dashboard")
        /\ UNCHANGED <<server, told>>
        /\ calls' = calls \/ \E on : Send("signIn", on)
        /\ \/ view' = [view EXCEPT !.error = TRUE]
           \/ view' = [view EXCEPT !.error = FALSE, !.loading = TRUE]
    BY <1>6 DEF handleSignIn, AtDoor, OnSession, SessionInv
  <2>2. /\ DOMAIN view' = DOMAIN view /\ view'.session = view.session
        /\ view'.asking = view.asking /\ view'.other = view.other
        /\ "page" \in DOMAIN view' /\ view'.page = "session"
    BY <2>1 DEF SignIn
  <2>3. NoNews' => NoNews
    <3>1. "signIn" \in SessionOps \ {"none"}
      BY DEF SessionOps
    <3> QED
      BY <1>c, <1>d, <2>1, <2>2, <3>1
  <2> QED
    BY <1>a, <2>1, <2>2, <2>3
<1>7. ASSUME NEW op \in {"signOut"} \cup Routes, Send(op, None), view.page = "session",
             UNCHANGED <<view, server, told>>
      PROVE  SessionInv'
  <2>1. op \in SessionOps \ {"none"}
    BY DEF SessionOps, Routes
  <2>2. NoNews' => NoNews
    BY <1>0, <1>7, <1>d, <2>1
  <2> QED
    BY <1>7, <1>a, <2>2
<1>8. CASE logout
  BY <1>7, <1>8 DEF logout, Shown, Guarded, OnSession
<1>9. ASSUME NEW route \in Routes, AskApi(route)
      PROVE  SessionInv'
  BY <1>7, <1>9 DEF AskApi, Shown, Guarded, OnSession
<1>10. CASE OtherTab
  <2>1. /\ view.page = "session" /\ DOMAIN view = DOMAIN SignIn("dashboard")
        /\ view' = [view EXCEPT !.other = TRUE]
    BY <1>10 DEF OtherTab, OnSession, SessionInv
  <2>2. DOMAIN view' = DOMAIN SignIn("dashboard") /\ view'.other
    BY <2>1 DEF SignIn
  <2> QED
    BY <2>2 DEF SessionInv
<1>11. ASSUME NEW i \in Slots, ServeSignIn(i) \/ ServeSignOut(i)
       PROVE  SessionInv'
  <2>1. /\ calls[i].op \in {"signIn", "signOut"} /\ calls[i].stage = "sent" /\ view' = view
    BY <1>11 DEF ServeSignIn, ServeSignOut, Sent
  <2>2. CASE Refuse(i) /\ told' = told
    <3>1. \A j \in Slots \ {i} : calls'[j] = calls[j]
      BY <1>0, <2>1, <2>2, AgainHere DEF Refuse
    <3>2. NoNews' => NoNews
      BY <2>1, <3>1 DEF NoNews
    <3>3. server' = server
      BY <2>2 DEF Refuse
    <3> QED
      BY <2>1, <2>2, <3>2, <3>3 DEF SessionInv
  <2>3. CASE \E lost : /\ Serve(i, None) /\ told' = [told EXCEPT !.lost = lost]
                       /\ lost = (told.lost \/ Unheard(i))
    <3>1. PICK lost : /\ Serve(i, None) /\ told' = [told EXCEPT !.lost = lost]
                      /\ lost = (told.lost \/ Unheard(i))
      BY <2>3
    <3>2. told'.lost = lost
      BY <1>0, <3>1 DEF ToldShaped
    <3>3. ~told'.lost => calls'[i].stage = "ok"
      BY <3>1, <3>2 DEF Unheard
    <3>4. calls'[i].op = calls[i].op
      BY <2>1, <3>1, ServeHere
    <3>5. ~told'.lost => ~NoNews'
      BY <2>1, <3>3, <3>4 DEF NoNews
    <3> QED
      BY <2>1, <3>5 DEF SessionInv
  <2>4. \/ Refuse(i) /\ told' = told
        \/ \E lost : /\ Serve(i, None) /\ told' = [told EXCEPT !.lost = lost]
                     /\ lost = (told.lost \/ Unheard(i))
    BY <1>11 DEF ServeSignIn, ServeSignOut
  <2> QED
    BY <2>2, <2>3, <2>4
<1>12. ASSUME NEW i \in Slots, Forward(i)
       PROVE  SessionInv'
  <2>1. /\ calls[i].op \in Routes /\ UNCHANGED <<view, server, told>>
        /\ \E stage, got : calls' = [calls EXCEPT ![i].stage = stage, ![i].got = got]
    BY <1>12 DEF Forward
  <2>2. \A j \in Slots \ {i} : calls'[j] = calls[j]
    BY <1>0, <2>1 DEF CallsHere
  <2>3. calls[i].op \notin {"signIn", "signOut"}
    BY <2>1 DEF Routes
  <2>4. NoNews' => NoNews
    BY <2>2, <2>3 DEF NoNews
  <2> QED
    BY <2>1, <2>4 DEF SessionInv
<1>13. ASSUME NEW i \in Slots, Settle(i), UNCHANGED <<server, told>>,
              "page" \in DOMAIN view', view'.page = view.page,
              view.page = "session" =>
                /\ DOMAIN view' = DOMAIN SignIn("dashboard")
                /\ \/ view'.asking
                   \/ /\ view'.session = view.session /\ view'.asking = view.asking
                      /\ view'.other = view.other
                      /\ calls[i].op \in {"signIn", "signOut"} => calls[i].stage # "ok"
       PROVE  SessionInv'
  <2>1. \A j \in Slots \ {i} : calls'[j] = calls[j]
    BY <1>0, <1>13, SettleHere
  <2>2. CASE calls[i].op \in {"signIn", "signOut"} => calls[i].stage # "ok"
    <3>1. NoNews' => NoNews
      BY <2>1, <2>2 DEF NoNews
    <3> QED
      BY <1>13, <3>1 DEF SessionInv
  <2>3. CASE ~(calls[i].op \in {"signIn", "signOut"} => calls[i].stage # "ok")
    BY <1>13, <2>3 DEF SessionInv
  <2> QED
    BY <2>2, <2>3
<1>14. ASSUME NEW i \in Slots, SessionAnswers(i)
       PROVE  SessionInv'
  <2>1. calls[i].op \in SessionOps /\ Settle(i) /\ UNCHANGED <<server, told>>
    BY <1>14 DEF SessionAnswers, SignInAnswered, SignedOut, ApiAnswered, Answered, SessionOps
  <2>2. view.page = "session" => DOMAIN view = DOMAIN SignIn("dashboard")
    BY DEF SessionInv
  <2>3. PICK v : v = GoTo(view, "dashboard")
    OBVIOUS
  <2>4. \/ /\ view.page = "session"
           /\ view' = [v EXCEPT !.asking = TRUE] \/ view' = [view EXCEPT !.asking = TRUE]
        \/ /\ \/ view' = view
              \/ calls[i].live /\ view' = [view EXCEPT !.loading = FALSE, !.error = TRUE]
           /\ view.page = "session" =>
                (calls[i].op \in {"signIn", "signOut"} => calls[i].stage # "ok")
    BY <1>14, <2>3
    DEF SessionAnswers, SignInAnswered, SignedOut, ApiAnswered, Answered, OnSession, Routes
  <2>5. calls[i].live => view.page = "session"
    <3>1. calls[i].op # "none"
      BY <1>14 DEF SessionAnswers, SignInAnswered, SignedOut, ApiAnswered, Answered, Routes
    <3> QED
      BY <1>0, <2>1, <3>1
      DEF CallsHere, CallOf, PageOf, ListOps, AddonOps, SessionOps, Routes
  <2>6. CASE /\ view.page = "session"
             /\ view' = [v EXCEPT !.asking = TRUE] \/ view' = [view EXCEPT !.asking = TRUE]
    <3>1. DOMAIN v = DOMAIN SignIn("dashboard") /\ v.page = "session"
      BY <2>2, <2>3, <2>6, GoToShown
    <3>2. /\ DOMAIN view' = DOMAIN SignIn("dashboard") /\ view'.asking
          /\ view'.page = "session"
      BY <2>2, <2>6, <3>1 DEF SignIn
    <3> QED
      BY <2>2, <2>6, <3>2, <1>b
  <2>7. CASE /\ view' = view
             /\ view.page = "session" =>
                  (calls[i].op \in {"signIn", "signOut"} => calls[i].stage # "ok")
    BY <1>0, <1>13, <2>1, <2>2, <2>7
  <2>8. CASE /\ calls[i].live /\ view' = [view EXCEPT !.loading = FALSE, !.error = TRUE]
             /\ view.page = "session" =>
                  (calls[i].op \in {"signIn", "signOut"} => calls[i].stage # "ok")
    <3>1. view.page = "session" /\ DOMAIN view = DOMAIN SignIn("dashboard")
      BY <2>2, <2>5, <2>8
    <3>2. /\ DOMAIN view' = DOMAIN SignIn("dashboard") /\ "page" \in DOMAIN view'
          /\ view'.page = view.page /\ view'.session = view.session
          /\ view'.asking = view.asking /\ view'.other = view.other
      BY <2>8, <3>1 DEF SignIn
    <3> QED
      BY <1>13, <2>1, <2>8, <3>1, <3>2
  <2> QED
    BY <2>4, <2>6, <2>7, <2>8
<1> QED
  BY <1>1, <1>2, <1>3, <1>4, <1>5, <1>6, <1>8, <1>9, <1>10, <1>11, <1>12, <1>14
  DEF SessionDoes, SessionSteps, SessionApi

\* Where a page of the dashboard is shown, it is shown to the user whose cookie
\* the browser has, once nothing is under way, unless another tab changed it or
\* an answer was lost (ShownIsTheirs).
THEOREM ShownTrue == Spec => []ShownIsTheirs
<1>1. Init => SessionInv
  <2>1. Init => view.page = "away"
    BY DEF Init
  <2> QED
    BY <2>1 DEF SessionInv
<1>2. SessionInv /\ Base /\ [Next]_vars => SessionInv'
  <2>1. SessionInv /\ UNCHANGED vars => SessionInv'
    BY DEF vars, SessionInv, NoNews
  <2> QED
    BY <2>1, SessionOfOthers, SessionOfItself
<1>3. SessionInv => ShownIsTheirs
  <2>1. Quiet({"signIn", "signOut"}) => NoNews
    BY DEF Quiet, UnderWay, NoNews
  <2> QED
    BY <2>1 DEF SessionInv, ShownIsTheirs, Shown, Guarded, OnSession
<1> QED
  BY <1>1, <1>2, <1>3, BaseAlways, PTL DEF Spec
-----------------------------------------------------------------------------
(* Types.  TypeOK says of a call only what every call has; that a page     *)
(* keeps its type when an answer comes needs the type of the answer, and   *)
(* of what the dialog that is open asks about.                             *)

AllViews ==
    WhitelistViews \cup AllowedViews \cup AddonViews \cup KeyViews \cup ProfileViews
      \cup BillingViews \cup BackupViews \cup BrowseViews \cup SessionViews
      \cup [page : {"away"}, back : AwayFrom]

\* A page's state is one of the page's, and what its dialog asks about is known.
ViewTyped(v) ==
    /\ v \in AllViews
    /\ (v.page = "whitelist" /\ v.dialog = "remove") => v.removing \in Cidrs
    /\ (v.page = "backups" /\ v.db = None) => ~v.confirm /\ ~v.error /\ v.asked = {}

OnTyped(op, on) ==
    /\ op \in {"addEntry", "removeEntry", "addIP", "removeIP"} => on \in Cidrs
    /\ op \in {"resizeStorage", "resizeCompute"} => on \in Nat
    /\ op = "setAutoscale" => on \in BOOLEAN
    /\ op = "pay" => on \in 0 .. MaxTier
    /\ op = "restore" => on \in Stores
    /\ op = "signIn" => on[1] \in Users

GotTyped(op, got) ==
    /\ op = "detect" => got \in Cidrs
    /\ op \in ListOps => got \in SUBSET Cidrs

TypedCall(c) ==
    /\ c.op \in Ops /\ c.try \in 1 .. Attempts(c.op)
    /\ c.live \in BOOLEAN /\ c.watched \in BOOLEAN
    /\ OnTyped(c.op, c.on)
    /\ c.stage = "ok" => GotTyped(c.op, c.got)

TypedCalls == \A i \in Slots : TypedCall(calls[i])

Servers == [entries : SUBSET Cidrs, ips : SUBSET Cidrs, gb : 0 .. MaxAmount,
            cu : 0 .. MaxAmount, autoscale : BOOLEAN, tier : 0 .. MaxTier,
            payment : [tier : 0 .. MaxTier, status : Paying \cup {"none"}],
            cookie : Users \cup {None}]

ServerTyped ==
    /\ server \in Servers /\ cache = None /\ told \in [lost : BOOLEAN]

\* A restore that is awaited was asked for with a database selected.
RestoreKnown ==
    (view.page = "backups" /\ view.db = None) =>
        \A i \in Slots : ~(calls[i].op = "restore" /\ calls[i].live)

\* The inductive form of TypeOK.
TypeInv == ViewTyped(view) /\ TypedCalls /\ ServerTyped /\ RestoreKnown

LEMMA ViewOfPage ==
    ASSUME NEW v, v \in AllViews
    PROVE  /\ v.page = "whitelist" => v \in WhitelistViews
           /\ v.page = "allowedIPs" => v \in AllowedViews
           /\ v.page = "storage" => v \in AddonViews
           /\ v.page = "keys" => v \in KeyViews
           /\ v.page = "profile" => v \in ProfileViews
           /\ v.page = "billing" => v \in BillingViews
           /\ v.page = "backups" => v \in BackupViews
           /\ v.page = "browse" => v \in BrowseViews
           /\ v.page = "session" => v \in SessionViews
  BY DEF AllViews, WhitelistViews, AllowedViews, AddonViews, KeyViews, ProfileViews,
         BillingViews, Checkout, BackupViews, BrowseViews, SessionViews

LEMMA TriesOf == \A op : Attempts(op) \in {1, 2}
  BY DEF Attempts

LEMMA NoCallTyped == TypedCall(NoCall)
  BY TriesOf DEF TypedCall, NoCall, Ops, OnTyped, GotTyped, ListOps

LEMMA AgainTyped ==
    ASSUME NEW c, Shaped(c), TypedCall(c), c.stage = "sent"
    PROVE  TypedCall(Again(c))
<1>0. c.try \in Nat /\ Attempts(c.op) \in {1, 2}
  BY TriesOf DEF TypedCall
<1>1. CASE c.try < Attempts(c.op)
  <2>1. Again(c) = [op |-> c.op, on |-> c.on, stage |-> c.stage, try |-> c.try + 1,
                    live |-> c.live, watched |-> c.watched, got |-> c.got]
    BY <1>1 DEF Again, Shaped
  <2>2. c.try + 1 \in 1 .. Attempts(c.op)
    BY <1>0, <1>1
  <2> QED
    BY <2>1, <2>2 DEF TypedCall
<1>2. CASE ~(c.try < Attempts(c.op))
  <2>1. Again(c) = [op |-> c.op, on |-> c.on, stage |-> "failed", try |-> c.try,
                    live |-> c.live, watched |-> c.watched, got |-> c.got]
    BY <1>2 DEF Again, Shaped
  <2> QED
    BY <2>1 DEF TypedCall
<1> QED
  BY <1>1, <1>2

LEMMA OneTyped ==
    ASSUME CallsHere, TypedCalls, NEW i \in Slots, NEW c, TypedCall(c),
           calls' = [calls EXCEPT ![i] = c]
    PROVE  TypedCalls'
<1>1. calls'[i] = c /\ \A j \in Slots \ {i} : calls'[j] = calls[j]
  BY DEF CallsHere
<1> QED
  BY <1>1 DEF TypedCalls

LEMMA AgainCalls ==
    ASSUME CallsHere, TypedCalls, NEW i \in Slots, calls[i].stage = "sent",
           calls' = [calls EXCEPT ![i] = Again(@)]
    PROVE  TypedCalls'
<1>1. TypedCall(Again(calls[i]))
  BY AgainTyped DEF CallsHere, CallOf, TypedCalls
<1>2. calls' = [calls EXCEPT ![i] = Again(calls[i])]
  OBVIOUS
<1> QED
  BY <1>1, <1>2, OneTyped

LEMMA OkCalls ==
    ASSUME CallsHere, TypedCalls, NEW i \in Slots, NEW got, NEW stage,
           stage = "ok" => GotTyped(calls[i].op, got),
           calls' = [calls EXCEPT ![i].stage = stage, ![i].got = got]
    PROVE  TypedCalls'
<1>1. PICK c : c = [op |-> calls[i].op, on |-> calls[i].on, stage |-> stage,
                    try |-> calls[i].try, live |-> calls[i].live,
                    watched |-> calls[i].watched, got |-> got]
  OBVIOUS
<1>2. Shaped(calls[i]) /\ TypedCall(calls[i])
  BY DEF CallsHere, CallOf, TypedCalls
<1>3. TypedCall(c)
  BY <1>1, <1>2 DEF TypedCall
<1>4. calls'[i] = c /\ \A j \in Slots \ {i} : calls'[j] = calls[j]
  BY <1>1, <1>2 DEF CallsHere, Shaped
<1> QED
  BY <1>3, <1>4 DEF TypedCalls

LEMMA ServeCalls ==
    ASSUME CallsHere, TypedCalls, NEW i \in Slots, calls[i].stage = "sent",
           NEW got, GotTyped(calls[i].op, got), Serve(i, got)
    PROVE  TypedCalls'
<1>1. CASE calls' = [calls EXCEPT ![i].stage = "ok", ![i].got = got]
  <2>1. PICK stage : stage = "ok"
    OBVIOUS
  <2>2. calls' = [calls EXCEPT ![i].stage = stage, ![i].got = got]
    BY <1>1, <2>1
  <2> QED
    BY <2>2, OkCalls
<1>2. CASE calls' = [calls EXCEPT ![i] = Again(@)]
  BY <1>2, AgainCalls
<1> QED
  BY <1>1, <1>2 DEF Serve

LEMMA LeftTyped ==
    ASSUME NEW c, Shaped(c), TypedCall(c)
    PROVE  TypedCall([c EXCEPT !.live = FALSE]) /\ ~[c EXCEPT !.live = FALSE].live
<1>1. PICK d : d = [c EXCEPT !.live = FALSE]
  OBVIOUS
<1>2. d = [op |-> c.op, on |-> c.on, stage |-> c.stage, try |-> c.try, live |-> FALSE,
           watched |-> c.watched, got |-> c.got]
  BY <1>1 DEF Shaped
<1>3. /\ d.op = c.op /\ d.on = c.on /\ d.stage = c.stage /\ d.try = c.try
      /\ d.watched = c.watched /\ d.got = c.got
  BY <1>2
<1>4. d.live \in BOOLEAN /\ ~d.live
  BY <1>2
<1>5. TypedCall(d)
  BY <1>3, <1>4 DEF TypedCall
<1> QED
  BY <1>1, <1>4, <1>5

LEMMA OpenCalls ==
    ASSUME CallsHere, TypedCalls, NEW J, J \subseteq Slots,
           calls' = [i \in Slots |-> IF i \in J THEN NoCall
                                     ELSE [calls[i] EXCEPT !.live = FALSE]]
    PROVE  TypedCalls' /\ \A i \in Slots : ~calls'[i].live
<1> SUFFICES ASSUME NEW i \in Slots
             PROVE  TypedCall(calls'[i]) /\ ~calls'[i].live
  BY DEF TypedCalls
<1>1. CASE i \in J
  <2>1. calls'[i] = NoCall
    BY <1>1
  <2> QED
    BY <2>1, NoCallTyped DEF NoCall
<1>2. CASE i \notin J
  <2>1. calls'[i] = [calls[i] EXCEPT !.live = FALSE]
    BY <1>2
  <2>2. Shaped(calls[i]) /\ TypedCall(calls[i])
    BY DEF CallsHere, CallOf, TypedCalls
  <2> QED
    BY <2>1, <2>2, LeftTyped
<1> QED
  BY <1>1, <1>2

LEMMA SentTyped ==
    ASSUME NEW op \in Ops, NEW on, OnTyped(op, on)
    PROVE  TypedCall([op |-> op, on |-> on, stage |-> "sent", try |-> 1, live |-> TRUE,
                      watched |-> TRUE, got |-> None])
<1>1. PICK c : c = [op |-> op, on |-> on, stage |-> "sent", try |-> 1, live |-> TRUE,
                    watched |-> TRUE, got |-> None]
  OBVIOUS
<1>2. c.op = op /\ c.on = on /\ c.stage = "sent" /\ c.try = 1
  BY <1>1
<1>3. c.live \in BOOLEAN /\ c.watched \in BOOLEAN
  BY <1>1
<1>4. 1 \in 1 .. Attempts(op)
  BY TriesOf
<1>5. TypedCall(c)
  BY <1>2, <1>3, <1>4 DEF TypedCall
<1> QED
  BY <1>1, <1>5

LEMMA SendCalls ==
    ASSUME CallsHere, TypedCalls, NEW op \in Ops, NEW on, OnTyped(op, on), Send(op, on)
    PROVE  TypedCalls'
<1> SUFFICES ASSUME NEW i \in Slots
             PROVE  TypedCall(calls'[i])
  BY DEF TypedCalls
<1>1. CASE i = FreeSlot
  <2>1. calls'[i] = [NoCall EXCEPT !.op = op, !.on = on, !.live = TRUE, !.watched = TRUE]
    BY <1>1 DEF Send
  <2>2. calls'[i] = [op |-> op, on |-> on, stage |-> "sent", try |-> 1, live |-> TRUE,
                     watched |-> TRUE, got |-> None]
    BY <2>1 DEF NoCall
  <2> QED
    BY <2>2, SentTyped
<1>2. CASE i # FreeSlot
  <2>1. PICK w \in BOOLEAN : w = (calls[i].watched /\ calls[i].op # op)
    BY DEF TypedCalls, TypedCall
  <2>2. calls'[i] = [calls[i] EXCEPT !.watched = w]
    BY <1>2, <2>1 DEF Send
  <2>3. Shaped(calls[i]) /\ TypedCall(calls[i])
    BY DEF CallsHere, CallOf, TypedCalls
  <2>4. calls'[i] = [op |-> calls[i].op, on |-> calls[i].on, stage |-> calls[i].stage,
                     try |-> calls[i].try, live |-> calls[i].live, watched |-> w,
                     got |-> calls[i].got]
    BY <2>2, <2>3 DEF Shaped
  <2> QED
    BY <2>3, <2>4 DEF TypedCall
<1> QED
  BY <1>1, <1>2

LEMMA SettleCalls ==
    ASSUME CallsHere, TypedCalls, NEW i \in Slots, Settle(i)
    PROVE  TypedCalls'
  BY NoCallTyped, OneTyped DEF Settle

\* The page changes what it shows.
LEMMA QuietTyped ==
    ASSUME TypeInv, ViewTyped(view'), view'.page # "backups",
           UNCHANGED <<calls, server, cache, told>>
    PROVE  TypeInv'
  BY DEF TypeInv, TypedCalls, ServerTyped, RestoreKnown

\* It sends a request, its answer is handled, or the server carries it out.
LEMMA CallTyped ==
    ASSUME TypeInv, ViewTyped(view'), view'.page # "backups", TypedCalls', ServerTyped'
    PROVE  TypeInv'
  BY DEF TypeInv, RestoreKnown

\* The page stays as it is, while a request of it is carried out or answered.
LEMMA SameViewTyped ==
    ASSUME Base, TypeInv, NEW i \in Slots, view' = view, TypedCalls', ServerTyped',
           calls[i].stage = "sent", NEW got, Serve(i, got)
    PROVE  TypeInv'
<1>1. \A j \in Slots : calls'[j].op = calls[j].op /\ calls'[j].live = calls[j].live
  BY ServeHere
<1> QED
  BY <1>1 DEF TypeInv, RestoreKnown

LEMMA SettledViewTyped ==
    ASSUME Base, TypeInv, NEW i \in Slots, view' = view, TypedCalls', ServerTyped', Settle(i)
    PROVE  TypeInv'
<1>1. ~calls'[i].live /\ \A j \in Slots \ {i} : calls'[j] = calls[j]
  BY SettleHere DEF Base
<1> QED
  BY <1>1 DEF TypeInv, RestoreKnown

LEMMA RefuseTyped ==
    ASSUME Base, TypeInv, UNCHANGED <<view, server, cache, told>>, NEW i \in Slots,
           calls[i].stage = "sent", calls' = [calls EXCEPT ![i] = Again(@)]
    PROVE  TypeInv'
<1>1. TypedCalls'
  BY AgainCalls DEF Base, TypeInv
<1>2. \A j \in Slots : calls'[j].op = calls[j].op /\ calls'[j].live = calls[j].live
  BY AgainHere DEF Base
<1>3. ServerTyped'
  BY DEF TypeInv, ServerTyped
<1> QED
  BY <1>1, <1>2, <1>3 DEF TypeInv, RestoreKnown

LEMMA WhitelistShown ==
    ASSUME NEW v, v \in WhitelistViews, v.dialog = "remove" => v.removing \in Cidrs
    PROVE  ViewTyped(v) /\ v.page # "backups"
<1>1. v.page = "whitelist"
  BY DEF WhitelistViews
<1>2. v \in AllViews
  BY DEF AllViews
<1> QED
  BY <1>1, <1>2 DEF ViewTyped

LEMMA WhitelistTyped ==
    ASSUME Base, TypeInv, WhitelistDoes
    PROVE  TypeInv'
<1>0. /\ CallsHere /\ TypedCalls /\ ServerTyped /\ ViewTyped(view) /\ RestoreKnown
      /\ server \in Servers
  BY DEF Base, TypeInv, ServerTyped
<1>1. view.page = "whitelist" =>
        view \in WhitelistViews /\ (view.dialog = "remove" => view.removing \in Cidrs)
  BY <1>0, ViewOfPage DEF ViewTyped
<1>a. ASSUME UNCHANGED <<calls, server, cache, told>>, view' \in WhitelistViews,
             view'.dialog = "remove" => view'.removing \in Cidrs
      PROVE  TypeInv'
  BY <1>a, QuietTyped, WhitelistShown
<1>b. ASSUME NEW op \in {"detect", "addEntry", "removeEntry"}, NEW on, OnTyped(op, on),
             Send(op, on), UNCHANGED <<server, cache, told>>, view' \in WhitelistViews,
             view'.dialog = "remove" => view'.removing \in Cidrs
      PROVE  TypeInv'
  <2>1. op \in Ops
    BY DEF Ops
  <2>2. TypedCalls' /\ ServerTyped'
    BY <1>0, <1>b, <2>1, SendCalls DEF ServerTyped
  <2> QED
    BY <1>b, <2>2, CallTyped, WhitelistShown
<1>3. CASE ShowAdd \/ CloseRemove
  <2>1. /\ view \in WhitelistViews /\ UNCHANGED <<calls, server, cache, told>>
        /\ \/ view' = [view EXCEPT !.dialog = "add"]
           \/ view' = [view EXCEPT !.dialog = "none", !.removing = None]
    BY <1>1, <1>3 DEF ShowAdd, CloseRemove, AllowClick, OnWhitelist
  <2>2. view' \in WhitelistViews /\ view'.dialog # "remove"
    BY <2>1 DEF WhitelistViews
  <2> QED
    BY <1>a, <2>1, <2>2
<1>8. CASE CloseAdd
  <2>1. view \in WhitelistViews /\ UNCHANGED <<calls, server, cache, told>>
    BY <1>1, <1>8 DEF CloseAdd, Adding, OnWhitelist
  <2>2. PICK r \in BOOLEAN : r = (view.reopened \/ view.detecting)
    OBVIOUS
  <2>3. view' = [view EXCEPT !.dialog = "none", !.cidr = None, !.detecting = FALSE,
                             !.reopened = r]
    BY <1>8, <2>1, <2>2 DEF CloseAdd, WhitelistViews
  <2>4. view' \in WhitelistViews /\ view'.dialog # "remove"
    BY <2>1, <2>3 DEF WhitelistViews
  <2> QED
    BY <1>a, <2>1, <2>4
<1>4. ASSUME NEW c \in Cidrs, validateAndSetCidr(c) \/ AskRemove(c)
      PROVE  TypeInv'
  <2>1. /\ view \in WhitelistViews /\ (view.dialog = "remove" => view.removing \in Cidrs)
        /\ UNCHANGED <<calls, server, cache, told>>
        /\ \/ view' = [view EXCEPT !.cidr = c]
           \/ view' = [view EXCEPT !.dialog = "remove", !.removing = c]
    BY <1>1, <1>4 DEF validateAndSetCidr, AskRemove, Adding, AllowClick, OnWhitelist
  <2>2. view' \in WhitelistViews /\ (view'.dialog = "remove" => view'.removing \in Cidrs)
    BY <2>1 DEF WhitelistViews
  <2> QED
    BY <1>a, <2>1, <2>2
<1>5. CASE handleUseCurrentIp \/ handleSubmitEntry \/ handleRemoveEntry
  <2>1. /\ view \in WhitelistViews /\ (view.dialog = "remove" => view.removing \in Cidrs)
        /\ UNCHANGED <<server, cache, told>>
        /\ \/ view' = [view EXCEPT !.detecting = TRUE] /\ Send("detect", None)
           \/ view' = view /\ view.cidr # None /\ Send("addEntry", view.cidr)
           \/ view' = view /\ view.dialog = "remove" /\ Send("removeEntry", view.removing)
    BY <1>1, <1>5 DEF handleUseCurrentIp, handleSubmitEntry, handleRemoveEntry, Adding,
                      OnWhitelist
  <2>2. view' \in WhitelistViews /\ (view'.dialog = "remove" => view'.removing \in Cidrs)
    BY <2>1 DEF WhitelistViews
  <2>3. \E op \in {"detect", "addEntry", "removeEntry"} :
          \E on : OnTyped(op, on) /\ Send(op, on)
    BY <2>1 DEF OnTyped, WhitelistViews
  <2> QED
    BY <1>b, <2>1, <2>2, <2>3
<1>6. ASSUME NEW i \in Slots, Detect(i) \/ ServeAddEntry(i) \/ ServeRemoveEntry(i)
      PROVE  TypeInv'
  <2>1. /\ calls[i].stage = "sent" /\ UNCHANGED <<view, cache, told>>
        /\ \/ calls[i].op = "detect" /\ server' = server /\ \E c \in Cidrs : Serve(i, c)
           \/ /\ calls[i].op = "addEntry" /\ Serve(i, None)
              /\ server' = [server EXCEPT !.entries = @ \cup {calls[i].on}]
           \/ calls[i].op = "removeEntry" /\ server' = server /\ Serve(i, None)
    BY <1>6 DEF Detect, ServeAddEntry, ServeRemoveEntry, Sent
  <2>2. calls[i].op = "addEntry" => calls[i].on \in Cidrs
    BY <1>0 DEF TypedCalls, TypedCall, OnTyped
  <2>3. server' \in Servers
    BY <1>0, <2>1, <2>2 DEF Servers
  <2>4. \E got : GotTyped(calls[i].op, got) /\ Serve(i, got)
    BY <2>1 DEF GotTyped, ListOps
  <2>5. TypedCalls'
    BY <1>0, <2>1, <2>4, ServeCalls
  <2>6. view' = view
    BY <2>1
  <2> QED
    BY <1>0, <2>1, <2>3, <2>5, <2>6, SameViewTyped DEF ServerTyped
<1>2. ASSUME NEW i \in Slots, RefuseAddEntry(i)
      PROVE  TypeInv'
  <2>1. /\ calls[i].stage = "sent" /\ calls' = [calls EXCEPT ![i] = Again(@)]
        /\ UNCHANGED <<view, server, cache, told>>
    BY <1>2 DEF RefuseAddEntry, Refuse, Sent
  <2> QED
    BY <2>1, RefuseTyped
<1>c. ASSUME NEW i \in Slots, calls[i].op \in {"detect", "addEntry", "removeEntry"},
             Settle(i), UNCHANGED <<server, cache, told>>,
             calls[i].live => /\ view' \in WhitelistViews
                              /\ view'.dialog = "remove" => view'.removing \in Cidrs,
             ~calls[i].live => view' = view
      PROVE  TypeInv'
  <2>1. TypedCalls' /\ ServerTyped'
    BY <1>0, <1>c, SettleCalls DEF ServerTyped
  <2>2. CASE calls[i].live
    BY <1>c, <2>1, <2>2, CallTyped, WhitelistShown
  <2>3. CASE ~calls[i].live
    BY <1>c, <2>1, <2>3, SettledViewTyped
  <2> QED
    BY <2>2, <2>3
<1>d. ASSUME NEW i \in Slots, calls[i].op \in {"detect", "addEntry", "removeEntry"},
             calls[i].live
      PROVE  view \in WhitelistViews /\ (view.dialog = "remove" => view.removing \in Cidrs)
  <2>1. view.page = "whitelist"
    BY <1>0, <1>d DEF CallsHere, CallOf, PageOf, ListOps, AddonOps
  <2> QED
    BY <1>1, <2>1
<1>7. ASSUME NEW i \in Slots, Detected(i)
      PROVE  TypeInv'
  <2>1. calls[i].op = "detect" /\ Settle(i) /\ UNCHANGED <<server, cache, told>>
    BY <1>7 DEF Detected, Answered
  <2>2. ASSUME calls[i].live
        PROVE  view' \in WhitelistViews /\ (view'.dialog = "remove" => view'.removing \in Cidrs)
    <3>1. view \in WhitelistViews /\ (view.dialog = "remove" => view.removing \in Cidrs)
      BY <1>d, <2>1, <2>2
    <3>2. PICK c : c = IF calls[i].stage = "ok" THEN calls[i].got ELSE view.cidr
      OBVIOUS
    <3>3. view' = [view EXCEPT !.detecting = FALSE, !.cidr = c]
      BY <1>7, <2>2, <3>1, <3>2 DEF Detected, WhitelistViews
    <3>4. calls[i].stage = "ok" => calls[i].got \in Cidrs
      BY <1>0, <2>1 DEF TypedCalls, TypedCall, GotTyped
    <3>5. c \in Cidrs \cup {None}
      BY <3>1, <3>2, <3>4 DEF WhitelistViews
    <3> QED
      BY <3>1, <3>3, <3>5 DEF WhitelistViews
  <2>3. ~calls[i].live => view' = view
    BY <1>7 DEF Detected
  <2> QED
    BY <1>c, <2>1, <2>2, <2>3
<1>9. ASSUME NEW i \in Slots, EntryAdded(i)
      PROVE  TypeInv'
  <2>1. calls[i].op = "addEntry" /\ Settle(i) /\ UNCHANGED <<server, cache, told>>
    BY <1>9 DEF EntryAdded, Answered
  <2>2. ASSUME calls[i].live
        PROVE  view' \in WhitelistViews /\ (view'.dialog = "remove" => view'.removing \in Cidrs)
    <3>1. view \in WhitelistViews /\ (view.dialog = "remove" => view.removing \in Cidrs)
      BY <1>d, <2>1, <2>2
    <3>2. PICK d : d = IF view.dialog = "add" THEN "none" ELSE view.dialog
      OBVIOUS
    <3>3. view' = view \/ view' = [view EXCEPT !.cidr = None, !.dialog = d]
      BY <1>9, <3>1, <3>2 DEF EntryAdded, WhitelistViews
    <3>4. d \in {"none", "remove"} /\ (d = "remove" => view.dialog = "remove")
      BY <3>1, <3>2 DEF WhitelistViews
    <3> QED
      BY <3>1, <3>3, <3>4 DEF WhitelistViews
  <2>3. ~calls[i].live => view' = view
    BY <1>9 DEF EntryAdded
  <2> QED
    BY <1>c, <2>1, <2>2, <2>3
<1>10. ASSUME NEW i \in Slots, EntryRemoved(i)
       PROVE  TypeInv'
  <2>1. calls[i].op = "removeEntry" /\ Settle(i) /\ UNCHANGED <<server, cache, told>>
    BY <1>10 DEF EntryRemoved, Answered
  <2>2. ASSUME calls[i].live
        PROVE  view' \in WhitelistViews /\ view'.dialog # "remove"
    <3>1. view \in WhitelistViews
      BY <1>d, <2>1, <2>2
    <3>2. PICK d : d = IF view.dialog = "remove" THEN "none" ELSE view.dialog
      OBVIOUS
    <3>3. view' = [view EXCEPT !.removing = None, !.dialog = d]
      BY <1>10, <2>2, <3>1, <3>2 DEF EntryRemoved, WhitelistViews
    <3>4. d \in {"none", "add"}
      BY <3>1, <3>2 DEF WhitelistViews
    <3> QED
      BY <3>1, <3>3, <3>4 DEF WhitelistViews
  <2>3. ~calls[i].live => view' = view
    BY <1>10 DEF EntryRemoved
  <2> QED
    BY <1>c, <2>1, <2>2, <2>3
<1> QED
  BY <1>2, <1>3, <1>4, <1>5, <1>6, <1>7, <1>8, <1>9, <1>10
  DEF WhitelistDoes, WhitelistSteps, WhitelistAnswers, WhitelistApi

\* The pages of which the type says all there is to know.
OtherViews ==
    AllowedViews \cup AddonViews \cup KeyViews \cup ProfileViews \cup BillingViews
      \cup BrowseViews \cup SessionViews

LEMMA OtherShown ==
    ASSUME NEW v \in OtherViews
    PROVE  ViewTyped(v) /\ v.page # "backups"
<1>1. v \in AllViews
  BY DEF OtherViews, AllViews
<1>2. v.page # "backups" /\ v.page # "whitelist"
  BY DEF OtherViews, AllowedViews, AddonViews, KeyViews, ProfileViews, BillingViews, Checkout,
         BrowseViews, SessionViews
<1> QED
  BY <1>1, <1>2 DEF ViewTyped

LEMMA OtherQuiet ==
    ASSUME TypeInv, view' \in OtherViews, UNCHANGED <<calls, server, cache, told>>
    PROVE  TypeInv'
  BY QuietTyped, OtherShown

LEMMA OtherSends ==
    ASSUME Base, TypeInv, view' \in OtherViews, UNCHANGED <<server, cache, told>>,
           NEW op \in Ops, NEW on, OnTyped(op, on), Send(op, on)
    PROVE  TypeInv'
<1>1. TypedCalls' /\ ServerTyped'
  BY SendCalls DEF Base, TypeInv, ServerTyped
<1> QED
  BY <1>1, CallTyped, OtherShown

LEMMA OtherSettles ==
    ASSUME Base, TypeInv, view' = view \/ view' \in OtherViews, UNCHANGED <<server, cache, told>>,
           NEW i \in Slots, Settle(i)
    PROVE  TypeInv'
<1>1. TypedCalls' /\ ServerTyped'
  BY SettleCalls DEF Base, TypeInv, ServerTyped
<1> QED
  BY <1>1, CallTyped, OtherShown, SettledViewTyped

LEMMA ServeTyped ==
    ASSUME Base, TypeInv, view' = view, ServerTyped', NEW i \in Slots, calls[i].stage = "sent",
           NEW got, GotTyped(calls[i].op, got), Serve(i, got)
    PROVE  TypeInv'
<1>1. TypedCalls'
  BY ServeCalls DEF Base, TypeInv
<1> QED
  BY <1>1, SameViewTyped

LEMMA AllowedTyped ==
    ASSUME Base, TypeInv, AllowedDoes
    PROVE  TypeInv'
<1>0. /\ CallsHere /\ TypedCalls /\ server \in Servers
      /\ \A op \in ListOps : op \in Ops
  BY DEF Base, TypeInv, ServerTyped, Ops
<1>1. view.page = "allowedIPs" => view \in AllowedViews
  BY ViewOfPage DEF TypeInv, ViewTyped
<1>2. \A v \in AllowedViews : v \in OtherViews
  BY DEF OtherViews
<1>3. CASE OpenAllowed
  <2>1. PICK trust \in Trust : trust = AskedBeside(ListOps)
    BY AskedAlone DEF Trust
  <2>2. /\ view' = [AllowedPage EXCEPT !.trust = trust]
        /\ Send("ips", "first") /\ UNCHANGED <<server, cache, told>>
    BY <1>3, <2>1 DEF OpenAllowed, fetchIPs
  <2>3. view' \in AllowedViews
    BY <2>2 DEF AllowedPage, AllowedViews
  <2>4. "ips" \in Ops /\ OnTyped("ips", "first")
    BY DEF Ops, ListOps, OnTyped
  <2> QED
    BY <1>2, <2>2, <2>3, <2>4, OtherSends
<1>4. CASE TryAgain
  <2>1. view \in AllowedViews /\ Send("ips", None) /\ UNCHANGED <<server, cache, told>>
    BY <1>1, <1>4 DEF TryAgain, OnAllowed, fetchIPs
  <2>2. PICK trust \in Trust : trust = AskedBeside(ListOps)
    BY AskedAlone DEF Trust
  <2>3. view' = [view EXCEPT !.trust = trust]
    BY <1>4, <2>1, <2>2 DEF TryAgain, AllowedViews
  <2>4. view' \in AllowedViews
    BY <2>1, <2>3 DEF AllowedViews
  <2>5. "ips" \in Ops /\ OnTyped("ips", None)
    BY DEF Ops, ListOps, OnTyped
  <2> QED
    BY <1>2, <2>1, <2>4, <2>5, OtherSends
<1>5. ASSUME NEW ip \in Cidrs, handleAddIP(ip) \/ handleRemoveIP(ip)
      PROVE  TypeInv'
  <2>1. view \in AllowedViews /\ UNCHANGED <<server, cache, told>>
    BY <1>1, <1>5 DEF handleAddIP, handleRemoveIP, OnAllowed
  <2>2. PICK trust \in Trust : trust = AskedBeside(ListOps)
    BY AskedAlone DEF Trust
  <2>3. \/ view' = [view EXCEPT !.adding = TRUE, !.trust = trust] /\ Send("addIP", ip)
        \/ view' = [view EXCEPT !.removing = ip, !.trust = trust] /\ Send("removeIP", ip)
    BY <1>5, <2>1, <2>2 DEF handleAddIP, handleRemoveIP, AllowedViews
  <2>4. view' \in AllowedViews
    BY <2>1, <2>3 DEF AllowedViews
  <2>5. {"addIP", "removeIP"} \subseteq Ops /\ OnTyped("addIP", ip) /\ OnTyped("removeIP", ip)
    BY DEF Ops, ListOps, OnTyped
  <2> QED
    BY <1>2, <2>1, <2>3, <2>4, <2>5, OtherSends
<1>6. ASSUME NEW i \in Slots, ServeIPs(i)
      PROVE  TypeInv'
  <2>1. PICK ips : /\ ips = CASE calls[i].op = "addIP" -> server.ips \cup {calls[i].on}
                              [] calls[i].op = "removeIP" -> server.ips \ {calls[i].on}
                              [] OTHER -> server.ips
                   /\ server' = [server EXCEPT !.ips = ips] /\ Serve(i, ips)
    BY <1>6 DEF ServeIPs
  <2>2. /\ calls[i].op \in ListOps /\ calls[i].stage = "sent" /\ UNCHANGED <<view, cache, told>>
    BY <1>6 DEF ServeIPs
  <2>3. calls[i].op = "addIP" => calls[i].on \in Cidrs
    BY <1>0 DEF TypedCalls, TypedCall, OnTyped
  <2>4. ips \in SUBSET Cidrs
    BY <1>0, <2>1, <2>3 DEF Servers
  <2>5. server' \in Servers
    BY <1>0, <2>1, <2>4 DEF Servers
  <2>6. GotTyped(calls[i].op, ips)
    BY <2>2, <2>4 DEF GotTyped, ListOps
  <2>7. ServerTyped'
    BY <2>2, <2>5 DEF TypeInv, ServerTyped
  <2> QED
    BY <2>1, <2>2, <2>6, <2>7, ServeTyped
<1>7. ASSUME NEW i \in Slots, IPsAnswered(i)
      PROVE  TypeInv'
  <2>1. /\ calls[i].op \in ListOps /\ calls[i].stage # "sent" /\ Settle(i)
        /\ UNCHANGED <<server, cache, told>>
    BY <1>7 DEF IPsAnswered
  <2>2. CASE ~calls[i].live
    BY <1>7, <2>1, <2>2, OtherSettles DEF IPsAnswered
  <2>3. CASE calls[i].live
    <3>0. view.page = PageOf(calls[i].op)
      BY <1>0, <2>3 DEF CallsHere, CallOf
    <3>1. view \in AllowedViews
      BY <1>1, <2>1, <3>0 DEF PageOf, ListOps, AddonOps
    <3>2. calls[i].stage = "ok" => calls[i].got \in SUBSET Cidrs
      BY <1>0, <2>1 DEF TypedCalls, TypedCall, GotTyped
    <3>3. PICK ips \in SUBSET Cidrs : ips = IF calls[i].stage = "ok" THEN calls[i].got ELSE view.ips
      BY <3>1, <3>2 DEF AllowedViews
    <3>4. PICK error \in BOOLEAN :
            error = IF calls[i].op = "ips" THEN calls[i].stage = "failed" ELSE view.error
      BY <3>1 DEF AllowedViews
    <3>5. PICK adding \in BOOLEAN : adding = (view.adding /\ calls[i].op # "addIP")
      BY <3>1 DEF AllowedViews
    <3>6. PICK removing \in Cidrs \cup {None} :
            removing = IF calls[i].op = "removeIP" THEN None ELSE view.removing
      BY <3>1 DEF AllowedViews
    <3>7. PICK trust \in Trust : trust = Heard(i, view.trust)
      BY <3>1 DEF AllowedViews, Heard, Trust
    <3>8. view' = [view EXCEPT !.ips = ips, !.error = error, !.adding = adding,
                               !.removing = removing, !.trust = trust]
      BY <1>7, <2>3, <3>1, <3>3, <3>4, <3>5, <3>6, <3>7 DEF IPsAnswered, AllowedViews
    <3>9. view' \in AllowedViews
      BY <3>1, <3>8 DEF AllowedViews
    <3> QED
      BY <1>2, <2>1, <3>9, OtherSettles
  <2> QED
    BY <2>2, <2>3
<1> QED
  BY <1>3, <1>4, <1>5, <1>6, <1>7 DEF AllowedDoes, AllowedSteps

LEMMA KeysTyped ==
    ASSUME Base, TypeInv, KeysDoes
    PROVE  TypeInv'
<1>0. CallsHere /\ {"makeKey", "revokeKey"} \subseteq Ops
  BY DEF Base, Ops
<1>1. view.page = "keys" => view \in KeyViews
  BY ViewOfPage DEF TypeInv, ViewTyped
<1>2. \A v \in KeyViews : v \in OtherViews /\ OnScreen(v) \in KeyViews
  <2> SUFFICES ASSUME NEW v \in KeyViews
               PROVE  OnScreen(v) \in KeyViews
    BY DEF OtherViews
  <2>1. PICK seen \in SUBSET KeyIds :
          seen = IF v.dialog = "create" THEN v.seen \cup ({v.created} \ {None}) ELSE v.seen
    BY DEF KeyViews
  <2>2. OnScreen(v) = [v EXCEPT !.seen = seen]
    BY <2>1 DEF OnScreen, KeyViews
  <2> QED
    BY <2>1, <2>2 DEF KeyViews
<1>3. CASE ShowCreateKey
  <2>1. PICK v : v = [view EXCEPT !.dialog = "create"]
    OBVIOUS
  <2>2. view \in KeyViews /\ view' = OnScreen(v) /\ UNCHANGED <<calls, server, cache, told>>
    BY <1>1, <1>3, <2>1 DEF ShowCreateKey, KeysClick, OnKeys
  <2>3. v \in KeyViews
    BY <2>1, <2>2 DEF KeyViews
  <2> QED
    BY <1>2, <2>2, <2>3, OtherQuiet
<1>4. CASE CloseKey \/ CloseRevoke
  <2>1. /\ view \in KeyViews /\ UNCHANGED <<calls, server, cache, told>>
        /\ \/ view' = [view EXCEPT !.dialog = "none", !.creating = FALSE, !.created = None]
           \/ view' = [view EXCEPT !.dialog = "none", !.revoking = None]
    BY <1>1, <1>4 DEF CloseKey, CloseRevoke, OnKeys
  <2>2. CASE view' = [view EXCEPT !.dialog = "none", !.creating = FALSE, !.created = None]
    <3>1. view' \in KeyViews
      BY <2>1, <2>2 DEF KeyViews
    <3> QED
      BY <1>2, <2>1, <3>1, OtherQuiet
  <2>3. CASE view' = [view EXCEPT !.dialog = "none", !.revoking = None]
    <3>1. view' \in KeyViews
      BY <2>1, <2>3 DEF KeyViews
    <3> QED
      BY <1>2, <2>1, <3>1, OtherQuiet
  <2> QED
    BY <2>1, <2>2, <2>3
<1>5. ASSUME NEW k \in KeyIds, AskRevoke(k)
      PROVE  TypeInv'
  <2>1. /\ view \in KeyViews /\ UNCHANGED <<calls, server, cache, told>>
        /\ view' = [view EXCEPT !.dialog = "revoke", !.revoking = k]
    BY <1>1, <1>5 DEF AskRevoke, KeysClick, OnKeys
  <2>2. view' \in KeyViews
    BY <2>1 DEF KeyViews
  <2> QED
    BY <1>2, <2>1, <2>2, OtherQuiet
<1>6. CASE handleCreateKey
  <2>1. view \in KeyViews /\ Send("makeKey", None) /\ UNCHANGED <<server, cache, told>>
    BY <1>1, <1>6 DEF handleCreateKey, OnKeys
  <2>2. PICK crossed \in BOOLEAN : crossed = (view.crossed \/ UnderWay("makeKey") # {})
    OBVIOUS
  <2>3. view' = [view EXCEPT !.creating = TRUE, !.crossed = crossed]
    BY <1>6, <2>1, <2>2 DEF handleCreateKey, KeyViews
  <2>4. view' \in KeyViews
    BY <2>1, <2>3 DEF KeyViews
  <2>5. OnTyped("makeKey", None)
    BY DEF OnTyped
  <2> QED
    BY <1>0, <1>2, <2>1, <2>4, <2>5, OtherSends
<1>7. CASE handleRevoke
  <2>1. /\ view \in KeyViews /\ view' = view /\ Send("revokeKey", view.revoking)
        /\ UNCHANGED <<server, cache, told>>
    BY <1>1, <1>7 DEF handleRevoke, OnKeys
  <2>2. PICK on : on = view.revoking
    OBVIOUS
  <2>3. OnTyped("revokeKey", on)
    BY DEF OnTyped
  <2> QED
    BY <1>0, <1>2, <2>1, <2>2, <2>3, OtherSends
<1>8. ASSUME NEW i \in Slots, KeyTimers(i)
      PROVE  TypeInv'
  <2>1. /\ calls[i].op \in {"makeKey", "revokeKey"} /\ Settle(i)
        /\ UNCHANGED <<server, cache, told>>
    <3>1. CASE KeyMade(i)
      BY <3>1 DEF KeyMade, Sent
    <3>2. CASE KeyRevoked(i)
      BY <3>2 DEF KeyRevoked, Sent
    <3> QED
      BY <1>8, <3>1, <3>2 DEF KeyTimers
  <2>2. CASE ~calls[i].live
    <3>1. view' = view
      BY <1>8, <2>2 DEF KeyTimers, KeyMade, KeyRevoked
    <3> QED
      BY <2>1, <3>1, OtherSettles
  <2>3. CASE calls[i].live
    <3>0. view.page = PageOf(calls[i].op)
      BY <1>0, <2>3 DEF CallsHere, CallOf
    <3>1. view \in KeyViews
      BY <1>1, <2>1, <3>0 DEF PageOf, ListOps, AddonOps
    <3>2. CASE KeyMade(i)
      <4>1. PICK k \in {id \in KeyIds : view.status[id] = "none"} :
              view' = OnScreen([view EXCEPT !.created = k, !.creating = FALSE,
                                            !.status[k] = "active"])
        BY <2>3, <3>2 DEF KeyMade
      <4>2. PICK v : v = [view EXCEPT !.created = k, !.creating = FALSE,
                                      !.status[k] = "active"]
        OBVIOUS
      <4>3. v \in KeyViews
        BY <3>1, <4>2 DEF KeyViews
      <4>4. view' \in KeyViews
        BY <1>2, <4>1, <4>2, <4>3
      <4> QED
        BY <1>2, <2>1, <4>4, OtherSettles
    <3>3. CASE KeyRevoked(i)
      <4>1. PICK d : d = IF view.dialog = "revoke" THEN "none" ELSE view.dialog
        OBVIOUS
      <4>2. view' = [view EXCEPT !.status[calls[i].on] = "revoked", !.revoking = None,
                                 !.dialog = d]
        BY <2>3, <3>1, <3>3, <4>1 DEF KeyRevoked, KeyViews
      <4>3. d \in {"none", "create"}
        BY <3>1, <4>1 DEF KeyViews
      <4>4. view' \in KeyViews
        BY <3>1, <4>2, <4>3 DEF KeyViews
      <4> QED
        BY <1>2, <2>1, <4>4, OtherSettles
    <3> QED
      BY <1>8, <3>2, <3>3 DEF KeyTimers
  <2> QED
    BY <2>2, <2>3
<1> QED
  BY <1>3, <1>4, <1>5, <1>6, <1>7, <1>8 DEF KeysDoes, KeySteps

LEMMA ProfileTyped ==
    ASSUME Base, TypeInv, ProfileDoes
    PROVE  TypeInv'
<1>0. CallsHere /\ "saveProfile" \in Ops /\ OnTyped("saveProfile", None)
  BY DEF Base, Ops, OnTyped
<1>1. view.page = "profile" => view \in ProfileViews
  BY ViewOfPage DEF TypeInv, ViewTyped
<1>2. \A v \in ProfileViews : v \in OtherViews
  BY DEF OtherViews
<1>3. CASE EditName \/ CancelEdit
  <2>1. /\ view \in ProfileViews /\ UNCHANGED <<calls, server, cache, told>>
        /\ \/ view' = [view EXCEPT !.editing = TRUE]
           \/ view' = [view EXCEPT !.editing = FALSE, !.name = "own"]
    BY <1>1, <1>3 DEF EditName, CancelEdit, OnProfile
  <2>2. view' \in ProfileViews
    BY <2>1 DEF ProfileViews
  <2> QED
    BY <1>2, <2>1, <2>2, OtherQuiet
<1>4. CASE togglePref
  <2>1. view \in ProfileViews /\ UNCHANGED <<calls, server, cache, told>>
    BY <1>1, <1>4 DEF togglePref, OnProfile
  <2>2. PICK s \in BOOLEAN : s = ~view.security
    OBVIOUS
  <2>3. view' = [view EXCEPT !.security = s]
    BY <1>4, <2>1, <2>2 DEF togglePref, ProfileViews
  <2>4. view' \in ProfileViews
    BY <2>1, <2>3 DEF ProfileViews
  <2> QED
    BY <1>2, <2>1, <2>4, OtherQuiet
<1>5. ASSUME NEW name \in {"own", "typed", "empty"}, TypeName(name)
      PROVE  TypeInv'
  <2>1. /\ view \in ProfileViews /\ UNCHANGED <<calls, server, cache, told>>
        /\ view' = [view EXCEPT !.name = name]
    BY <1>1, <1>5 DEF TypeName, OnProfile
  <2>2. view' \in ProfileViews
    BY <2>1 DEF ProfileViews
  <2> QED
    BY <1>2, <2>1, <2>2, OtherQuiet
<1>6. CASE handleSave
  <2>1. /\ view \in ProfileViews /\ UNCHANGED <<server, cache, told>>
        /\ view' = [view EXCEPT !.saving = TRUE] /\ Send("saveProfile", None)
    BY <1>1, <1>6 DEF handleSave, OnProfile
  <2>2. view' \in ProfileViews
    BY <2>1 DEF ProfileViews
  <2> QED
    BY <1>0, <1>2, <2>1, <2>2, OtherSends
<1>7. ASSUME NEW i \in Slots, Saved(i)
      PROVE  TypeInv'
  <2>1. calls[i].op = "saveProfile" /\ Settle(i) /\ UNCHANGED <<server, cache, told>>
    BY <1>7 DEF Saved, Sent
  <2>2. CASE ~calls[i].live
    BY <1>7, <2>1, <2>2, OtherSettles DEF Saved
  <2>3. CASE calls[i].live
    <3>0. view.page = PageOf(calls[i].op)
      BY <1>0, <2>3 DEF CallsHere, CallOf
    <3>1. view \in ProfileViews
      BY <1>1, <2>1, <3>0 DEF PageOf, ListOps, AddonOps
    <3>2. view' = [view EXCEPT !.saving = FALSE, !.editing = FALSE]
      BY <1>7, <2>3 DEF Saved
    <3>3. view' \in ProfileViews
      BY <3>1, <3>2 DEF ProfileViews
    <3> QED
      BY <1>2, <2>1, <3>3, OtherSettles
  <2> QED
    BY <2>2, <2>3
<1> QED
  BY <1>3, <1>4, <1>5, <1>6, <1>7 DEF ProfileDoes, ProfileSteps

LEMMA AddonsTyped ==
    ASSUME Base, TypeInv, AddonsDoes
    PROVE  TypeInv'
<1>0. /\ CallsHere /\ TypedCalls /\ ServerTyped /\ server \in Servers
      /\ AddonOps \subseteq Ops
  BY DEF Base, TypeInv, ServerTyped, Ops
<1>1. view.page = "storage" => view \in AddonViews
  BY ViewOfPage DEF TypeInv, ViewTyped
<1>2. \A v \in AddonViews : v \in OtherViews
  BY DEF OtherViews
<1>a. ASSUME view \in AddonViews, NEW v \in BOOLEAN
      PROVE  Setting(v) \in AddonViews
  <2>1. PICK trust \in Trust : trust = AskedBeside({"setAutoscale"})
    BY AskedAlone DEF Trust
  <2>2. Setting(v) = [view EXCEPT !.autoscale = v, !.trust = trust]
    BY <1>a, <2>1 DEF Setting, AddonViews
  <2> QED
    BY <1>a, <2>1, <2>2 DEF AddonViews
<1>9. CASE UsageComes \/ UsageFails
  <2>1. /\ UNCHANGED <<calls, server, cache, told>>
        /\ view' = Addons \/ view' = [Addons EXCEPT !.card = TRUE]
    BY <1>9 DEF UsageComes, UsageFails
  <2>2. Addons \in AddonViews
    BY DEF Addons, AddonViews, Trust
  <2>3. \A v \in AddonViews : [v EXCEPT !.card = TRUE] \in AddonViews
    BY DEF AddonViews
  <2>4. view' \in AddonViews
    BY <2>1, <2>2, <2>3
  <2> QED
    BY <1>2, <2>1, <2>4, OtherQuiet
<1>3. CASE Slide
  <2>1. view \in AddonViews /\ UNCHANGED <<calls, server, cache, told>>
    BY <1>1, <1>3 DEF Slide, OnAddons
  <2>2. \E n \in 0 .. 1 : view' = [view EXCEPT !.gb = n] \/ view' = [view EXCEPT !.cu = n]
    BY <1>3 DEF Slide
  <2>3. view' \in AddonViews
    BY <2>1, <2>2 DEF AddonViews
  <2> QED
    BY <1>2, <2>1, <2>3, OtherQuiet
<1>4. CASE Toggle
  <2>1. view \in AddonViews /\ UNCHANGED <<server, cache, told>>
    BY <1>1, <1>4 DEF Toggle, OnAddons
  <2>2. PICK v \in BOOLEAN : v = ~view.autoscale
    OBVIOUS
  <2>3. view' = Setting(v) /\ Send("setAutoscale", v)
    BY <1>4, <2>2 DEF Toggle
  <2>4. view' \in AddonViews
    BY <1>a, <2>1, <2>3
  <2>5. OnTyped("setAutoscale", v) /\ "setAutoscale" \in Ops
    BY DEF OnTyped, Ops, AddonOps
  <2> QED
    BY <1>2, <2>1, <2>3, <2>4, <2>5, OtherSends
<1>5. CASE handleApply
  <2>1. view \in AddonViews /\ UNCHANGED <<server, cache, told>>
    BY <1>1, <1>5, Zenon DEF handleApply, OnAddons
  <2>2. PICK v : v = Setting(view.autoscale)
    OBVIOUS
  <2>3. v \in AddonViews /\ view' = [v EXCEPT !.gb = 0, !.cu = 0]
    <3>1. view.autoscale \in BOOLEAN
      BY <2>1 DEF AddonViews
    <3>2. v \in AddonViews
      BY <1>a, <2>1, <2>2, <3>1
    <3>3. view' = [v EXCEPT !.gb = 0, !.cu = 0]
      BY <1>5, <2>2 DEF handleApply
    <3> QED
      BY <3>2, <3>3
  <2>4. view' \in AddonViews
    <3>1. PICK z \in 0 .. 1 : z = 0
      OBVIOUS
    <3>2. PICK w : w = [v EXCEPT !.gb = z]
      OBVIOUS
    <3>3. w \in AddonViews /\ view' = [w EXCEPT !.cu = z]
      BY <2>3, <3>1, <3>2 DEF AddonViews
    <3> QED
      BY <3>1, <3>3 DEF AddonViews
  <2>5. \A a \in Applied : a[1] \in AddonOps /\ OnTyped(a[1], a[2])
    BY <2>1 DEF Applied, AddonViews, OnTyped, AddonOps
  <2>6. \A i \in Slots : \/ calls'[i] = calls[i]
                          \/ /\ <<calls'[i].op, calls'[i].on>> \in Applied
                             /\ calls'[i].stage = "sent" /\ calls'[i].try = 1
                             /\ calls'[i].live \in BOOLEAN /\ calls'[i].watched \in BOOLEAN
    BY <1>5, ApplySends
  <2>7. ASSUME NEW c, <<c.op, c.on>> \in Applied, c.stage = "sent", c.try = 1,
               c.live \in BOOLEAN, c.watched \in BOOLEAN
        PROVE  TypedCall(c)
    <3>1. c.op \in Ops /\ OnTyped(c.op, c.on)
      BY <1>0, <2>5, <2>7
    <3>2. 1 \in 1 .. Attempts(c.op)
      BY TriesOf
    <3> QED
      BY <2>7, <3>1, <3>2 DEF TypedCall
  <2>8. TypedCalls'
    BY <1>0, <2>6, <2>7 DEF TypedCalls
  <2>9. ServerTyped'
    BY <1>0, <2>1 DEF ServerTyped
  <2> QED
    BY <1>2, <2>4, <2>8, <2>9, CallTyped, OtherShown
<1>6. ASSUME NEW i \in Slots, ServeAddon(i)
      PROVE  TypeInv'
  <2>1. /\ calls[i].op \in AddonOps /\ calls[i].stage = "sent" /\ Serve(i, None)
        /\ UNCHANGED <<view, cache, told>>
    BY <1>6 DEF ServeAddon
  <2>5. OnTyped(calls[i].op, calls[i].on)
    BY <1>0 DEF TypedCalls, TypedCall
  <2>6. server' \in Servers
    <3>0. /\ server.gb \in Nat /\ server.cu \in Nat /\ MaxAmount \in Nat
          /\ server'.gb <= MaxAmount /\ server'.cu <= MaxAmount
      BY <1>0, <1>6, AmountAssumption DEF ServeAddon, Servers
    <3>1. CASE calls[i].op = "setAutoscale"
      <4>1. server' = [server EXCEPT !.autoscale = calls[i].on] /\ calls[i].on \in BOOLEAN
        BY <1>6, <2>5, <3>1 DEF ServeAddon, OnTyped
      <4> QED
        BY <1>0, <4>1 DEF Servers
    <3>2. CASE calls[i].op = "resizeStorage"
      <4>1. calls[i].on \in Nat
        BY <2>5, <3>2 DEF OnTyped
      <4>2. PICK n \in Nat : n = server.gb + calls[i].on
        BY <3>0, <4>1
      <4>3. server' = [server EXCEPT !.gb = n]
        BY <1>0, <1>6, <3>2, <4>2 DEF ServeAddon, Servers
      <4>4. n \in 0 .. MaxAmount
        BY <1>0, <3>0, <4>3 DEF Servers
      <4> QED
        BY <1>0, <4>3, <4>4 DEF Servers
    <3>3. CASE calls[i].op = "resizeCompute"
      <4>1. calls[i].on \in Nat
        BY <2>5, <3>3 DEF OnTyped
      <4>2. PICK n \in Nat : n = server.cu + calls[i].on
        BY <3>0, <4>1
      <4>3. server' = [server EXCEPT !.cu = n]
        BY <1>0, <1>6, <3>3, <4>2 DEF ServeAddon, Servers
      <4>4. n \in 0 .. MaxAmount
        BY <1>0, <3>0, <4>3 DEF Servers
      <4> QED
        BY <1>0, <4>3, <4>4 DEF Servers
    <3> QED
      BY <2>1, <3>1, <3>2, <3>3 DEF AddonOps
  <2>7. ServerTyped'
    BY <1>0, <2>1, <2>6 DEF ServerTyped
  <2>8. GotTyped(calls[i].op, None)
    BY <2>1 DEF GotTyped, ListOps, AddonOps
  <2> QED
    BY <2>1, <2>7, <2>8, ServeTyped
<1>7. ASSUME NEW i \in Slots, RefuseAddon(i)
      PROVE  TypeInv'
  <2>1. /\ calls[i].stage = "sent" /\ calls' = [calls EXCEPT ![i] = Again(@)]
        /\ UNCHANGED <<view, server, cache, told>>
    BY <1>7 DEF RefuseAddon, Refuse, Sent
  <2> QED
    BY <2>1, RefuseTyped
<1>8. ASSUME NEW i \in Slots, AddonAnswered(i)
      PROVE  TypeInv'
  <2>1. calls[i].op \in AddonOps /\ Settle(i) /\ UNCHANGED <<server, cache, told>>
    BY <1>8 DEF AddonAnswered
  <2>2. CASE ~(calls[i].live /\ calls[i].op = "setAutoscale")
    <3>1. view' = view
      BY <1>8, <2>2 DEF AddonAnswered
    <3> QED
      BY <2>1, <3>1, OtherSettles
  <2>3. CASE calls[i].live /\ calls[i].op = "setAutoscale"
    <3>0. view.page = PageOf(calls[i].op)
      BY <1>0, <2>3 DEF CallsHere, CallOf
    <3>1. view \in AddonViews
      BY <1>1, <2>3, <3>0 DEF PageOf, ListOps, AddonOps
    <3>2. PICK trust \in Trust : trust = Heard(i, view.trust)
      BY <3>1 DEF AddonViews, Heard, Trust
    <3>3. view' = [view EXCEPT !.trust = trust]
      BY <1>8, <2>3, <3>1, <3>2 DEF AddonAnswered, AddonViews
    <3>4. view' \in AddonViews
      BY <3>1, <3>3 DEF AddonViews
    <3> QED
      BY <1>2, <2>1, <3>4, OtherSettles
  <2> QED
    BY <2>2, <2>3
<1> QED
  BY <1>3, <1>4, <1>5, <1>6, <1>7, <1>8, <1>9 DEF AddonsDoes, AddonSteps

LEMMA BillingTyped ==
    ASSUME Base, TypeInv, BillingDoes
    PROVE  TypeInv'
<1>0. /\ CallsHere /\ TypedCalls /\ ServerTyped /\ server \in Servers /\ TypeInv
      /\ "pay" \in Ops /\ "confirm" \in Ops
  BY DEF Base, TypeInv, ServerTyped, Ops
<1>1. view.page = "billing" => view \in BillingViews \ {Checkout}
  BY ViewOfPage DEF TypeInv, ViewTyped, Checkout
<1>2. /\ \A v \in BillingViews : v \in OtherViews
      /\ Checkout \in BillingViews
  BY DEF OtherViews, BillingViews
<1>a. \A v \in BillingViews \ {Checkout} :
        v \in [page : {"billing"}, tier : 0 .. MaxTier \cup {None},
               upgrading : 0 .. MaxTier \cup {None}, invoices : {"loading", "list", "error"},
               back : Returns, toast : Toasts]
  BY DEF BillingViews
<1>b. ASSUME view.page = "billing", NEW v,
             v \in [page : {"billing"}, tier : 0 .. MaxTier \cup {None},
                    upgrading : 0 .. MaxTier \cup {None},
                    invoices : {"loading", "list", "error"}, back : Returns, toast : Toasts]
      PROVE  v \in OtherViews
  BY <1>2, <1>b DEF BillingViews
\* The server changes and nothing else does.
<1>c. ASSUME UNCHANGED <<view, calls, cache, told>>, server' \in Servers
      PROVE  TypeInv'
  BY <1>0, <1>c DEF TypeInv, TypedCalls, ServerTyped, RestoreKnown
<1>3. CASE FetchUsage
  <2>1. /\ view.page = "billing" /\ view' = [view EXCEPT !.tier = server.tier]
        /\ UNCHANGED <<calls, server, cache, told>>
    BY <1>3 DEF FetchUsage, OnBilling
  <2>2. server.tier \in 0 .. MaxTier
    BY <1>0 DEF Servers
  <2>3. view' \in OtherViews
    BY <1>1, <1>a, <1>b, <2>1, <2>2
  <2> QED
    BY <2>1, <2>3, OtherQuiet
<1>4. CASE FetchUsageFails \/ FetchInvoices
  <2>0. PICK zero \in 0 .. MaxTier : zero = 0
    BY TierAssumption
  <2>1. /\ view.page = "billing" /\ UNCHANGED <<calls, server, cache, told>>
        /\ \/ view' = [view EXCEPT !.invoices = "list"]
           \/ view' = [view EXCEPT !.invoices = "error"]
           \/ view' = [view EXCEPT !.tier = zero]
    BY <1>4, <2>0 DEF FetchUsageFails, FetchInvoices, OnBilling
  <2>2. view' \in OtherViews
    BY <1>1, <1>a, <1>b, <2>1
  <2> QED
    BY <2>1, <2>2, OtherQuiet
<1>5. CASE AtCheckout
  <2>1. PICK s \in {"pending", "paid", "canceled"} : server' = [server EXCEPT !.payment.status = s]
    BY <1>5 DEF AtCheckout
  <2>2. server' \in Servers
    BY <1>0, <2>1 DEF Servers, Paying
  <2> QED
    BY <1>5, <1>c, <2>2 DEF AtCheckout
<1>6. CASE Webhook
  <2>1. server' \in Servers
    BY <1>0, <1>6 DEF Webhook, Servers
  <2> QED
    BY <1>6, <1>c, <2>1 DEF Webhook
<1>7. CASE HandleReturn
  <2>1. view.page = "billing" /\ UNCHANGED <<server, cache, told>>
    BY <1>7 DEF HandleReturn, OnBilling
  <2>2. CASE view.back = "id"
    <3>1. Send("confirm", None) /\ view' = [view EXCEPT !.back = "none"]
      BY <1>7, <2>2 DEF HandleReturn
    <3>2. view' \in OtherViews
      BY <1>1, <1>a, <1>b, <2>1, <3>1 DEF Returns
    <3>3. OnTyped("confirm", None)
      BY DEF OnTyped
    <3> QED
      BY <1>0, <2>1, <3>1, <3>2, <3>3, OtherSends
  <2>3. CASE view.back # "id"
    <3>1. PICK toast \in {"updated", "notChanged"} :
            toast = IF view.back = "success" THEN "updated" ELSE "notChanged"
      OBVIOUS
    <3>2. view' = [view EXCEPT !.back = "none", !.toast = toast] /\ calls' = calls
      BY <1>1, <1>7, <1>a, <2>1, <2>3, <3>1 DEF HandleReturn
    <3>3. view' \in OtherViews
      BY <1>1, <1>a, <1>b, <2>1, <3>1, <3>2 DEF Returns, Toasts
    <3> QED
      BY <2>1, <3>2, <3>3, OtherQuiet
  <2> QED
    BY <2>2, <2>3
<1>8. ASSUME NEW t \in 1 .. MaxTier, handleUpgrade(t)
      PROVE  TypeInv'
  <2>1. /\ view.page = "billing" /\ Send("pay", t) /\ UNCHANGED <<server, cache, told>>
        /\ view' = [view EXCEPT !.upgrading = t]
    BY <1>8 DEF handleUpgrade, OnBilling
  <2>2. t \in 0 .. MaxTier /\ OnTyped("pay", t)
    BY TierAssumption DEF OnTyped
  <2>3. view' \in OtherViews
    BY <1>1, <1>a, <1>b, <2>1, <2>2
  <2> QED
    BY <1>0, <2>1, <2>2, <2>3, OtherSends
<1>9. ASSUME NEW back \in Returns, ComeBack(back)
      PROVE  TypeInv'
  <2>1. PICK v : v = [Billing EXCEPT !.back = back]
    OBVIOUS
  <2>2. view' = v /\ UNCHANGED <<server, cache, told>>
    BY <1>9, <2>1 DEF ComeBack, Open
  <2>3. v \in BillingViews
    BY <2>1 DEF Billing, BillingViews, Returns, Toasts
  <2>0. PICK J \in SUBSET Slots : J = {}
    OBVIOUS
  <2>4. calls' = [i \in Slots |-> IF i \in J THEN NoCall
                                  ELSE [calls[i] EXCEPT !.live = FALSE]]
    BY <1>9, <2>0 DEF ComeBack, Open
  <2>5. TypedCalls'
    BY <1>0, <2>4, OpenCalls
  <2>6. ServerTyped'
    BY <1>0, <2>2 DEF ServerTyped
  <2> QED
    BY <1>0, <1>2, <2>2, <2>3, <2>5, <2>6, CallTyped, OtherShown
<1>10. ASSUME NEW i \in Slots, ServePay(i)
       PROVE  TypeInv'
  <2>1. /\ calls[i].op = "pay" /\ calls[i].stage = "sent" /\ Serve(i, None)
        /\ server' = [server EXCEPT !.payment = [tier |-> calls[i].on, status |-> "open"]]
        /\ UNCHANGED <<view, cache, told>>
    BY <1>10 DEF ServePay, Sent
  <2>2. calls[i].on \in 0 .. MaxTier
    BY <1>0, <2>1 DEF TypedCalls, TypedCall, OnTyped
  <2>3. server' \in Servers
    BY <1>0, <2>1, <2>2 DEF Servers, Paying
  <2>4. ServerTyped' /\ GotTyped(calls[i].op, None)
    BY <1>0, <2>1, <2>3 DEF ServerTyped, GotTyped, ListOps
  <2> QED
    BY <2>1, <2>4, ServeTyped
<1>11. ASSUME NEW i \in Slots, ServeConfirm(i)
       PROVE  TypeInv'
  <2>1. calls[i].op = "confirm" /\ calls[i].stage = "sent" /\ UNCHANGED <<view, cache, told>>
    BY <1>11 DEF ServeConfirm, Sent
  <2>2. \A got : GotTyped(calls[i].op, got)
    BY <2>1 DEF GotTyped, ListOps
  <2>3. server' \in Servers
    <3>1. server.payment.tier \in 0 .. MaxTier
      BY <1>0 DEF Servers
    <3>2. server' = server \/ server' = [server EXCEPT !.tier = server.payment.tier]
      BY <1>11 DEF ServeConfirm
    <3> QED
      BY <1>0, <3>1, <3>2 DEF Servers
  <2>4. ServerTyped'
    BY <1>0, <2>1, <2>3 DEF ServerTyped
  <2>5. CASE Serve(i, server.payment.status)
    BY <2>1, <2>2, <2>4, <2>5, ServeTyped
  <2>6. CASE calls' = [calls EXCEPT ![i].stage = "ok", ![i].got = "error"]
    <3>1. PICK stage, got : stage = "ok" /\ got = "error"
      OBVIOUS
    <3>2. TypedCalls'
      BY <1>0, <2>2, <2>6, <3>1, OkCalls
    <3>3. calls'[i].op # "restore" /\ \A j \in Slots \ {i} : calls'[j] = calls[j]
      <4>1. Shaped(calls[i])
        BY <1>0 DEF CallsHere, CallOf
      <4>2. calls'[i] = [calls[i] EXCEPT !.stage = "ok", !.got = "error"]
        BY <1>0, <2>6 DEF CallsHere
      <4>3. calls'[i].op = "confirm"
        BY <2>1, <4>1, <4>2 DEF Shaped
      <4> QED
        BY <1>0, <2>6, <4>3 DEF CallsHere
    <3>4. RestoreKnown'
      BY <1>0, <2>1, <3>3 DEF TypeInv, RestoreKnown
    <3> QED
      BY <1>0, <2>1, <2>4, <3>2, <3>4 DEF TypeInv
  <2> QED
    BY <1>11, <2>5, <2>6 DEF ServeConfirm
<1>12. ASSUME NEW i \in Slots, PayAnswered(i)
       PROVE  TypeInv'
  <2>1. calls[i].op = "pay" /\ UNCHANGED <<server, cache, told>>
    BY <1>12 DEF PayAnswered, Answered
  <2>2. CASE calls[i].stage = "ok"
    <3>1. /\ view' = Checkout
          /\ calls' = [j \in Slots |-> IF j \in {i} THEN NoCall
                                       ELSE [calls[j] EXCEPT !.live = FALSE]]
      BY <1>12, <2>2 DEF PayAnswered
    <3>2. TypedCalls'
      BY <1>0, <3>1, OpenCalls
    <3>3. ServerTyped'
      BY <1>0, <2>1 DEF ServerTyped
    <3> QED
      BY <1>0, <1>2, <3>1, <3>2, <3>3, CallTyped, OtherShown
  <2>3. CASE calls[i].stage # "ok"
    <3>1. /\ Settle(i)
          /\ view' = IF calls[i].live THEN [view EXCEPT !.upgrading = None] ELSE view
      BY <1>12, <2>3 DEF PayAnswered
    <3>2. CASE calls[i].live
      <4>0. view.page = PageOf(calls[i].op)
        BY <1>0, <3>2 DEF CallsHere, CallOf
      <4>1. view.page = "billing"
        BY <2>1, <4>0 DEF PageOf, ListOps, AddonOps
      <4>2. view' = [view EXCEPT !.upgrading = None]
        BY <3>1, <3>2
      <4>3. view' \in OtherViews
        BY <1>1, <1>a, <1>b, <4>1, <4>2
      <4> QED
        BY <2>1, <3>1, <4>3, OtherSettles
    <3> QED
      BY <2>1, <3>1, <3>2, OtherSettles
  <2> QED
    BY <2>2, <2>3
<1>13. ASSUME NEW i \in Slots, ConfirmAnswered(i)
       PROVE  TypeInv'
  <2>1. calls[i].op = "confirm" /\ Settle(i) /\ UNCHANGED <<server, cache, told>>
    BY <1>13 DEF ConfirmAnswered, Answered
  <2>2. CASE ~calls[i].live
    BY <1>13, <2>1, <2>2, OtherSettles DEF ConfirmAnswered
  <2>3. CASE calls[i].live
    <3>0. view.page = PageOf(calls[i].op)
      BY <1>0, <2>3 DEF CallsHere, CallOf
    <3>1. view.page = "billing"
      BY <2>1, <3>0 DEF PageOf, ListOps, AddonOps
    <3>2. PICK toast : toast = CASE calls[i].stage = "failed" -> "failed"
                                 [] calls[i].got = "paid" -> "upgraded"
                                 [] calls[i].got = "pending" -> "processing"
                                 [] OTHER -> "updated"
      OBVIOUS
    <3>3. toast \in Toasts
      BY <3>2 DEF Toasts
    <3>4. view' = [view EXCEPT !.toast = toast]
      BY <1>13, <2>3, <3>2 DEF ConfirmAnswered
    <3>5. view' \in OtherViews
      BY <1>1, <1>a, <1>b, <3>1, <3>3, <3>4
    <3> QED
      BY <2>1, <3>5, OtherSettles
  <2> QED
    BY <2>2, <2>3
<1> QED
  BY <1>3, <1>4, <1>5, <1>6, <1>7, <1>8, <1>9, <1>10, <1>11, <1>12, <1>13
  DEF BillingDoes, BillingSteps, BillingAnswers, BillingApi

\* What the page of the backups shows.
Asked(v) ==
    v \in BackupViews /\ (v.db = None => ~v.confirm /\ ~v.error /\ v.asked = {})

LEMMA BackupsShown ==
    ASSUME NEW v, Asked(v)
    PROVE  ViewTyped(v)
<1>1. v.page = "backups" /\ v \in AllViews
  BY DEF Asked, BackupViews, AllViews
<1> QED
  BY <1>1 DEF ViewTyped, Asked

LEMMA AskingTyped ==
    ASSUME NEW v \in BackupViews, v.db # None, NEW ls \in SUBSET Lists, NEW d \in Stores
    PROVE  LET w == Asking(v, ls, d) IN Asked(w) /\ w.db # None
<1>1. PICK crossed \in BOOLEAN :
        crossed = (v.crossed \/ \E a \in v.asked \cup (ls \X {d}) : a[2] # v.db)
  OBVIOUS
<1>2. PICK error \in BOOLEAN : error = (v.error /\ "backups" \notin ls)
  OBVIOUS
<1>3. PICK waits \in [Lists -> BOOLEAN] : waits = [l \in Lists |-> v.loading[l] \/ l \in ls]
  <2>1. [l \in Lists |-> v.loading[l] \/ l \in ls] \in [Lists -> BOOLEAN]
    OBVIOUS
  <2> QED
    BY <2>1
<1>4. PICK w : w = Asking(v, ls, d)
  OBVIOUS
<1>5. PICK asked \in SUBSET (Lists \X Stores) : asked = v.asked \cup (ls \X {d})
  BY DEF BackupViews
<1>6. w = [v EXCEPT !.asked = asked, !.loading = waits, !.error = error, !.crossed = crossed]
  BY <1>1, <1>2, <1>3, <1>4, <1>5 DEF Asking, BackupViews
<1>7. w \in BackupViews /\ w.db = v.db
  BY <1>6 DEF BackupViews
<1> QED
  BY <1>4, <1>7 DEF Asked

LEMMA BackupsTyped ==
    ASSUME Base, TypeInv, BackupsDoes
    PROVE  TypeInv'
<1>0. /\ CallsHere /\ TypedCalls /\ ServerTyped /\ ViewTyped(view) /\ RestoreKnown /\ TypeInv
      /\ "restore" \in Ops
  BY DEF Base, TypeInv, Ops
<1>1. view.page = "backups" => Asked(view)
  BY <1>0, ViewOfPage DEF ViewTyped, Asked
<1>2. StoreAssumption
  BY StoreAssumption
\* The page changes and has a database selected.
<1>a. ASSUME UNCHANGED <<calls, server, cache, told>>, Asked(view'), view'.db # None
      PROVE  TypeInv'
  <2>1. ViewTyped(view')
    BY <1>a, BackupsShown
  <2> QED
    BY <1>0, <1>a, <2>1 DEF TypeInv, TypedCalls, ServerTyped, RestoreKnown
<1>3. ASSUME NEW d \in Stores, SelectDb(d)
      PROVE  TypeInv'
  <2>1. view \in BackupViews /\ UNCHANGED <<calls, server, cache, told>>
    BY <1>1, <1>3 DEF SelectDb, BackupsClick, OnBackups, Asked
  <2>2. PICK v : v = [view EXCEPT !.db = d]
    OBVIOUS
  <2>3. v \in BackupViews /\ v.db # None
    BY <1>2, <2>1, <2>2 DEF BackupViews, StoreAssumption
  <2>4. view' = Asking(v, Lists, d)
    BY <1>3, <2>2 DEF SelectDb
  <2>5. Asked(view') /\ view'.db # None
    BY <2>3, <2>4, AskingTyped
  <2> QED
    BY <1>a, <2>1, <2>5
<1>4. CASE Refresh \/ RetryBackups
  <2>1. /\ Asked(view) /\ UNCHANGED <<calls, server, cache, told>> /\ view.db # None
        /\ \E ls \in SUBSET Lists : view' = Asking(view, ls, view.db)
    BY <1>1, <1>4 DEF Refresh, RetryBackups, BackupsClick, OnBackups, Asked, Lists
  <2>2. view \in BackupViews /\ view.db \in Stores
    BY <2>1 DEF Asked, BackupViews
  <2>3. Asked(view') /\ view'.db # None
    BY <2>1, <2>2, AskingTyped
  <2> QED
    BY <1>a, <2>1, <2>3
<1>5. ASSUME NEW l \in Lists, NEW d \in Stores, ListComes(l, d) \/ ListFails(l, d)
      PROVE  TypeInv'
  <2>1. /\ Asked(view) /\ UNCHANGED <<calls, server, cache, told>>
        /\ <<l, d>> \in view.asked
    BY <1>1, <1>5 DEF ListComes, ListFails, OnBackups
  <2>2. view \in BackupViews /\ view.db # None
    BY <2>1 DEF Asked
  <2>3. PICK error \in BOOLEAN : error = (view.error \/ l = "backups")
    OBVIOUS
  <2>a. PICK asked \in SUBSET (Lists \X Stores) : asked = view.asked \ {<<l, d>>}
    BY <2>2 DEF BackupViews
  <2>b. PICK of \in [Lists -> Stores \cup {None}] : of = [view.of EXCEPT ![l] = d]
    BY <2>2 DEF BackupViews
  <2>c. PICK waits \in [Lists -> BOOLEAN] : waits = [view.loading EXCEPT ![l] = FALSE]
    BY <2>2 DEF BackupViews
  <2>4. \/ view' = [view EXCEPT !.asked = asked, !.of = of, !.loading = waits]
        \/ view' = [view EXCEPT !.asked = asked, !.loading = waits, !.error = error]
    <3>1. CASE ListComes(l, d)
      BY <2>2, <2>a, <2>b, <2>c, <3>1 DEF ListComes, BackupViews
    <3>2. CASE ListFails(l, d)
      BY <2>2, <2>3, <2>a, <2>c, <3>2 DEF ListFails, BackupViews
    <3> QED
      BY <1>5, <3>1, <3>2
  <2>5. view' \in BackupViews /\ view'.db = view.db
    BY ZenonT(60), <2>2, <2>4 DEF BackupViews
  <2> QED
    BY <1>a, <2>1, <2>2, <2>5 DEF Asked
<1>6. CASE PickTime \/ AskRestore \/ CloseConfirmRestore
  <2>1. /\ Asked(view) /\ UNCHANGED <<calls, server, cache, told>> /\ view.db # None
        /\ \/ view' = [view EXCEPT !.time = TRUE]
           \/ view' = [view EXCEPT !.confirm = TRUE]
           \/ view' = [view EXCEPT !.confirm = FALSE]
    BY <1>1, <1>6 DEF PickTime, AskRestore, CloseConfirmRestore, RestoreForm, OnBackups, Asked
  <2>2. view' \in BackupViews /\ view'.db = view.db
    BY <2>1 DEF Asked, BackupViews
  <2> QED
    BY <1>a, <2>1, <2>2 DEF Asked
<1>7. CASE handleRestore
  <2>1. /\ Asked(view) /\ UNCHANGED <<server, cache, told>> /\ view.db # None
        /\ Send("restore", view.db)
        /\ view' = [view EXCEPT !.confirm = FALSE, !.restoring = TRUE]
    BY <1>1, <1>7 DEF handleRestore, OnBackups, Asked
  <2>2. view' \in BackupViews /\ view'.db = view.db /\ view.db \in Stores
    BY <2>1 DEF Asked, BackupViews
  <2>3. ViewTyped(view')
    BY <2>1, <2>2, BackupsShown DEF Asked
  <2>4. OnTyped("restore", view.db)
    BY <2>2 DEF OnTyped
  <2>5. PICK on : on = view.db
    OBVIOUS
  <2>6. TypedCalls'
    BY <1>0, <2>1, <2>4, <2>5, SendCalls
  <2> QED
    BY <1>0, <2>1, <2>2, <2>3, <2>6 DEF TypeInv, ServerTyped, RestoreKnown
<1>8. ASSUME NEW i \in Slots, ServeRestore(i)
      PROVE  TypeInv'
  <2>1. /\ calls[i].op = "restore" /\ calls[i].stage = "sent" /\ Serve(i, None)
        /\ UNCHANGED <<view, server, cache, told>>
    BY <1>8 DEF ServeRestore, Sent
  <2>2. ServerTyped' /\ GotTyped(calls[i].op, None)
    BY <1>0, <2>1 DEF ServerTyped, GotTyped, ListOps
  <2> QED
    BY <2>1, <2>2, ServeTyped
<1>9. ASSUME NEW i \in Slots, RestoreAnswered(i)
      PROVE  TypeInv'
  <2>1. calls[i].op = "restore" /\ Settle(i) /\ UNCHANGED <<server, cache, told>>
    BY <1>9 DEF RestoreAnswered, Answered
  <2>2. CASE ~calls[i].live
    BY <1>9, <2>1, <2>2, OtherSettles DEF RestoreAnswered
  <2>3. CASE calls[i].live
    <3>0. view.page = PageOf(calls[i].op)
      BY <1>0, <2>3 DEF CallsHere, CallOf
    <3>1. view.page = "backups"
      BY <2>1, <3>0 DEF PageOf, ListOps, AddonOps
    <3>2. Asked(view) /\ view \in BackupViews /\ view.db # None
      BY <1>0, <1>1, <2>1, <2>3, <3>1 DEF RestoreKnown, Asked
    <3>3. PICK v : v = [view EXCEPT !.restoring = FALSE]
      OBVIOUS
    <3>4. v \in BackupViews /\ v.db = view.db
      BY <3>2, <3>3 DEF BackupViews
    <3>5. calls[i].on \in Stores
      BY <1>0, <2>1 DEF TypedCalls, TypedCall, OnTyped
    <3>6. view' = v \/ view' = Asking(v, {"restores"}, calls[i].on)
      BY <1>9, <2>3, <3>3 DEF RestoreAnswered
    <3>7. Asked(view') /\ view'.db # None
      <4>1. CASE view' = v
        BY <3>2, <3>4, <4>1 DEF Asked
      <4>2. CASE view' = Asking(v, {"restores"}, calls[i].on)
        BY <3>2, <3>4, <3>5, <4>2, AskingTyped DEF Lists
      <4> QED
        BY <3>6, <4>1, <4>2
    <3>8. TypedCalls'
      BY <1>0, <2>1, SettleCalls
    <3>9. ViewTyped(view')
      BY <3>7, BackupsShown
    <3> QED
      BY <1>0, <2>1, <3>7, <3>8, <3>9 DEF TypeInv, ServerTyped, RestoreKnown
  <2> QED
    BY <2>2, <2>3
<1> QED
  BY <1>3, <1>4, <1>5, <1>6, <1>7, <1>8, <1>9 DEF BackupsDoes, BackupSteps

LEMMA BrowseOpens == Browse \in BrowseViews
<1>1. PICK size \in PageSizes : size = Min(PageSizes)
  BY LeastSize
<1>2. 0 \in 0 .. Schemas /\ 0 \in 0 .. Tables
  BY BrowseAssumption
<1>3. PICK pages \in [0 .. Schemas - 1 -> 0 .. Tables] : pages = [s \in 0 .. Schemas - 1 |-> 0]
  BY <1>2
<1>4. PICK p \in 0 .. Schemas : p = 0
  BY <1>2
<1>5. Browse = [page |-> "browse", dbPage |-> p, size |-> size, schemas |-> "loading",
                expanded |-> {}, table |-> None, columns |-> "none", rows |-> "none",
                tablePage |-> pages, resized |-> FALSE]
  BY <1>1, <1>3, <1>4 DEF Browse
<1> QED
  BY <1>5 DEF BrowseViews, Fetching

LEMMA BrowseTyped ==
    ASSUME Base, TypeInv, BrowseDoes
    PROVE  TypeInv'
<1>1. view.page = "browse" => view \in BrowseViews
  BY ViewOfPage DEF TypeInv, ViewTyped
<1>2. \A v \in BrowseViews : v \in OtherViews
  BY DEF OtherViews
<1>3. /\ UNCHANGED <<calls, server, cache, told>> /\ view \in BrowseViews
  BY <1>1
  DEF BrowseDoes, BrowseSteps, refetchDbs, FetchPart, setDbPageSize, toggleDb,
      handleSelectTable, setTablePage, handleDbPageChange, OnBrowse
<1>a. ASSUME view' \in BrowseViews
      PROVE  TypeInv'
  BY <1>2, <1>3, <1>a, OtherQuiet
<1>4. CASE refetchDbs
  <2>1. view' \in BrowseViews
    BY <1>3, <1>4 DEF refetchDbs, BrowseViews, Fetching
  <2> QED
    BY <1>a, <2>1
<1>5. ASSUME NEW field \in {"schemas", "columns", "rows"}, FetchPart(field)
      PROVE  TypeInv'
  <2>1. PICK s \in Fetching : view' = [view EXCEPT ![field] = s]
    BY <1>5 DEF FetchPart, Fetching
  <2>2. CASE field = "schemas"
    BY <1>3, <1>a, <2>1, <2>2 DEF BrowseViews
  <2>3. CASE field = "columns"
    BY <1>3, <1>a, <2>1, <2>3 DEF BrowseViews
  <2>4. CASE field = "rows"
    BY <1>3, <1>a, <2>1, <2>4 DEF BrowseViews
  <2> QED
    BY <2>2, <2>3, <2>4
<1>6. ASSUME NEW size \in PageSizes, setDbPageSize(size)
      PROVE  TypeInv'
  <2>1. PICK resized \in BOOLEAN : resized = (view.resized \/ view.dbPage > 0)
    OBVIOUS
  <2>2. view' = [view EXCEPT !.size = size, !.schemas = "loading", !.resized = resized]
    BY <1>3, <1>6, <2>1 DEF setDbPageSize, BrowseViews
  <2>3. view' \in BrowseViews
    BY <1>3, <2>2 DEF BrowseViews, Fetching
  <2> QED
    BY <1>a, <2>3
<1>7. ASSUME NEW s \in 0 .. Schemas - 1, toggleDb(s)
      PROVE  TypeInv'
  <2>1. PICK e \in SUBSET (0 .. Schemas - 1) :
          e = IF s \in view.expanded THEN view.expanded \ {s} ELSE view.expanded \cup {s}
    BY <1>3 DEF BrowseViews
  <2>2. PICK v : v = [view EXCEPT !.expanded = e]
    OBVIOUS
  <2>3. v \in BrowseViews
    BY <1>3, <2>2 DEF BrowseViews
  <2>4. \/ view' = v
        \/ view' = [v EXCEPT !.table = None, !.columns = "none", !.rows = "none"]
    BY <1>3, <1>7, <2>1, <2>2 DEF toggleDb, BrowseViews
  <2>5. view' \in BrowseViews
    BY ZenonT(60), <2>3, <2>4 DEF BrowseViews
  <2> QED
    BY <1>a, <2>5
<1>8. ASSUME NEW s \in 0 .. Schemas - 1, NEW t \in 0 .. Tables - 1, handleSelectTable(s, t)
      PROVE  TypeInv'
  <2>1. PICK st \in (0 .. Schemas - 1) \X (0 .. Tables - 1) : st = <<s, t>>
    OBVIOUS
  <2>2. \/ view' = [view EXCEPT !.table = None, !.columns = "none", !.rows = "none"]
        \/ view' = [view EXCEPT !.table = st, !.columns = "loading", !.rows = "loading"]
    BY <1>8, <2>1 DEF handleSelectTable
  <2>3. CASE view' = [view EXCEPT !.table = None, !.columns = "none", !.rows = "none"]
    <3>1. view' \in BrowseViews
      BY <1>3, <2>3 DEF BrowseViews
    <3> QED
      BY <1>a, <3>1
  <2>4. CASE view' = [view EXCEPT !.table = st, !.columns = "loading", !.rows = "loading"]
    <3>1. PICK shown \in ((0 .. Schemas - 1) \X (0 .. Tables - 1)) \cup {None} : shown = st
      OBVIOUS
    <3>2. PICK f \in Fetching : f = "loading"
      BY DEF Fetching
    <3>3. view' = [view EXCEPT !.table = shown, !.columns = f, !.rows = f]
      BY <2>4, <3>1, <3>2
    <3>4. view' \in BrowseViews
      BY <1>3, <3>3 DEF BrowseViews
    <3> QED
      BY <1>a, <3>4
  <2> QED
    BY <2>2, <2>3, <2>4
<1>9. ASSUME NEW s \in 0 .. Schemas - 1, NEW p \in 0 .. Tables, setTablePage(s, p)
      PROVE  TypeInv'
  <2>1. PICK turned \in [0 .. Schemas - 1 -> 0 .. Tables] :
          turned = [view.tablePage EXCEPT ![s] = p]
    BY <1>3 DEF BrowseViews
  <2>2. view' = [view EXCEPT !.tablePage = turned]
    BY <1>9, <2>1 DEF setTablePage
  <2>3. view' \in BrowseViews
    BY <1>3, <2>2 DEF BrowseViews
  <2> QED
    BY <1>a, <2>3
<1>10. ASSUME NEW p \in 0 .. Schemas, handleDbPageChange(p)
       PROVE  TypeInv'
  <2>1. PICK v : v = Browse
    OBVIOUS
  <2>2. v \in BrowseViews
    BY <2>1, BrowseOpens
  <2>3. view' = [v EXCEPT !.size = view.size, !.dbPage = p] /\ view.size \in PageSizes
    BY <1>3, <1>10, <2>1 DEF handleDbPageChange, BrowseViews
  <2>4. view' \in BrowseViews
    BY <2>2, <2>3 DEF BrowseViews
  <2> QED
    BY <1>a, <2>4
<1> QED
  BY <1>4, <1>5, <1>6, <1>7, <1>8, <1>9, <1>10 DEF BrowseDoes, BrowseSteps

LEMMA GoToTyped ==
    ASSUME NEW v \in SessionViews, NEW at \in Doors \cup {"dashboard"}
    PROVE  GoTo(v, at) \in SessionViews
<1>1. PICK door \in Doors \cup {"dashboard"} : door = proxy(at)
  BY DEF proxy, Doors
<1>2. GoTo(v, at) = [v EXCEPT !.at = door, !.typed = "empty", !.error = FALSE,
                              !.loading = FALSE]
  BY <1>1 DEF GoTo
<1> QED
  BY <1>1, <1>2 DEF SessionViews, Typed

LEMMA SessionTyped ==
    ASSUME Base, TypeInv, SessionDoes
    PROVE  TypeInv'
<1>0. /\ CallsHere /\ TypedCalls /\ ServerTyped /\ server \in Servers /\ TypeInv
      /\ "signIn" \in Ops /\ "signOut" \in Ops /\ Routes \subseteq Ops
  BY DEF Base, TypeInv, ServerTyped, Ops
<1>1. view.page = "session" => view \in SessionViews
  BY ViewOfPage DEF TypeInv, ViewTyped
<1>2. \A v \in SessionViews : v \in OtherViews
  BY DEF OtherViews
<1>3. server.cookie \in Users \cup {None}
  BY <1>0 DEF Servers
<1>a. ASSUME NEW v \in SessionViews, Open(v), UNCHANGED <<server, cache, told>>
      PROVE  TypeInv'
  <2>0. PICK J \in SUBSET Slots : J = {}
    OBVIOUS
  <2>1. calls' = [i \in Slots |-> IF i \in J THEN NoCall
                                  ELSE [calls[i] EXCEPT !.live = FALSE]]
    BY <1>a, <2>0 DEF Open
  <2>2. TypedCalls'
    BY <1>0, <2>1, OpenCalls
  <2>3. view' \in OtherViews
    BY <1>2, <1>a DEF Open
  <2>4. ServerTyped'
    BY <1>0, <1>a DEF ServerTyped
  <2> QED
    BY <1>0, <2>2, <2>3, <2>4, CallTyped, OtherShown
<1>b. ASSUME NEW op \in {"signIn", "signOut"} \cup Routes, NEW i \in Slots, calls[i].op = op
      PROVE  \A got : GotTyped(calls[i].op, got)
  BY <1>b DEF GotTyped, ListOps, Routes
<1>4. CASE OpenSession
  <2>1. PICK at \in Doors \cup {"dashboard"} :
          Open(SignIn(proxy(at))) /\ UNCHANGED <<server, cache, told>>
    BY <1>4 DEF OpenSession
  <2>2. PICK v : v = SignIn(proxy(at))
    OBVIOUS
  <2>3. v \in SessionViews
    <3>1. PICK door \in Doors \cup {"dashboard"} : door = proxy(at)
      BY DEF proxy, Doors
    <3>2. v = SignIn(door)
      BY <2>2, <3>1
    <3> QED
      BY <3>2 DEF SignIn, SessionViews, Typed
  <2> QED
    BY <1>a, <2>1, <2>2, <2>3
<1>5. CASE useSession
  <2>1. view \in SessionViews /\ UNCHANGED <<calls, server, cache, told>>
    BY <1>1, <1>5 DEF useSession, OnSession
  <2>2. PICK u \in Users \cup {None} : view' = [view EXCEPT !.asking = FALSE, !.session = u]
    BY <1>3, <1>5 DEF useSession
  <2>3. view' \in SessionViews
    BY <2>1, <2>2 DEF SessionViews
  <2> QED
    BY <1>2, <2>1, <2>3, OtherQuiet
<1>6. CASE AuthGuard
  <2>1. view \in SessionViews /\ view' = GoTo(view, "login")
        /\ UNCHANGED <<calls, server, cache, told>>
    BY <1>1, <1>6 DEF AuthGuard, Guarded, OnSession
  <2>2. view' \in SessionViews
    BY <2>1, GoToTyped DEF Doors
  <2> QED
    BY <1>2, <2>1, <2>2, OtherQuiet
<1>7. CASE OtherDoor
  <2>1. view \in SessionViews
    BY <1>1, <1>7 DEF OtherDoor, AtDoor, OnSession
  <2>2. PICK at \in Doors : Open(GoTo(view, at)) /\ UNCHANGED <<server, cache, told>>
    BY <1>7 DEF OtherDoor
  <2>3. PICK v : v = GoTo(view, at)
    OBVIOUS
  <2>4. v \in SessionViews
    BY <2>1, <2>3, GoToTyped
  <2> QED
    BY <1>a, <2>2, <2>3, <2>4
<1>8. ASSUME NEW what \in Typed, Type(what)
      PROVE  TypeInv'
  <2>1. /\ view \in SessionViews /\ view' = [view EXCEPT !.typed = what]
        /\ UNCHANGED <<calls, server, cache, told>>
    BY <1>1, <1>8 DEF Type, AtDoor, OnSession
  <2>2. view' \in SessionViews
    BY <2>1 DEF SessionViews
  <2> QED
    BY <1>2, <2>1, <2>2, OtherQuiet
<1>9. CASE handleSignIn
  <2>1. view \in SessionViews /\ UNCHANGED <<server, cache, told>>
    BY <1>1, <1>9 DEF handleSignIn, AtDoor, OnSession
  <2>2. CASE view' = [view EXCEPT !.error = TRUE] /\ UNCHANGED calls
    <3>1. view' \in SessionViews
      BY <2>1, <2>2 DEF SessionViews
    <3> QED
      BY <1>2, <2>1, <2>2, <3>1, OtherQuiet
  <2>3. CASE /\ view' = [view EXCEPT !.error = FALSE, !.loading = TRUE]
             /\ \E u \in Users : Send("signIn", <<u, view.typed = "good">>)
    <3>1. view' \in SessionViews
      BY <2>1, <2>3 DEF SessionViews
    <3>2. PICK u \in Users : Send("signIn", <<u, view.typed = "good">>)
      BY <2>3
    <3>3. PICK on : on = <<u, view.typed = "good">>
      OBVIOUS
    <3>4. OnTyped("signIn", on)
      BY <3>3 DEF OnTyped
    <3> QED
      BY <1>0, <1>2, <2>1, <3>1, <3>2, <3>3, <3>4, OtherSends
  <2> QED
    BY <1>9, <2>2, <2>3 DEF handleSignIn
<1>10. CASE logout
  <2>1. /\ view \in SessionViews /\ view' = view /\ UNCHANGED <<server, cache, told>>
        /\ Send("signOut", None)
    BY <1>1, <1>10 DEF logout, Shown, Guarded, OnSession
  <2>2. OnTyped("signOut", None)
    BY DEF OnTyped
  <2> QED
    BY <1>0, <1>2, <2>1, <2>2, OtherSends
<1>11. CASE OtherTab
  <2>1. view \in SessionViews /\ view' = [view EXCEPT !.other = TRUE]
        /\ UNCHANGED <<calls, cache, told>>
    BY <1>1, <1>11 DEF OtherTab, OnSession
  <2>2. PICK u \in Users \cup {None} : server' = [server EXCEPT !.cookie = u]
    BY <1>11 DEF OtherTab
  <2>3. view' \in SessionViews /\ server' \in Servers
    BY <1>0, <2>1, <2>2 DEF SessionViews, Servers
  <2>4. TypedCalls' /\ ServerTyped'
    BY <1>0, <2>1, <2>3 DEF TypedCalls, ServerTyped
  <2> QED
    BY <1>0, <1>2, <2>3, <2>4, CallTyped, OtherShown
<1>12. ASSUME NEW route \in Routes, AskApi(route)
       PROVE  TypeInv'
  <2>1. /\ view \in SessionViews /\ view' = view /\ UNCHANGED <<server, cache, told>>
        /\ Send(route, None)
    BY <1>1, <1>12 DEF AskApi, Shown, Guarded, OnSession
  <2>2. OnTyped(route, None)
    BY DEF OnTyped, Routes
  <2> QED
    BY <1>0, <1>2, <2>1, <2>2, OtherSends
<1>13. ASSUME NEW i \in Slots, ServeSignIn(i)
       PROVE  TypeInv'
  <2>1. calls[i].op = "signIn" /\ calls[i].stage = "sent" /\ UNCHANGED <<view, cache>>
    BY <1>13 DEF ServeSignIn, Sent
  <2>2. CASE calls[i].on[2]
    <3>1. /\ server' = [server EXCEPT !.cookie = calls[i].on[1]] /\ Serve(i, None)
          /\ told' = [told EXCEPT !.lost = @ \/ Unheard(i)]
      BY <1>13, <2>2 DEF ServeSignIn
    <3>2. calls[i].on[1] \in Users
      BY <1>0, <2>1 DEF TypedCalls, TypedCall, OnTyped
    <3>3. server' \in Servers
      BY <1>0, <3>1, <3>2 DEF Servers
    <3>4. PICK lost \in BOOLEAN : lost = (told.lost \/ Unheard(i))
      BY DEF Unheard
    <3>5. told' = [told EXCEPT !.lost = lost]
      BY <3>1, <3>4
    <3>6. told' \in [lost : BOOLEAN]
      BY <1>0, <3>5 DEF ServerTyped
    <3>7. ServerTyped' /\ GotTyped(calls[i].op, None)
      BY <1>0, <1>b, <2>1, <3>3, <3>6 DEF ServerTyped
    <3> QED
      BY <2>1, <3>1, <3>7, ServeTyped
  <2>3. CASE ~calls[i].on[2]
    <3>1. /\ calls' = [calls EXCEPT ![i] = Again(@)]
          /\ UNCHANGED <<view, server, cache, told>>
      BY <1>13, <2>3 DEF ServeSignIn, Refuse
    <3> QED
      BY <2>1, <3>1, RefuseTyped
  <2> QED
    BY <2>2, <2>3
<1>14. ASSUME NEW i \in Slots, ServeSignOut(i)
       PROVE  TypeInv'
  <2>1. /\ calls[i].op = "signOut" /\ calls[i].stage = "sent" /\ UNCHANGED <<view, cache>>
        /\ server' = [server EXCEPT !.cookie = None] /\ Serve(i, None)
        /\ told' = [told EXCEPT !.lost = @ \/ Unheard(i)]
    BY <1>14 DEF ServeSignOut, Sent
  <2>2. server' \in Servers
    BY <1>0, <2>1 DEF Servers
  <2>3. PICK lost \in BOOLEAN : lost = (told.lost \/ Unheard(i))
    BY DEF Unheard
  <2>4. told' = [told EXCEPT !.lost = lost]
    BY <2>1, <2>3
  <2>5. told' \in [lost : BOOLEAN]
    BY <1>0, <2>4 DEF ServerTyped
  <2>6. ServerTyped' /\ GotTyped(calls[i].op, None)
    BY <1>0, <1>b, <2>1, <2>2, <2>5 DEF ServerTyped
  <2> QED
    BY <2>1, <2>6, ServeTyped
<1>15. ASSUME NEW i \in Slots, Forward(i)
       PROVE  TypeInv'
  <2>1. calls[i].op \in Routes /\ UNCHANGED <<view, server, cache, told>>
    BY <1>15 DEF Forward
  <2>2. PICK stage, got : calls' = [calls EXCEPT ![i].stage = stage, ![i].got = got]
    BY <1>15 DEF Forward
  <2>3. GotTyped(calls[i].op, got)
    BY <1>b, <2>1
  <2>4. TypedCalls'
    BY <1>0, <2>2, <2>3, OkCalls
  <2>5. calls'[i].op # "restore" /\ \A j \in Slots \ {i} : calls'[j] = calls[j]
    <3>1. Shaped(calls[i])
      BY <1>0 DEF CallsHere, CallOf
    <3>2. calls'[i] = [calls[i] EXCEPT !.stage = stage, !.got = got]
      BY <1>0, <2>2 DEF CallsHere
    <3>3. calls'[i].op = calls[i].op
      BY <3>1, <3>2 DEF Shaped
    <3> QED
      BY <1>0, <2>1, <2>2, <3>3 DEF CallsHere, Routes
  <2>6. RestoreKnown'
    BY <1>0, <2>1, <2>5 DEF TypeInv, RestoreKnown
  <2> QED
    BY <1>0, <2>1, <2>4, <2>6 DEF TypeInv, ServerTyped
<1>16. ASSUME NEW i \in Slots, SignInAnswered(i)
       PROVE  TypeInv'
  <2>1. calls[i].op = "signIn" /\ Settle(i) /\ UNCHANGED <<server, cache, told>>
    BY <1>16 DEF SignInAnswered, Answered
  <2>2. calls[i].live => view.page = "session"
    <3>1. calls[i].live => view.page = PageOf(calls[i].op)
      BY <1>0 DEF CallsHere, CallOf
    <3> QED
      BY <2>1, <3>1 DEF PageOf, ListOps, AddonOps
  <2>3. PICK v : v = GoTo(view, "dashboard")
    OBVIOUS
  <2>4. \/ view' = view
        \/ view.page = "session" /\ view' = [v EXCEPT !.asking = TRUE]
        \/ view.page = "session" /\ view' = [view EXCEPT !.loading = FALSE, !.error = TRUE]
    BY <1>16, <2>2, <2>3 DEF SignInAnswered, OnSession
  <2>5. view.page = "session" => v \in SessionViews
    BY <1>1, <2>3, GoToTyped
  <2>6. view' = view \/ view' \in SessionViews
    BY <1>1, <2>4, <2>5 DEF SessionViews
  <2> QED
    BY <1>2, <2>1, <2>6, OtherSettles
<1>17. ASSUME NEW i \in Slots, SignedOut(i)
       PROVE  TypeInv'
  <2>1. calls[i].op = "signOut" /\ Settle(i) /\ UNCHANGED <<server, cache, told>>
    BY <1>17 DEF SignedOut, Answered
  <2>2. view' = view \/ (view.page = "session" /\ view' = [view EXCEPT !.asking = TRUE])
    BY <1>17 DEF SignedOut, OnSession
  <2>3. view' = view \/ view' \in SessionViews
    BY <1>1, <2>2 DEF SessionViews
  <2> QED
    BY <1>2, <2>1, <2>3, OtherSettles
<1>18. ASSUME NEW i \in Slots, ApiAnswered(i)
       PROVE  TypeInv'
  <2>1. Settle(i) /\ UNCHANGED <<view, server, cache, told>>
    BY <1>18 DEF ApiAnswered
  <2> QED
    BY <2>1, OtherSettles
<1> QED
  BY <1>4, <1>5, <1>6, <1>7, <1>8, <1>9, <1>10, <1>11, <1>12, <1>13, <1>14, <1>15, <1>16,
     <1>17, <1>18
  DEF SessionDoes, SessionSteps, SessionApi, SessionAnswers

LEMMA AreasTyped ==
    ASSUME NEW a \in Areas
    PROVE  ViewTyped(a) /\ a.page # "away"
<1>1. CASE a = Whitelist
  <2>1. a \in WhitelistViews /\ a.dialog # "remove" /\ a.page = "whitelist"
    BY <1>1 DEF Whitelist, WhitelistViews
  <2> QED
    BY <2>1, WhitelistShown
<1>2. CASE a = Addons
  <2>1. a \in AddonViews /\ a.page = "storage"
    BY <1>2 DEF Addons, AddonViews, Trust
  <2> QED
    BY <2>1 DEF ViewTyped, AllViews
<1>3. CASE a = Keys
  <2>1. PICK st \in [KeyIds -> {"none", "active", "revoked"}] :
          st = [k \in KeyIds |-> IF k \in MockKeys THEN "active" ELSE "none"]
    OBVIOUS
  <2>2. a = [page |-> "keys", dialog |-> "none", status |-> st, creating |-> FALSE,
             created |-> None, revoking |-> None, seen |-> MockKeys, crossed |-> FALSE]
    BY <1>3, <2>1 DEF Keys
  <2>3. a \in KeyViews /\ a.page = "keys"
    BY <2>2, KeyAssumption DEF KeyViews
  <2> QED
    BY <2>3 DEF ViewTyped, AllViews
<1>4. CASE a = Profile
  <2>1. a \in ProfileViews /\ a.page = "profile"
    BY <1>4 DEF Profile, ProfileViews
  <2> QED
    BY <2>1 DEF ViewTyped, AllViews
<1>5. CASE a = Billing
  <2>1. a \in BillingViews /\ a.page = "billing"
    BY <1>5 DEF Billing, BillingViews, Returns, Toasts
  <2> QED
    BY <2>1 DEF ViewTyped, AllViews
<1>6. CASE a = Backups
  <2>1. PICK of \in [Lists -> Stores \cup {None}] : of = [l \in Lists |-> None]
    OBVIOUS
  <2>2. PICK ls \in [Lists -> BOOLEAN] : ls = [l \in Lists |-> FALSE]
    OBVIOUS
  <2>3. a = [page |-> "backups", db |-> None, of |-> of, asked |-> {}, loading |-> ls,
             error |-> FALSE, time |-> FALSE, restoring |-> FALSE, confirm |-> FALSE,
             crossed |-> FALSE]
    BY <1>6, <2>1, <2>2 DEF Backups
  <2>4. /\ a \in BackupViews /\ a.page = "backups"
        /\ ~a.confirm /\ ~a.error /\ a.asked = {}
    BY <2>3 DEF BackupViews
  <2> QED
    BY <2>4 DEF ViewTyped, AllViews
<1>7. CASE a = Browse
  <2>1. a \in BrowseViews /\ a.page = "browse"
    BY <1>7, BrowseOpens DEF BrowseViews
  <2> QED
    BY <2>1 DEF ViewTyped, AllViews
<1> QED
  BY <1>1, <1>2, <1>3, <1>4, <1>5, <1>6, <1>7 DEF Areas

\* Another page: no request is awaited any more.
LEMMA OpenTyped ==
    ASSUME Base, TypeInv, NEW v, ViewTyped(v), Open(v), UNCHANGED <<server, cache, told>>
    PROVE  TypeInv'
<1>1. CallsHere /\ TypedCalls /\ ServerTyped
  BY DEF Base, TypeInv
<1>2. PICK J \in SUBSET Slots : J = {}
  OBVIOUS
<1>3. calls' = [i \in Slots |-> IF i \in J THEN NoCall ELSE [calls[i] EXCEPT !.live = FALSE]]
  BY <1>2 DEF Open
<1>4. TypedCalls' /\ \A i \in Slots : ~calls'[i].live
  BY <1>1, <1>3, OpenCalls
<1>5. ViewTyped(view') /\ ServerTyped'
  BY <1>1 DEF Open, ServerTyped
<1> QED
  BY <1>4, <1>5 DEF TypeInv, RestoreKnown

LEMMA AwayTyped ==
    ASSUME NEW v \in [page : {"away"}, back : AwayFrom]
    PROVE  ViewTyped(v)
<1>1. v \in AllViews /\ v.page = "away"
  BY DEF AllViews
<1> QED
  BY <1>1 DEF ViewTyped

LEMMA LeaveTyped ==
    ASSUME Base, TypeInv, Leave
    PROVE  TypeInv'
<1>1. PICK p \in AwayFrom : p = view.page
  BY DEF Leave
<1>2. [page |-> "away", back |-> p] \in [page : {"away"}, back : AwayFrom]
  OBVIOUS
<1>3. ViewTyped([page |-> "away", back |-> p])
  BY <1>2, AwayTyped
<1>4. Open([page |-> "away", back |-> p]) /\ UNCHANGED <<server, cache, told>>
  BY <1>1 DEF Leave
<1> QED
  BY <1>3, <1>4, OpenTyped

LEMMA ReturnTyped ==
    ASSUME Base, TypeInv, Return
    PROVE  TypeInv'
<1>1. PICK a \in Areas : Open(a)
  BY DEF Return
<1>2. UNCHANGED <<server, cache, told>>
  BY DEF Return
<1> QED
  BY <1>1, <1>2, AreasTyped, OpenTyped

LEMMA FailTyped ==
    ASSUME Base, TypeInv, NEW i \in Slots, Fail(i)
    PROVE  TypeInv'
<1>1. /\ calls[i].stage = "sent" /\ calls' = [calls EXCEPT ![i] = Again(@)]
      /\ UNCHANGED <<view, server, cache, told>>
  BY DEF Fail
<1> QED
  BY <1>1, RefuseTyped

LEMMA TypedInit == Init => TypeInv
<1> SUFFICES ASSUME Init
             PROVE  TypeInv
  OBVIOUS
<1>1. ViewTyped(view) /\ view.page = "away"
  BY AwayTyped DEF Init
<1>2. TypedCalls
  <2>1. calls = [i \in Slots |-> NoCall]
    BY DEF Init
  <2> QED
    BY <2>1, NoCallTyped DEF TypedCalls
<1>3. ServerTyped
  <2>1. 0 \in 0 .. MaxAmount /\ 0 \in 0 .. MaxTier
    BY TierAssumption, AmountAssumption
  <2>2. PICK g \in 0 .. MaxAmount, t \in 0 .. MaxTier : g = 0 /\ t = 0
    BY <2>1
  <2>3. PICK pay \in [tier : 0 .. MaxTier, status : Paying \cup {"none"}] :
          pay = [tier |-> t, status |-> "none"]
    OBVIOUS
  <2>4. server = [entries |-> {}, ips |-> {}, gb |-> g, cu |-> g, autoscale |-> FALSE,
                  tier |-> t, payment |-> pay, cookie |-> None]
    BY <2>2, <2>3 DEF Init
  <2>5. server \in Servers
    BY <2>4 DEF Servers
  <2> QED
    BY <2>5 DEF Init, ServerTyped
<1> QED
  BY <1>1, <1>2, <1>3 DEF TypeInv, RestoreKnown

LEMMA TypedNext == Base /\ TypeInv /\ Next => TypeInv'
  BY NextOfPages, WhitelistTyped, AllowedTyped, KeysTyped, ProfileTyped, AddonsTyped,
     BillingTyped, BackupsTyped, BrowseTyped, SessionTyped, LeaveTyped, ReturnTyped, FailTyped

LEMMA TypedStutter == TypeInv /\ UNCHANGED vars => TypeInv'
<1> SUFFICES ASSUME TypeInv, UNCHANGED vars
             PROVE  TypeInv'
  OBVIOUS
<1>1. UNCHANGED <<view, calls, server, cache, told>>
  BY DEF vars
<1> QED
  BY <1>1 DEF TypeInv, TypedCalls, ServerTyped, RestoreKnown

\* Every page's state is the page's, every request is one of a page with a
\* number of attempts that its kind allows, and what the API stores stays
\* within its bounds.
THEOREM TypeCorrect == Spec => []TypeOK
<1>1. Base /\ TypeInv => TypeOK
  <2> SUFFICES ASSUME Base, TypeInv
               PROVE  TypeOK
    OBVIOUS
  <2>1. ASSUME NEW i \in Slots
        PROVE  /\ DOMAIN calls[i] = DOMAIN NoCall
               /\ calls[i].op \in Ops
               /\ calls[i].stage \in {"sent", "ok", "failed"}
               /\ calls[i].try \in 1 .. Attempts(calls[i].op)
               /\ calls[i].live \in BOOLEAN /\ calls[i].watched \in BOOLEAN
    <3>1. Shaped(calls[i]) /\ TypedCall(calls[i])
      BY DEF Base, CallsHere, CallOf, TypeInv, TypedCalls
    <3>2. DOMAIN calls[i] = DOMAIN NoCall
      BY <3>1 DEF Shaped, NoCall
    <3>3. calls[i].stage \in {"sent", "ok", "failed"}
      BY DEF Base, CallsHere, CallOf
    <3> QED
      BY <3>1, <3>2, <3>3 DEF TypedCall
  <2>2. view \in AllViews /\ server \in Servers /\ cache = None
    BY DEF TypeInv, ViewTyped, ServerTyped
  <2>3. told \in [lost : BOOLEAN] /\ faults \in 0 .. MaxFaults
    BY DEF TypeInv, ServerTyped, Base
  <2> QED
    BY <2>1, <2>2, <2>3 DEF TypeOK, AllViews, Servers
<1>2. Init => TypeInv
  BY TypedInit
<1>3. Base /\ TypeInv /\ [Next]_vars => TypeInv'
  BY TypedNext, TypedStutter
<1> QED
  BY <1>1, <1>2, <1>3, BaseAlways, PTL DEF Spec
-----------------------------------------------------------------------------
(***************************************************************************)
(* What waits does not wait alone: the safety that WaitingEnds rests on,   *)
(* besides fairness.  A page sets what says that it waits in the step that *)
(* sends the request, and a request that is awaited ends in a step that    *)
(* resets it, so that it does not matter how many are under way.           *)
(***************************************************************************)

Awaited(op) == \E i \in Slots : calls[i].op = op /\ calls[i].live

AddWaits == (OnAllowed /\ view.adding) => Awaited("addIP")
MakeWaits == (OnKeys /\ view.creating) => Awaited("makeKey")
SaveWaits == (OnProfile /\ view.saving) => Awaited("saveProfile")
PayWaits == (OnBilling /\ view.upgrading # None) => Awaited("pay")
RestoreWaits == (OnBackups /\ view.restoring) => Awaited("restore")
SignInWaits == (OnSession /\ view.loading) => Awaited("signIn")

WaitsForARequest ==
    /\ AddWaits /\ MakeWaits /\ SaveWaits /\ PayWaits /\ RestoreWaits /\ SignInWaits

\* What is sent is awaited, and so is what was.
LEMMA SendAwaits ==
    ASSUME Base, NEW op, op # "none", NEW on, Send(op, on),
           view'.page = PageOf(op), view.page = view'.page \/ view.page = "away"
    PROVE  Awaited(op)' /\ \A o : Awaited(o) => Awaited(o)'
<1>1. PICK s \in Slots :
        /\ calls[s].op = "none" /\ calls'[s].op = op /\ calls'[s].live
        /\ \A i \in Slots \ {s} : /\ Same(calls'[i], calls[i])
                                  /\ calls'[i].live = calls[i].live
  BY SendHere DEF Base
<1>2. ~calls[s].live
  BY <1>1 DEF Base, CallsHere, CallOf
<1> QED
  BY <1>1, <1>2 DEF Awaited, Same

\* A request that is carried out, or fails once more, is awaited as before.
LEMMA ServeAwaits ==
    ASSUME Base, NEW i \in Slots, calls[i].stage = "sent", view' = view,
           (\E got : Serve(i, got)) \/ Refuse(i)
    PROVE  \A o : Awaited(o) => Awaited(o)'
<1>1. /\ calls'[i].op = calls[i].op /\ calls'[i].live = calls[i].live
      /\ \A j \in Slots \ {i} : calls'[j] = calls[j]
  BY ServeHere, AgainHere DEF Base, Refuse
<1> QED
  BY <1>1 DEF Awaited

\* An answer ends the wait for its own request only.
LEMMA SettleAwaits ==
    ASSUME Base, NEW i \in Slots, Settle(i), view'.page = view.page,
           NEW o, o # calls[i].op \/ ~calls[i].live, Awaited(o)
    PROVE  Awaited(o)'
<1>1. \A j \in Slots \ {i} : calls'[j] = calls[j]
  BY SettleHere DEF Base
<1> QED
  BY <1>1 DEF Awaited

\* A step of another page, and a failure, leave the page and its requests.
LEMMA AwaitsOfOthers ==
    ASSUME Base, NEW page, NEW op, Of(op, page), view'.page = page,
           Foreign(page) \/ \E i \in Slots : Fail(i)
    PROVE  view' = view /\ (Awaited(op) => Awaited(op)')
<1>1. CASE Foreign(page)
  <2>1. view' = view
    BY <1>1 DEF Foreign
  <2>2. ASSUME NEW i \in Slots, calls[i].op = op, calls[i].live
        PROVE  calls'[i].op = op /\ calls'[i].live
    BY <1>1, <2>2 DEF Foreign, Same
  <2> QED
    BY <2>1, <2>2 DEF Awaited
<1>2. CASE \E i \in Slots : Fail(i)
  <2>1. PICK i \in Slots : Fail(i)
    BY <1>2
  <2>2. /\ view' = view
        /\ \A j \in Slots : calls'[j].op = calls[j].op /\ calls'[j].live = calls[j].live
    BY <2>1, FailApart
  <2> QED
    BY <2>2 DEF Awaited
<1> QED
  BY <1>1, <1>2

LEMMA AddWaitsNext ==
    ASSUME Base, TypeInv, Next, AddWaits
    PROVE  AddWaits'
<1> SUFFICES ASSUME view'.page = "allowedIPs", view'.adding
             PROVE  Awaited("addIP")'
  BY DEF AddWaits, OnAllowed
<1>0. "page" \in DOMAIN view /\ (view.page = "allowedIPs" => view \in AllowedViews)
  BY ViewOfPage DEF Base, TypeInv, ViewTyped
<1>00. \A op \in ListOps : PageOf(op) = "allowedIPs" /\ op # "none"
  BY DEF PageOf, ListOps, AddonOps
<1>1. ASSUME NEW op \in ListOps, NEW on, Send(op, on), view.page = "allowedIPs",
             op = "addIP" \/ view'.adding = view.adding
      PROVE  Awaited("addIP")'
  <2>1. Awaited(op)' /\ \A o : Awaited(o) => Awaited(o)'
    BY <1>00, <1>1, SendAwaits
  <2> QED
    BY <1>1, <2>1 DEF AddWaits, OnAllowed
<1>2. CASE AllowedSteps
  <2>1. ~OpenAllowed
    BY DEF OpenAllowed, AllowedPage
  <2>2. CASE TryAgain
    <3>1. /\ view.page = "allowedIPs" /\ Send("ips", None)
          /\ view' = [view EXCEPT !.trust = AskedBeside(ListOps)]
      BY <2>2 DEF TryAgain, OnAllowed, fetchIPs
    <3>2. view'.adding = view.adding
      BY <1>0, <3>1 DEF AllowedViews
    <3> QED
      BY <1>1, <3>1, <3>2 DEF ListOps
  <2>3. ASSUME NEW ip \in Cidrs, handleAddIP(ip)
        PROVE  Awaited("addIP")'
    BY <1>1, <2>3 DEF handleAddIP, OnAllowed, ListOps
  <2>4. ASSUME NEW ip \in Cidrs, handleRemoveIP(ip)
        PROVE  Awaited("addIP")'
    <3>1. /\ view.page = "allowedIPs" /\ Send("removeIP", ip)
          /\ view' = [view EXCEPT !.removing = ip, !.trust = AskedBeside(ListOps)]
      BY <2>4 DEF handleRemoveIP, OnAllowed
    <3>2. view'.adding = view.adding
      BY <1>0, <3>1 DEF AllowedViews
    <3> QED
      BY <1>1, <3>1, <3>2 DEF ListOps
  <2> QED
    BY <1>2, <2>1, <2>2, <2>3, <2>4 DEF AllowedSteps
<1>3. ASSUME NEW i \in Slots, ServeIPs(i)
      PROVE  Awaited("addIP")'
  <2>1. view' = view /\ calls[i].stage = "sent" /\ \E got : Serve(i, got)
    BY <1>3 DEF ServeIPs
  <2> QED
    BY <2>1, ServeAwaits DEF AddWaits, OnAllowed
<1>4. ASSUME NEW i \in Slots, IPsAnswered(i)
      PROVE  Awaited("addIP")'
  <2>1. Settle(i) /\ view'.page = view.page
    BY <1>0, <1>4 DEF IPsAnswered
  <2>2. /\ view.adding
        /\ "addIP" # calls[i].op \/ ~calls[i].live
    <3>1. CASE ~calls[i].live
      BY <1>4, <3>1 DEF IPsAnswered
    <3>2. CASE calls[i].live
      BY <1>0, <1>4, <2>1, <3>2 DEF IPsAnswered, AllowedViews
    <3> QED
      BY <3>1, <3>2
  <2> QED
    BY <2>1, <2>2, SettleAwaits DEF AddWaits, OnAllowed
<1>5. CASE Foreign("allowedIPs") \/ \E i \in Slots : Fail(i)
  <2>1. Of("addIP", "allowedIPs")
    BY <1>00 DEF Of, ListOps
  <2> QED
    BY <1>5, <2>1, AwaitsOfOthers DEF AddWaits, OnAllowed
<1>6. view' \notin Areas
  BY DEF Areas, Whitelist, Addons, Keys, Profile, Billing, Backups, Browse
<1> QED
  BY <1>2, <1>3, <1>4, <1>5, <1>6, NextOrForeign DEF AllowedDoes

LEMMA ShownCreating ==
    ASSUME NEW v, DOMAIN v = DOMAIN Keys
    PROVE  OnScreen(v).creating = v.creating
  BY DEF OnScreen, Keys

LEMMA MakeWaitsNext ==
    ASSUME Base, TypeInv, Next, MakeWaits
    PROVE  MakeWaits'
<1> SUFFICES ASSUME view'.page = "keys", view'.creating
             PROVE  Awaited("makeKey")'
  BY DEF MakeWaits, OnKeys
<1>0. "page" \in DOMAIN view /\ (view.page = "keys" => view \in KeyViews)
  BY ViewOfPage DEF Base, TypeInv, ViewTyped
<1>00. \A op \in {"makeKey", "revokeKey"} : PageOf(op) = "keys"
  BY DEF PageOf, ListOps, AddonOps
<1>1. ASSUME view.page = "keys", calls' = calls, view'.creating = view.creating
      PROVE  Awaited("makeKey")'
  BY <1>1 DEF MakeWaits, OnKeys, Awaited
<1>2. CASE ShowCreateKey
  <2>1. PICK v : v = [view EXCEPT !.dialog = "create"]
    OBVIOUS
  <2>2. view.page = "keys" /\ calls' = calls /\ view' = OnScreen(v)
    BY <1>2, <2>1 DEF ShowCreateKey, KeysClick, OnKeys
  <2>3. DOMAIN v = DOMAIN Keys /\ v.creating = view.creating
    BY <1>0, <2>1, <2>2 DEF KeyViews, Keys
  <2>4. view'.creating = view.creating
    BY <2>2, <2>3, ShownCreating
  <2> QED
    BY <1>1, <2>2, <2>4
<1>3. CASE CloseKey
  <2>1. ~view'.creating
    BY <1>0, <1>3 DEF CloseKey, OnKeys, KeyViews
  <2> QED
    BY <2>1
<1>4. CASE handleCreateKey
  <2>1. view.page = "keys" /\ Send("makeKey", None)
    BY <1>4 DEF handleCreateKey, OnKeys
  <2> QED
    BY <1>00, <2>1, SendAwaits
<1>5. CASE CloseRevoke \/ \E k \in KeyIds : AskRevoke(k)
  <2>1. view.page = "keys" /\ calls' = calls
    BY <1>5 DEF CloseRevoke, AskRevoke, KeysClick, OnKeys
  <2>2. \/ view' = [view EXCEPT !.dialog = "none", !.revoking = None]
        \/ \E k \in KeyIds : view' = [view EXCEPT !.dialog = "revoke", !.revoking = k]
    BY <1>5 DEF CloseRevoke, AskRevoke
  <2>3. view'.creating = view.creating
    BY <1>0, <2>1, <2>2 DEF KeyViews
  <2> QED
    BY <1>1, <2>1, <2>3
<1>6. CASE handleRevoke
  <2>1. view.page = "keys" /\ view' = view /\ \E on : Send("revokeKey", on)
    BY <1>6 DEF handleRevoke, OnKeys
  <2>2. Awaited("makeKey") => Awaited("makeKey")'
    BY <1>00, <2>1, SendAwaits
  <2> QED
    BY <2>1, <2>2 DEF MakeWaits, OnKeys
<1>7. ASSUME NEW i \in Slots, KeyTimers(i)
      PROVE  Awaited("makeKey")'
  <2>1. Settle(i) /\ calls[i].op \in {"makeKey", "revokeKey"}
    BY <1>7 DEF KeyTimers, KeyMade, KeyRevoked, Sent
  <2>2. CASE ~calls[i].live
    <3>1. view' = view
      BY <1>7, <2>2 DEF KeyTimers, KeyMade, KeyRevoked
    <3> QED
      BY <2>1, <2>2, <3>1, SettleAwaits DEF MakeWaits, OnKeys
  <2>3. CASE calls[i].live
    <3>1. view.page = "keys"
      BY <1>00, <2>1, <2>3 DEF Base, CallsHere, CallOf
    <3>2. CASE KeyMade(i)
      <4>1. PICK k \in {id \in KeyIds : view.status[id] = "none"} :
              view' = OnScreen([view EXCEPT !.created = k, !.creating = FALSE,
                                            !.status[k] = "active"])
        BY <2>3, <3>2 DEF KeyMade
      <4>2. PICK v : v = [view EXCEPT !.created = k, !.creating = FALSE,
                                      !.status[k] = "active"]
        OBVIOUS
      <4>3. DOMAIN v = DOMAIN Keys /\ ~v.creating
        BY <1>0, <3>1, <4>2 DEF KeyViews, Keys
      <4>4. ~view'.creating
        BY <4>1, <4>2, <4>3, ShownCreating
      <4> QED
        BY <4>4
    <3>3. CASE KeyRevoked(i)
      <4>1. calls[i].op = "revokeKey"
        BY <3>3 DEF KeyRevoked, Sent
      <4>2. PICK st, d : view' = [view EXCEPT !.status = st, !.revoking = None, !.dialog = d]
        BY <2>3, <3>3 DEF KeyRevoked
      <4>3. view'.creating = view.creating
        BY <1>0, <3>1, <4>2 DEF KeyViews
      <4> QED
        BY <2>1, <3>1, <4>1, <4>3, SettleAwaits DEF MakeWaits, OnKeys
    <3> QED
      BY <1>7, <3>2, <3>3 DEF KeyTimers
  <2> QED
    BY <2>2, <2>3
<1>8. CASE Foreign("keys") \/ \E i \in Slots : Fail(i)
  <2>1. Of("makeKey", "keys")
    BY <1>00 DEF Of
  <2> QED
    BY <1>8, <2>1, AwaitsOfOthers DEF MakeWaits, OnKeys
<1>9. view' \notin Areas
  BY DEF Areas, Whitelist, Addons, Keys, Profile, Billing, Backups, Browse
<1> QED
  BY <1>2, <1>3, <1>4, <1>5, <1>6, <1>7, <1>8, <1>9, NextOrForeign DEF KeysDoes, KeySteps

LEMMA SaveWaitsNext ==
    ASSUME Base, TypeInv, Next, SaveWaits
    PROVE  SaveWaits'
<1> SUFFICES ASSUME view'.page = "profile", view'.saving
             PROVE  Awaited("saveProfile")'
  BY DEF SaveWaits, OnProfile
<1>0. "page" \in DOMAIN view /\ (view.page = "profile" => view \in ProfileViews)
  BY ViewOfPage DEF Base, TypeInv, ViewTyped
<1>00. PageOf("saveProfile") = "profile"
  BY DEF PageOf, ListOps, AddonOps
<1>1. ASSUME view.page = "profile", calls' = calls, view'.saving = view.saving
      PROVE  Awaited("saveProfile")'
  BY <1>1 DEF SaveWaits, OnProfile, Awaited
<1>2. CASE handleSave
  <2>1. view.page = "profile" /\ Send("saveProfile", None)
    BY <1>2 DEF handleSave, OnProfile
  <2> QED
    BY <1>00, <2>1, SendAwaits
<1>3. CASE EditName \/ CancelEdit \/ togglePref \/ \E name : TypeName(name)
  <2>1. view.page = "profile" /\ calls' = calls
    BY <1>3 DEF EditName, CancelEdit, togglePref, TypeName, OnProfile
  <2>2. \/ view' = [view EXCEPT !.editing = TRUE]
        \/ view' = [view EXCEPT !.editing = FALSE, !.name = "own"]
        \/ view' = [view EXCEPT !.security = ~@]
        \/ \E name : view' = [view EXCEPT !.name = name]
    BY <1>3 DEF EditName, CancelEdit, togglePref, TypeName
  <2>3. view'.saving = view.saving
    BY <1>0, <2>1, <2>2 DEF ProfileViews
  <2> QED
    BY <1>1, <2>1, <2>3
<1>4. ASSUME NEW i \in Slots, Saved(i)
      PROVE  Awaited("saveProfile")'
  <2>1. Settle(i) /\ calls[i].op = "saveProfile"
    BY <1>4 DEF Saved, Sent
  <2>2. CASE ~calls[i].live
    <3>1. view' = view
      BY <1>4, <2>2 DEF Saved
    <3> QED
      BY <2>1, <2>2, <3>1, SettleAwaits DEF SaveWaits, OnProfile
  <2>3. CASE calls[i].live
    <3>1. view.page = "profile"
      BY <1>00, <2>1, <2>3 DEF Base, CallsHere, CallOf
    <3>2. ~view'.saving
      BY <1>0, <1>4, <2>3, <3>1 DEF Saved, ProfileViews
    <3> QED
      BY <3>2
  <2> QED
    BY <2>2, <2>3
<1>5. CASE Foreign("profile") \/ \E i \in Slots : Fail(i)
  <2>1. Of("saveProfile", "profile")
    BY <1>00 DEF Of
  <2> QED
    BY <1>5, <2>1, AwaitsOfOthers DEF SaveWaits, OnProfile
<1>6. view' \notin Areas
  BY DEF Areas, Whitelist, Addons, Keys, Profile, Billing, Backups, Browse
<1> QED
  BY <1>2, <1>3, <1>4, <1>5, <1>6, NextOrForeign DEF ProfileDoes, ProfileSteps

LEMMA PayWaitsNext ==
    ASSUME Base, TypeInv, Next, PayWaits
    PROVE  PayWaits'
<1> SUFFICES ASSUME view'.page = "billing", view'.upgrading # None
             PROVE  Awaited("pay")'
  BY DEF PayWaits, OnBilling
<1>0. /\ "page" \in DOMAIN view
      /\ view.page = "billing" => DOMAIN view = DOMAIN Billing
  <2>1. view.page = "billing" => view \in BillingViews
    BY ViewOfPage DEF TypeInv, ViewTyped
  <2> QED
    BY <2>1 DEF Base, BillingViews, Checkout, Billing
<1>00. \A op \in {"pay", "confirm"} : PageOf(op) = "billing"
  BY DEF PageOf, ListOps, AddonOps
<1>1. ASSUME view.page = "billing", calls' = calls, view'.upgrading = view.upgrading
      PROVE  Awaited("pay")'
  BY <1>1 DEF PayWaits, OnBilling, Awaited
<1>2. CASE FetchUsage \/ FetchUsageFails \/ FetchInvoices \/ AtCheckout \/ Webhook
  <2>1. calls' = calls
    BY <1>2 DEF FetchUsage, FetchUsageFails, FetchInvoices, AtCheckout, Webhook
  <2>2. CASE view' = view
    BY <1>1, <2>1, <2>2
  <2>3. CASE view' # view
    <3>1. /\ view.page = "billing"
          /\ \E t, l : \/ view' = [view EXCEPT !.tier = t]
                       \/ view' = [view EXCEPT !.invoices = l]
      BY <1>2, <2>3 DEF FetchUsage, FetchUsageFails, FetchInvoices, AtCheckout, Webhook,
                        OnBilling
    <3>2. view'.upgrading = view.upgrading
      BY <1>0, <3>1 DEF Billing
    <3> QED
      BY <1>1, <2>1, <3>1, <3>2
  <2> QED
    BY <2>2, <2>3
<1>3. CASE HandleReturn
  <2>1. /\ view.page = "billing"
        /\ \/ Send("confirm", None) /\ view' = [view EXCEPT !.back = "none"]
           \/ /\ calls' = calls
              /\ \E t : view' = [view EXCEPT !.back = "none", !.toast = t]
    BY <1>3 DEF HandleReturn, OnBilling
  <2>2. view'.upgrading = view.upgrading
    BY <1>0, <2>1 DEF Billing
  <2>3. CASE Send("confirm", None)
    <3>1. Awaited("pay") => Awaited("pay")'
      BY <1>00, <2>1, <2>3, SendAwaits
    <3> QED
      BY <2>1, <2>2, <3>1 DEF PayWaits, OnBilling
  <2> QED
    BY <1>1, <2>1, <2>2, <2>3
<1>4. ASSUME NEW t \in 1 .. MaxTier, handleUpgrade(t)
      PROVE  Awaited("pay")'
  <2>1. view.page = "billing" /\ Send("pay", t)
    BY <1>4 DEF handleUpgrade, OnBilling
  <2> QED
    BY <1>00, <2>1, SendAwaits
<1>5. ASSUME NEW back, ComeBack(back)
      PROVE  FALSE
  BY <1>5 DEF ComeBack, Open, Billing
<1>6. ASSUME NEW i \in Slots, PayAnswered(i)
      PROVE  Awaited("pay")'
  <2>1. calls[i].op = "pay" /\ view' # Checkout
    BY <1>6 DEF PayAnswered, Answered, Checkout
  <2>2. /\ Settle(i)
        /\ view' = IF calls[i].live THEN [view EXCEPT !.upgrading = None] ELSE view
    BY <1>6, <2>1 DEF PayAnswered
  <2>3. CASE ~calls[i].live
    <3>1. view' = view
      BY <2>2, <2>3
    <3> QED
      BY <2>1, <2>2, <2>3, <3>1, SettleAwaits DEF PayWaits, OnBilling
  <2>4. CASE calls[i].live
    <3>1. view.page = "billing"
      BY <1>00, <2>1, <2>4 DEF Base, CallsHere, CallOf
    <3>2. view'.upgrading = None
      BY <1>0, <2>2, <2>4, <3>1 DEF Billing
    <3> QED
      BY <3>2
  <2> QED
    BY <2>3, <2>4
<1>7. ASSUME NEW i \in Slots, ConfirmAnswered(i)
      PROVE  Awaited("pay")'
  <2>1. /\ calls[i].op = "confirm" /\ Settle(i)
        /\ view' = view \/ (calls[i].live /\ \E t : view' = [view EXCEPT !.toast = t])
    BY <1>7 DEF ConfirmAnswered, Answered
  <2>2. calls[i].live => view.page = "billing"
    BY <1>00, <2>1 DEF Base, CallsHere, CallOf
  <2>3. view.page = "billing" /\ view'.upgrading = view.upgrading
    BY <1>0, <2>1, <2>2 DEF Billing
  <2>4. Awaited("pay")
    BY <2>3 DEF PayWaits, OnBilling
  <2> QED
    BY <2>1, <2>3, <2>4, SettleAwaits
<1>8. ASSUME NEW i \in Slots, BillingApi(i)
      PROVE  Awaited("pay")'
  <2>1. view' = view /\ calls[i].stage = "sent"
    BY <1>8 DEF BillingApi, ServePay, ServeConfirm, Sent
  <2>2. CASE \E got : Serve(i, got)
    BY <2>1, <2>2, ServeAwaits DEF PayWaits, OnBilling
  <2>3. CASE calls' = [calls EXCEPT ![i].stage = "ok", ![i].got = "error"]
    <3>1. \A j \in Slots : calls'[j].op = calls[j].op /\ calls'[j].live = calls[j].live
      BY <2>3 DEF Base, CallsHere, CallOf, Shaped
    <3> QED
      BY <2>1, <3>1 DEF PayWaits, OnBilling, Awaited
  <2> QED
    BY <1>8, <2>2, <2>3 DEF BillingApi, ServePay, ServeConfirm
<1>9. CASE Foreign("billing") \/ \E i \in Slots : Fail(i)
  <2>1. Of("pay", "billing")
    BY <1>00 DEF Of
  <2> QED
    BY <1>9, <2>1, AwaitsOfOthers DEF PayWaits, OnBilling
<1>10. view' \notin Areas
  BY DEF Areas, Whitelist, Addons, Keys, Profile, Billing, Backups, Browse
<1> QED
  BY <1>2, <1>3, <1>4, <1>5, <1>6, <1>7, <1>8, <1>9, <1>10, NextOrForeign
  DEF BillingDoes, BillingSteps, BillingAnswers

LEMMA AskingRestores ==
    ASSUME NEW v, DOMAIN v = DOMAIN Backups, NEW ls, NEW d
    PROVE  Asking(v, ls, d).restoring = v.restoring
<1>1. \E a, w, e, x : Asking(v, ls, d) = [v EXCEPT !.asked = a, !.loading = w, !.error = e,
                                                   !.crossed = x]
  BY DEF Asking
<1> QED
  BY <1>1 DEF Backups

LEMMA GoToLoads ==
    ASSUME NEW v, DOMAIN v = DOMAIN SignIn("dashboard"), NEW at
    PROVE  GoTo(v, at).page = v.page /\ ~GoTo(v, at).loading
<1>1. PICK where : where = proxy(at)
  OBVIOUS
<1>2. GoTo(v, at) = [v EXCEPT !.at = where, !.typed = "empty", !.error = FALSE,
                              !.loading = FALSE]
  BY <1>1 DEF GoTo
<1> QED
  BY <1>2 DEF SignIn

LEMMA RestoreWaitsNext ==
    ASSUME Base, TypeInv, Next, RestoreWaits
    PROVE  RestoreWaits'
<1> SUFFICES ASSUME view'.page = "backups", view'.restoring
             PROVE  Awaited("restore")'
  BY DEF RestoreWaits, OnBackups
<1>0. /\ "page" \in DOMAIN view
      /\ view.page = "backups" => DOMAIN view = DOMAIN Backups
  <2>1. view.page = "backups" => view \in BackupViews
    BY ViewOfPage DEF TypeInv, ViewTyped
  <2> QED
    BY <2>1 DEF Base, BackupViews, Backups
<1>00. PageOf("restore") = "backups"
  BY DEF PageOf, ListOps, AddonOps
<1>1. ASSUME view.page = "backups", calls' = calls, view'.restoring = view.restoring
      PROVE  Awaited("restore")'
  BY <1>1 DEF RestoreWaits, OnBackups, Awaited
<1>2. ASSUME NEW d \in Stores, SelectDb(d)
      PROVE  Awaited("restore")'
  <2>1. PICK v : v = [view EXCEPT !.db = d]
    OBVIOUS
  <2>2. view.page = "backups" /\ calls' = calls /\ view' = Asking(v, Lists, d)
    BY <1>2, <2>1 DEF SelectDb, BackupsClick, OnBackups
  <2>3. DOMAIN v = DOMAIN Backups /\ v.restoring = view.restoring
    BY <1>0, <2>1, <2>2 DEF Backups
  <2>4. view'.restoring = view.restoring
    BY <2>2, <2>3, AskingRestores
  <2> QED
    BY <1>1, <2>2, <2>4
<1>3. CASE Refresh \/ RetryBackups
  <2>1. /\ view.page = "backups" /\ calls' = calls
        /\ \E ls, d : view' = Asking(view, ls, d)
    BY <1>3 DEF Refresh, RetryBackups, BackupsClick, OnBackups
  <2>2. view'.restoring = view.restoring
    BY <1>0, <2>1, AskingRestores
  <2> QED
    BY <1>1, <2>1, <2>2
<1>4. CASE PickTime \/ AskRestore \/ CloseConfirmRestore
  <2>1. /\ view.page = "backups" /\ calls' = calls
        /\ \E b : \/ view' = [view EXCEPT !.time = b]
                  \/ view' = [view EXCEPT !.confirm = b]
    BY <1>4 DEF PickTime, AskRestore, CloseConfirmRestore, RestoreForm, OnBackups
  <2>2. view'.restoring = view.restoring
    BY <1>0, <2>1 DEF Backups
  <2> QED
    BY <1>1, <2>1, <2>2
<1>5. CASE handleRestore
  <2>1. view.page = "backups" /\ Send("restore", view.db)
    BY <1>5 DEF handleRestore, OnBackups
  <2> QED
    BY <1>00, <2>1, SendAwaits
<1>6. ASSUME NEW l \in Lists, NEW d \in Stores, ListComes(l, d) \/ ListFails(l, d)
      PROVE  Awaited("restore")'
  <2>1. view.page = "backups" /\ calls' = calls
    BY <1>6 DEF ListComes, ListFails, OnBackups
  <2>2. \/ view' = [view EXCEPT !.asked = @ \ {<<l, d>>}, !.of[l] = d, !.loading[l] = FALSE]
        \/ view' = [view EXCEPT !.asked = @ \ {<<l, d>>}, !.loading[l] = FALSE,
                                !.error = @ \/ l = "backups"]
    BY <1>6 DEF ListComes, ListFails
  <2>3. view'.restoring = view.restoring
    BY <1>0, <2>1, <2>2 DEF Backups
  <2> QED
    BY <1>1, <2>1, <2>3
<1>7. ASSUME NEW i \in Slots, ServeRestore(i)
      PROVE  Awaited("restore")'
  <2>1. view' = view /\ calls[i].stage = "sent" /\ Serve(i, None)
    BY <1>7 DEF ServeRestore, Sent
  <2> QED
    BY <2>1, ServeAwaits DEF RestoreWaits, OnBackups
<1>8. ASSUME NEW i \in Slots, RestoreAnswered(i)
      PROVE  Awaited("restore")'
  <2>1. Settle(i) /\ calls[i].op = "restore"
    BY <1>8 DEF RestoreAnswered, Answered
  <2>2. CASE ~calls[i].live
    <3>1. view' = view
      BY <1>8, <2>2 DEF RestoreAnswered
    <3> QED
      BY <2>1, <2>2, <3>1, SettleAwaits DEF RestoreWaits, OnBackups
  <2>3. CASE calls[i].live
    <3>1. view.page = "backups"
      BY <1>00, <2>1, <2>3 DEF Base, CallsHere, CallOf
    <3>2. PICK v : v = [view EXCEPT !.restoring = FALSE]
      OBVIOUS
    <3>3. DOMAIN v = DOMAIN Backups /\ ~v.restoring
      BY <1>0, <3>1, <3>2 DEF Backups
    <3>4. view' = v \/ \E d : view' = Asking(v, {"restores"}, d)
      BY <1>8, <2>3, <3>2 DEF RestoreAnswered
    <3>5. ~view'.restoring
      BY <3>3, <3>4, AskingRestores
    <3> QED
      BY <3>5
  <2> QED
    BY <2>2, <2>3
<1>9. CASE Foreign("backups") \/ \E i \in Slots : Fail(i)
  <2>1. Of("restore", "backups")
    BY <1>00 DEF Of
  <2> QED
    BY <1>9, <2>1, AwaitsOfOthers DEF RestoreWaits, OnBackups
<1>10. view' \notin Areas
  BY DEF Areas, Whitelist, Addons, Keys, Profile, Billing, Backups, Browse
<1> QED
  BY <1>2, <1>3, <1>4, <1>5, <1>6, <1>7, <1>8, <1>9, <1>10, NextOrForeign
  DEF BackupsDoes, BackupSteps

LEMMA SignInWaitsNext ==
    ASSUME Base, TypeInv, Next, SignInWaits
    PROVE  SignInWaits'
<1> SUFFICES ASSUME view'.page = "session", view'.loading
             PROVE  Awaited("signIn")'
  BY DEF SignInWaits, OnSession
<1>0. /\ "page" \in DOMAIN view
      /\ view.page = "session" => DOMAIN view = DOMAIN SignIn("dashboard")
  <2>1. view.page = "session" => view \in SessionViews
    BY ViewOfPage DEF TypeInv, ViewTyped
  <2> QED
    BY <2>1 DEF Base, SessionViews, SignIn
<1>00. \A op \in SessionOps \ {"none"} : PageOf(op) = "session" /\ op # "none"
  BY DEF PageOf, ListOps, AddonOps, SessionOps, Routes
<1>1. ASSUME view.page = "session", calls' = calls, view'.loading = view.loading
      PROVE  Awaited("signIn")'
  BY <1>1 DEF SignInWaits, OnSession, Awaited
<1>2. ASSUME NEW at, view.page = "session"
      PROVE  GoTo(view, at).page = "session" /\ ~GoTo(view, at).loading
  BY <1>0, <1>2, GoToLoads
<1>3. ~OpenSession
  <2>1. ASSUME NEW at, view' = SignIn(at)
        PROVE  FALSE
    BY <2>1 DEF SignIn
  <2> QED
    BY <2>1 DEF OpenSession, Open
<1>4. ~AuthGuard
  BY <1>2 DEF AuthGuard, Guarded, OnSession
<1>5. ~OtherDoor
  BY <1>2 DEF OtherDoor, AtDoor, OnSession, Open
<1>6. CASE useSession \/ OtherTab \/ \E what : Type(what)
  <2>1. view.page = "session" /\ calls' = calls
    BY <1>6 DEF useSession, OtherTab, Type, AtDoor, OnSession
  <2>2. \/ \E s : view' = [view EXCEPT !.asking = FALSE, !.session = s]
        \/ view' = [view EXCEPT !.other = TRUE]
        \/ \E what : view' = [view EXCEPT !.typed = what]
    BY <1>6 DEF useSession, OtherTab, Type
  <2>3. view'.loading = view.loading
    BY <1>0, <2>1, <2>2 DEF SignIn
  <2> QED
    BY <1>1, <2>1, <2>3
<1>7. CASE handleSignIn
  <2>1. /\ view.page = "session"
        /\ \/ view' = [view EXCEPT !.error = TRUE] /\ calls' = calls
           \/ \E on : Send("signIn", on)
    BY <1>7 DEF handleSignIn, AtDoor, OnSession
  <2>2. CASE view' = [view EXCEPT !.error = TRUE] /\ calls' = calls
    <3>1. view'.loading = view.loading
      BY <1>0, <2>1, <2>2 DEF SignIn
    <3> QED
      BY <1>1, <2>1, <2>2, <3>1
  <2>3. CASE \E on : Send("signIn", on)
    BY <1>00, <2>1, <2>3, SendAwaits DEF SessionOps
  <2> QED
    BY <2>1, <2>2, <2>3
<1>8. CASE logout \/ \E route \in Routes : AskApi(route)
  <2>1. PICK op \in {"signOut"} \cup Routes : Send(op, None) /\ view' = view
    BY <1>8 DEF logout, AskApi
  <2>2. op \in SessionOps \ {"none"}
    BY DEF SessionOps, Routes
  <2>3. Awaited("signIn") => Awaited("signIn")'
    BY <1>00, <2>1, <2>2, SendAwaits
  <2> QED
    BY <2>1, <2>3 DEF SignInWaits, OnSession
<1>9. ASSUME NEW i \in Slots, SessionApi(i)
      PROVE  Awaited("signIn")'
  <2>1. view' = view /\ calls[i].stage = "sent"
    BY <1>9 DEF SessionApi, ServeSignIn, ServeSignOut, Forward, Sent
  <2>2. CASE (\E got : Serve(i, got)) \/ Refuse(i)
    BY <2>1, <2>2, ServeAwaits DEF SignInWaits, OnSession
  <2>3. CASE \E stage, got : calls' = [calls EXCEPT ![i].stage = stage, ![i].got = got]
    <3>1. \A j \in Slots : calls'[j].op = calls[j].op /\ calls'[j].live = calls[j].live
      BY <2>3 DEF Base, CallsHere, CallOf, Shaped
    <3> QED
      BY <2>1, <3>1 DEF SignInWaits, OnSession, Awaited
  <2> QED
    BY <1>9, <2>2, <2>3 DEF SessionApi, ServeSignIn, ServeSignOut, Forward
<1>10. ASSUME NEW i \in Slots, SignInAnswered(i)
       PROVE  Awaited("signIn")'
  <2>1. Settle(i) /\ calls[i].op = "signIn" /\ calls[i].stage \in {"ok", "failed"}
    BY <1>10 DEF SignInAnswered, Answered, Base, CallsHere, CallOf
  <2>2. CASE calls[i].stage = "ok" /\ OnSession
    <3>1. PICK v : v = GoTo(view, "dashboard")
      OBVIOUS
    <3>2. view' = [v EXCEPT !.asking = TRUE]
      BY <1>10, <2>2, <3>1 DEF SignInAnswered
    <3>3. DOMAIN v = DOMAIN SignIn("dashboard") /\ ~v.loading
      BY <1>0, <2>2, <3>1, GoToShown, GoToLoads DEF OnSession
    <3>4. ~view'.loading
      BY <3>2, <3>3 DEF SignIn
    <3> QED
      BY <3>4
  <2>3. CASE calls[i].stage = "failed" /\ calls[i].live
    <3>1. view' = [view EXCEPT !.loading = FALSE, !.error = TRUE]
      BY <1>10, <2>3 DEF SignInAnswered
    <3>2. view.page = "session"
      BY <1>00, <2>1, <2>3 DEF SessionOps, Base, CallsHere, CallOf
    <3>3. ~view'.loading
      BY <1>0, <3>1, <3>2 DEF SignIn
    <3> QED
      BY <3>3
  <2>4. CASE ~(calls[i].stage = "ok" /\ OnSession) /\ ~(calls[i].stage = "failed" /\ calls[i].live)
    <3>1. view' = view
      BY <1>10, <2>4 DEF SignInAnswered
    <3>2. ~calls[i].live
      BY <2>1, <2>4, <3>1 DEF OnSession
    <3> QED
      BY <2>1, <3>1, <3>2, SettleAwaits DEF SignInWaits, OnSession
  <2> QED
    BY <2>2, <2>3, <2>4
<1>11. ASSUME NEW i \in Slots, SignedOut(i) \/ ApiAnswered(i)
       PROVE  Awaited("signIn")'
  <2>1. /\ Settle(i) /\ calls[i].op # "signIn"
        /\ view' = view \/ (OnSession /\ view' = [view EXCEPT !.asking = TRUE])
    BY <1>11 DEF SignedOut, ApiAnswered, Answered, Routes
  <2>2. view.page = "session" /\ view'.loading = view.loading
    BY <1>0, <2>1 DEF SignIn, OnSession
  <2>3. Awaited("signIn")
    BY <2>2 DEF SignInWaits, OnSession
  <2> QED
    BY <2>1, <2>2, <2>3, SettleAwaits
<1>12. CASE Foreign("session") \/ \E i \in Slots : Fail(i)
  <2>1. Of("signIn", "session")
    BY <1>00 DEF Of, SessionOps
  <2> QED
    BY <1>12, <2>1, AwaitsOfOthers DEF SignInWaits, OnSession
<1>13. view' \notin Areas
  BY DEF Areas, Whitelist, Addons, Keys, Profile, Billing, Backups, Browse
<1> QED
  BY <1>3, <1>4, <1>5, <1>6, <1>7, <1>8, <1>9, <1>10, <1>11, <1>12, <1>13, NextOrForeign
  DEF SessionDoes, SessionSteps, SessionAnswers

\* A button that waits, to add an address, make a key, save the profile, pay,
\* restore or sign in, has a request of its own under way, however many others
\* there are, were left on other pages or have failed.
THEOREM WaitsForARequestAlways == Spec => []WaitsForARequest
<1>1. Init => WaitsForARequest
  <2>1. Init => view.page = "away"
    BY DEF Init
  <2> QED
    BY <2>1 DEF WaitsForARequest, AddWaits, MakeWaits, SaveWaits, PayWaits, RestoreWaits,
                SignInWaits, OnAllowed, OnKeys, OnProfile, OnBilling, OnBackups, OnSession
<1>2. Base /\ TypeInv /\ WaitsForARequest /\ [Next]_vars => WaitsForARequest'
  <2>1. WaitsForARequest /\ UNCHANGED vars => WaitsForARequest'
    BY DEF vars, WaitsForARequest, AddWaits, MakeWaits, SaveWaits, PayWaits, RestoreWaits,
           SignInWaits, OnAllowed, OnKeys, OnProfile, OnBilling, OnBackups, OnSession, Awaited
  <2> QED
    BY <2>1, AddWaitsNext, MakeWaitsNext, SaveWaitsNext, PayWaitsNext, RestoreWaitsNext,
       SignInWaitsNext DEF WaitsForARequest
<1>3. Base /\ TypeInv /\ [Next]_vars => TypeInv'
  BY TypedNext, TypedStutter
<1> QED
  BY <1>1, <1>2, <1>3, TypedInit, BaseAlways, PTL DEF Spec
=============================================================================
