----------------------------- MODULE StoragePanel -----------------------------
(***************************************************************************)
(* Storage and compute of a database                                       *)
(* (src/dashboard/src/components/DatabaseAddons.tsx, StorageCard.tsx), on  *)
(* the page of the database.  The amounts are what the sliders add.        *)
(***************************************************************************)
EXTENDS Tab, Functions

CONSTANT MaxAmount    \* what one database may get, a bound

ASSUME AmountAssumption == MaxAmount \in Nat

\* `card`: the usage has been fetched, and StorageCard is shown.  The sliders and
\* the switch are its state, the mutations are those of DatabaseAddons.
Addons == [page |-> "storage", card |-> FALSE, gb |-> 0, cu |-> 0, autoscale |-> FALSE,
           trust |-> "unsure"]

AddonViews == [page : {"storage"}, card : BOOLEAN, gb : 0 .. 1, cu : 0 .. 1,
               autoscale : BOOLEAN, trust : Trust]

OnAddons == view.page = "storage" /\ view.card

AddonOps == {"resizeStorage", "resizeCompute", "setAutoscale"}

isApplying == \E op \in AddonOps : Busy(op)

\* useUsage has an answer, the first one or one after an error: the card is
\* mounted anew, its switch off, whatever the server has.
UsageComes ==
    /\ view.page = "storage" /\ ~view.card
    /\ view' = [Addons EXCEPT !.card = TRUE]
    /\ UNCHANGED <<calls, server, cache, told, faults>>

\* It is fetched every minute and after each change: an error takes the place
\* of the card, also when there is an older answer.
UsageFails ==
    /\ OnAddons
    /\ faults > 0
    /\ faults' = faults - 1
    /\ view' = Addons
    /\ UNCHANGED <<calls, server, cache, told>>

Slide ==
    /\ OnAddons
    /\ \E field \in {"gb", "cu"}, n \in 0 .. 1 : view' = [view EXCEPT ![field] = n]
    /\ UNCHANGED <<calls, server, cache, told, faults>>

Setting(v) == [view EXCEPT !.autoscale = v, !.trust = AskedBeside({"setAutoscale"})]

\* Mutant: the setting sent is the one the switch had.
ToggleStale ==
    /\ OnAddons
    /\ view' = Setting(~view.autoscale)
    /\ Send("setAutoscale", view.autoscale)
    /\ UNCHANGED <<server, cache, told, faults>>

\* The switch is enabled whatever is under way.
Toggle ==
    /\ OnAddons
    /\ view' = Setting(~view.autoscale)
    /\ Send("setAutoscale", ~view.autoscale)
    /\ UNCHANGED <<server, cache, told, faults>>

\* The requests that Apply sends, one mutation each.  The setting goes with
\* every change of an amount, as the switch has it: off when the card is new,
\* whatever the server has.
Applied == {<<"setAutoscale", view.autoscale>>}
             \cup (IF view.gb > 0 THEN {<<"resizeStorage", view.gb>>} ELSE {})
             \cup (IF view.cu > 0 THEN {<<"resizeCompute", view.cu>>} ELSE {})

\* With two slots Apply is modelled for at most one amount at a time.
handleApply ==
    /\ OnAddons /\ ~isApplying
    /\ view.gb > 0 \/ view.cu > 0 \/ view.autoscale
    /\ Cardinality(Applied) <= Cardinality(UnderWay("none"))
    /\ \E slot \in [Applied -> UnderWay("none")] :
         /\ IsInjective(slot)
         /\ calls' = [i \in Slots |->
                        IF \E a \in Applied : slot[a] = i
                        THEN LET a == CHOOSE x \in Applied : slot[x] = i IN
                             [NoCall EXCEPT !.op = a[1], !.on = a[2], !.live = TRUE,
                                            !.watched = TRUE]
                        ELSE calls[i]]
    /\ view' = [Setting(view.autoscale) EXCEPT !.gb = 0, !.cu = 0]
    /\ UNCHANGED <<server, cache, told, faults>>

\* Mutant: the limit is not checked.
ServeAddonUnlimited(i) ==
    LET c == calls[i] IN
    /\ c.op \in AddonOps /\ c.stage = "sent"
    /\ server' = CASE c.op = "setAutoscale" -> [server EXCEPT !.autoscale = c.on]
                   [] c.op = "resizeStorage" -> [server EXCEPT !.gb = @ + c.on]
                   [] OTHER -> [server EXCEPT !.cu = @ + c.on]
    /\ Serve(i, None)
    /\ UNCHANGED <<view, cache, told>>

ServeAddon(i) ==
    LET c == calls[i]
        granted == CASE c.op = "setAutoscale" -> [server EXCEPT !.autoscale = c.on]
                     [] c.op = "resizeStorage" -> [server EXCEPT !.gb = @ + c.on]
                     [] OTHER -> [server EXCEPT !.cu = @ + c.on]
    IN /\ c.op \in AddonOps /\ c.stage = "sent"
       /\ granted.gb <= MaxAmount /\ granted.cu <= MaxAmount
       /\ server' = granted
       /\ Serve(i, None)
       /\ UNCHANGED <<view, cache, told>>

\* The limit of the plan, and of the model.
RefuseAddon(i) ==
    /\ \/ Sent(i, "resizeStorage") /\ server.gb + calls[i].on > MaxAmount
       \/ Sent(i, "resizeCompute") /\ server.cu + calls[i].on > MaxAmount
    /\ Refuse(i)
    /\ UNCHANGED <<view, cache, told>>

\* A toast, and on success the usage is fetched again.  The sliders and the
\* switch are not set back by a failure.
AddonAnswered(i) ==
    /\ calls[i].op \in AddonOps /\ calls[i].stage # "sent"
    /\ view' = IF calls[i].live /\ calls[i].op = "setAutoscale"
               THEN [view EXCEPT !.trust = Heard(i, @)] ELSE view
    /\ Settle(i)
    /\ UNCHANGED <<server, cache, told, faults>>

AddonSteps == UsageComes \/ UsageFails \/ Slide \/ Toggle \/ handleApply
=============================================================================
