------------------------------ MODULE BillingPage ------------------------------
(***************************************************************************)
(* The billing page (src/dashboard/src/app/dashboard/billing/page.tsx) and *)
(* the way to the checkout of Mollie and back.  A tier is its rank.  The   *)
(* webhook and the API's side of a payment are the subject of Payments;    *)
(* here the user has one payment at a time, the last one made.             *)
(***************************************************************************)
EXTENDS Tab

CONSTANT MaxTier    \* rank of the highest tier, a bound

ASSUME TierAssumption == MaxTier \in Nat

Paying == {"open", "pending", "paid", "canceled"}
Returns == {"none", "success", "id", "cancelled"}
Toasts == {"none", "upgraded", "processing", "updated", "failed", "notChanged"}

Billing == [page |-> "billing", tier |-> None, upgrading |-> None,
            invoices |-> "loading", back |-> "none", toast |-> "none"]

\* The page of Mollie, in place of the dashboard.
Checkout == [page |-> "checkout"]

BillingViews == [page : {"billing"}, tier : 0 .. MaxTier \cup {None},
                 upgrading : 0 .. MaxTier \cup {None}, invoices : {"loading", "list", "error"},
                 back : Returns, toast : Toasts] \cup {Checkout}

OnBilling == view.page = "billing"

\* The tier and the usage are fetched when the page opens, every minute, and
\* when a payment is confirmed.
FetchUsage ==
    /\ OnBilling
    /\ view' = [view EXCEPT !.tier = server.tier]
    /\ UNCHANGED <<calls, server, cache, told, faults>>

\* Without an answer the plan is taken to be the free one.
FetchUsageFails ==
    /\ OnBilling /\ view.tier = None
    /\ faults > 0
    /\ faults' = faults - 1
    /\ view' = [view EXCEPT !.tier = 0]
    /\ UNCHANGED <<calls, server, cache, told>>

\* Fetched once: an error stays until the page is opened again.
FetchInvoices ==
    /\ OnBilling /\ view.invoices = "loading"
    /\ \/ view' = [view EXCEPT !.invoices = "list"] /\ UNCHANGED faults
       \/ /\ faults > 0
          /\ faults' = faults - 1
          /\ view' = [view EXCEPT !.invoices = "error"]
    /\ UNCHANGED <<calls, server, cache, told>>

paymentLoading == \E i \in UnderWay("pay") : calls[i].live

\* The buttons of the tier the user has and of lower ones are disabled.
handleUpgrade(t) ==
    /\ OnBilling /\ view.tier # None
    /\ t > view.tier
    /\ view.upgrading # t /\ ~paymentLoading
    /\ Send("pay", t)
    /\ view' = [view EXCEPT !.upgrading = t]
    /\ UNCHANGED <<server, cache, told, faults>>

ServePay(i) ==
    /\ Sent(i, "pay")
    /\ server' = [server EXCEPT !.payment = [tier |-> calls[i].on, status |-> "open"]]
    /\ Serve(i, None)
    /\ UNCHANGED <<view, cache, told>>

\* Mutant: the button is set back only on the way to the checkout.
PayAnsweredWell(i) ==
    /\ Answered(i, "pay")
    /\ IF calls[i].stage = "ok"
       THEN /\ view' = Checkout
            /\ calls' = [j \in Slots |-> IF j = i THEN NoCall
                                         ELSE [calls[j] EXCEPT !.live = FALSE]]
       ELSE UNCHANGED view /\ Settle(i)
    /\ UNCHANGED <<server, cache, told, faults>>

\* window.location.href is assigned also when the user has gone to another
\* page of the dashboard, and a new document awaits no answer.
PayAnswered(i) ==
    /\ Answered(i, "pay")
    /\ IF calls[i].stage = "ok"
       THEN /\ view' = Checkout
            /\ calls' = [j \in Slots |-> IF j = i THEN NoCall
                                         ELSE [calls[j] EXCEPT !.live = FALSE]]
       ELSE /\ view' = IF calls[i].live THEN [view EXCEPT !.upgrading = None] ELSE view
            /\ Settle(i)
    /\ UNCHANGED <<server, cache, told, faults>>

\* external: the user pays or does not, or orders a payment that takes its time.
AtCheckout ==
    /\ \/ view.page = "checkout" /\ server.payment.status = "open"
       \/ server.payment.status = "pending"
    /\ \E s \in {"pending", "paid", "canceled"} : server' = [server EXCEPT !.payment.status = s]
    /\ UNCHANGED <<view, calls, cache, told, faults>>

\* external: the webhook of the payment reaches the API.
Webhook ==
    /\ server.payment.status = "paid"
    /\ server.tier # server.payment.tier
    /\ server' = [server EXCEPT !.tier = server.payment.tier]
    /\ UNCHANGED <<view, calls, cache, told, faults>>

\* The address Mollie sends the user back to says "success" whatever happened,
\* and the API's default has no id of the payment in it.
ComeBack(back) ==
    /\ view.page = "checkout" /\ back # "none"
    /\ Open([Billing EXCEPT !.back = back])
    /\ UNCHANGED <<server, cache, told, faults>>

\* The effect that looks at the address, once there is a session.
HandleReturn ==
    /\ OnBilling /\ view.back # "none"
    /\ IF view.back = "id"
       THEN Send("confirm", None) /\ view' = [view EXCEPT !.back = "none"]
       ELSE /\ view' = [view EXCEPT !.back = "none",
                          !.toast = IF view.back = "success" THEN "updated" ELSE "notChanged"]
            /\ UNCHANGED calls
    /\ UNCHANGED <<server, cache, told, faults>>

\* An error of the API comes as JSON too, with no status in it.
ServeConfirm(i) ==
    /\ Sent(i, "confirm")
    /\ \/ /\ server' = IF server.payment.status = "paid"
                       THEN [server EXCEPT !.tier = server.payment.tier] ELSE server
          /\ Serve(i, server.payment.status)
       \/ /\ faults > 0
          /\ faults' = faults - 1
          /\ calls' = [calls EXCEPT ![i].stage = "ok", ![i].got = "error"]
          /\ UNCHANGED server
    /\ UNCHANGED <<view, cache, told>>

\* A status that is neither "paid" nor "pending" is taken for a success, that of
\* a payment nobody has made yet, "open", among them.
ConfirmAnswered(i) ==
    /\ Answered(i, "confirm")
    /\ view' = IF ~calls[i].live THEN view
               ELSE [view EXCEPT !.toast = CASE calls[i].stage = "failed" -> "failed"
                                             [] calls[i].got = "paid" -> "upgraded"
                                             [] calls[i].got = "pending" -> "processing"
                                             [] OTHER -> "updated"]
    /\ Settle(i)
    /\ UNCHANGED <<server, cache, told, faults>>

BillingSteps ==
    \/ FetchUsage \/ FetchUsageFails \/ FetchInvoices \/ AtCheckout \/ Webhook \/ HandleReturn
    \/ \E t \in 1 .. MaxTier : handleUpgrade(t)
    \/ \E back \in Returns : ComeBack(back)

BillingApi(i) == ServePay(i) \/ ServeConfirm(i)
BillingAnswers(i) == PayAnswered(i) \/ ConfirmAnswered(i)
=============================================================================
