------------------------------ MODULE Payments ------------------------------
(***************************************************************************)
(* Paying for a tier (api/internal/mollie/mollie.go) and the ConfigMap     *)
(* "euroscale-user-tiers" that holds every user's tier (tiers.go).  Each   *)
(* API replica keeps a map of payments in memory; Mollie keeps the real    *)
(* payments and calls the webhook of any one replica when a status         *)
(* changes, again and again until it gets an answer.  The handlers of all  *)
(* replicas interleave, one call to Mollie or to the API server, or one    *)
(* critical section of the map's lock, per action.                         *)
(***************************************************************************)
EXTENDS Integers, FiniteSets

CONSTANTS
    Users,         \* the tenants
    Tiers,         \* the keys of tierDefs
    Free,          \* DefaultTier
    Payable,       \* the tiers that tierPrice knows
    PaymentIds,    \* the ids that Mollie hands out
    None,          \* no user, no payment, no replica
    Replicas,      \* the API replicas
    Handlers,      \* slots for the handlers that run at the same time
    Operations,    \* the requests that are made
    Faulty,        \* the calls that may fail
    MaxFaults      \* bound on failed calls and crashes

ASSUME PaymentAssumption ==
    /\ Free \in Tiers
    /\ Payable \subseteq Tiers
    /\ None \notin Users \cup PaymentIds \cup Replicas
    /\ Operations \subseteq {"webhook", "confirm", "admin"}
    /\ Faulty \subseteq {"mollie", "tiers", "answer", "crash"}
    /\ MaxFaults \in Nat

VARIABLES
    tier,       \* the data of the ConfigMap, Free where it has no entry
    fresh,      \* handlers that hold the current version of the ConfigMap
    payment,    \* the payments at Mollie
    due,        \* payments whose new status Mollie still has to report
    record,     \* the status in each replica's map h.payments
    handler,    \* what each handler is doing
    applied,    \* payments that have set a tier
    granted,    \* tiers that each user was given by an admin, or by default
    abandoned,  \* payments that a call of the webhook failed on and answered
    faults      \* failures and repeated calls left

history == <<applied, granted, abandoned>>
vars == <<tier, fresh, payment, due, record, handler, applied, granted, abandoned,
          faults>>

\* "unsent": the checkout URL has not reached the user, who cannot pay yet.
Statuses == {"none", "unsent", "open", "paid", "failed"}
Records  == {"none", "pending", "paid"}
Kinds    == {"none", "create", "webhook", "confirm", "admin"}
Steps    == {"idle", "ask", "fetch", "commit", "record"}

NoTiers == [u \in Users |-> Free]

Idle == [kind |-> "none", step |-> "idle", at |-> None, id |-> None,
         user |-> None, tier |-> Free, snap |-> NoTiers]

HandlerStates ==
    [kind: Kinds, step: Steps, at: Replicas \cup {None},
     id: PaymentIds \cup {None}, user: Users \cup {None}, tier: Tiers,
     snap: [Users -> Tiers]]

TypeOK ==
    /\ tier \in [Users -> Tiers]
    /\ fresh \subseteq Handlers
    /\ payment \in [PaymentIds -> [status: Statuses, user: Users \cup {None},
                                   tier: Tiers]]
    /\ due \subseteq PaymentIds
    /\ record \in [Replicas -> [PaymentIds -> Records]]
    /\ handler \in [Handlers -> HandlerStates]
    /\ applied \subseteq PaymentIds
    /\ granted \in [Users -> SUBSET Tiers]
    /\ abandoned \subseteq PaymentIds
    /\ faults \in Nat

At(h, step) == handler[h].step = step

Goto(h, step) == handler' = [handler EXCEPT ![h].step = step]

Fails(call) ==
    /\ call \in Faulty
    /\ faults > 0
    /\ faults' = faults - 1

Succeeds == UNCHANGED faults

Init ==
    /\ tier = NoTiers
    /\ fresh = {}
    /\ payment = [p \in PaymentIds |->
                    [status |-> "none", user |-> None, tier |-> Free]]
    /\ due = {}
    /\ record = [r \in Replicas |-> [p \in PaymentIds |-> "none"]]
    /\ handler = [h \in Handlers |-> Idle]
    /\ applied = {}
    /\ granted = [u \in Users |-> {Free}]
    /\ abandoned = {}
    /\ faults = MaxFaults
-----------------------------------------------------------------------------
(***************************************************************************)
(* Starting a payment, and what becomes of it at Mollie.                   *)
(***************************************************************************)

\* Mollie creates the payment; the answer carries its id and checkout URL.
CreatePayment(h, r, u, t, p) ==
    /\ handler[h] = Idle
    /\ payment[p].status = "none"
    /\ payment' = [payment EXCEPT
                     ![p] = [status |-> "unsent", user |-> u, tier |-> t]]
    /\ handler' = [handler EXCEPT
                     ![h] = [Idle EXCEPT !.kind = "create", !.step = "record",
                                         !.at = r, !.id = p]]
    /\ UNCHANGED <<tier, fresh, due, record, history, faults>>

\* The replica notes the payment as pending before it answers with the URL.
StorePending(h) ==
    LET p == handler[h].id
    IN  /\ handler[h].kind = "create"
        /\ record' = [record EXCEPT ![handler[h].at][p] = "pending"]
        /\ payment' = [payment EXCEPT ![p].status = "open"]
        /\ handler' = [handler EXCEPT ![h] = Idle]
        /\ UNCHANGED <<tier, fresh, due, history, faults>>

\* The customer pays or does not; Mollie will report the new status.
SettlePayment(p) ==
    /\ payment[p].status = "open"
    /\ \E s \in {"paid", "failed"} :
          payment' = [payment EXCEPT ![p].status = s]
    /\ due' = due \cup {p}
    /\ UNCHANGED <<tier, fresh, record, handler, history, faults>>

\* An answer was lost, or came too late: Mollie calls once more for a payment
\* that the webhook has already dealt with.
CallAgain(p) ==
    /\ payment[p].status \in {"paid", "failed"}
    /\ p \notin due
    /\ due' = due \cup {p}
    /\ Fails("answer")
    /\ UNCHANGED <<tier, fresh, payment, record, handler, history>>

-----------------------------------------------------------------------------
(***************************************************************************)
(* HandleWebhook, HandleConfirmPayment and SetUserTier.                    *)
(***************************************************************************)

\* The handler answers.  Every answer of the webhook is a 200, whatever went
\* wrong, and ends Mollie's calls.
Answer(h) ==
    /\ handler' = [handler EXCEPT ![h] = Idle]
    /\ due' = IF handler[h].kind = "webhook" THEN due \ {handler[h].id} ELSE due

\* It answers because a call of its own failed.
AnswerFailed(h) ==
    /\ Answer(h)
    /\ abandoned' = IF handler[h].kind = "webhook"
                      THEN abandoned \cup {handler[h].id} ELSE abandoned

\* Mutant: the 200 is sent before the payment is looked at.
WebhookAnswersFirst(h, r, p) ==
    /\ handler[h] = Idle
    /\ p \in due
    /\ "webhook" \in Operations
    /\ due' = due \ {p}
    /\ handler' = [handler EXCEPT
                     ![h] = [Idle EXCEPT !.kind = "webhook", !.step = "ask",
                                         !.at = r, !.id = p]]
    /\ UNCHANGED <<tier, fresh, payment, record, history, faults>>

\* A call of the webhook reaches replica r.  Mollie may call again while an
\* earlier call still runs.  A payment that this replica has on record as
\* paid is answered at once.
Webhook(h, r, p) ==
    /\ handler[h] = Idle
    /\ p \in due
    /\ "webhook" \in Operations
    /\ IF record[r][p] = "paid"
         THEN due' = due \ {p} /\ UNCHANGED handler
         ELSE /\ handler' = [handler EXCEPT
                               ![h] = [Idle EXCEPT !.kind = "webhook",
                                                   !.step = "ask",
                                                   !.at = r, !.id = p]]
              /\ UNCHANGED due
    /\ UNCHANGED <<tier, fresh, payment, record, history, faults>>

\* The user comes back from the checkout, or opens that URL again.
ConfirmPayment(h, r, p) ==
    /\ handler[h] = Idle
    /\ payment[p].status \in {"open", "paid", "failed"}
    /\ "confirm" \in Operations
    /\ handler' = [handler EXCEPT
                     ![h] = [Idle EXCEPT !.kind = "confirm", !.step = "ask",
                                         !.at = r, !.id = p]]
    /\ UNCHANGED <<tier, fresh, payment, due, record, history, faults>>

\* An admin assigns a tier.
SetUserTier(h, r, u, t) ==
    /\ handler[h] = Idle
    /\ "admin" \in Operations
    /\ handler' = [handler EXCEPT
                     ![h] = [Idle EXCEPT !.kind = "admin", !.step = "fetch",
                                         !.at = r, !.user = u, !.tier = t]]
    /\ granted' = [granted EXCEPT ![u] = @ \cup {t}]
    /\ UNCHANGED <<tier, fresh, payment, due, record, applied, abandoned, faults>>

\* Mutant: the status that Mollie returns is not looked at.
GetPaymentAnyStatus(h) ==
    /\ At(h, "ask")
    /\ LET p == payment[handler[h].id]
       IN  handler' = [handler EXCEPT ![h].step = "fetch",
                                      ![h].user = p.user, ![h].tier = p.tier]
    /\ Succeeds
    /\ UNCHANGED <<tier, fresh, payment, due, record, history>>

\* GetPayment asks Mollie for the status.  User and tier are the metadata
\* that HandleCreatePayment gave the payment.
GetPayment(h) ==
    /\ At(h, "ask")
    /\ LET p == payment[handler[h].id]
       IN  \/ /\ p.status = "paid"
              /\ handler' = [handler EXCEPT ![h].step = "fetch",
                                            ![h].user = p.user,
                                            ![h].tier = p.tier]
              /\ UNCHANGED <<due, abandoned>>
              /\ Succeeds
           \/ p.status # "paid" /\ Answer(h) /\ UNCHANGED abandoned /\ Succeeds
           \/ AnswerFailed(h) /\ Fails("mollie")
    /\ UNCHANGED <<tier, fresh, payment, record, applied, granted>>

FetchTiers(h) ==
    /\ At(h, "fetch")
    /\ \/ /\ handler' = [handler EXCEPT ![h].step = "commit", ![h].snap = tier]
          /\ fresh' = fresh \cup {h}
          /\ UNCHANGED <<due, abandoned>>
          /\ Succeeds
       \/ AnswerFailed(h) /\ UNCHANGED fresh /\ Fails("tiers")
    /\ UNCHANGED <<tier, payment, record, applied, granted>>

\* The ConfigMap that the handler wants to write.
Wanted(h) == [handler[h].snap EXCEPT ![handler[h].user] = handler[h].tier]

\* After the Update an admin request is over; the others go on to the map.
AfterCommit(h) ==
    /\ IF handler[h].kind = "admin"
         THEN handler' = [handler EXCEPT ![h] = Idle]
         ELSE handler' = [handler EXCEPT ![h].step = "record", ![h].snap = NoTiers]
    /\ applied' = applied \cup ({handler[h].id} \ {None})

\* Mutant: the ConfigMap is written without the version of the fetched one.
CommitTiersUnversioned(h) ==
    /\ At(h, "commit")
    /\ tier' = Wanted(h)
    /\ fresh' = {}
    /\ AfterCommit(h)
    /\ Succeeds
    /\ UNCHANGED <<payment, due, record, granted, abandoned>>

\* The Update is refused when the ConfigMap was written since the Get.  One
\* that changes nothing leaves the version as it is.
CommitTiers(h) ==
    /\ At(h, "commit")
    /\ h \in fresh
    /\ tier' = Wanted(h)
    /\ fresh' = IF Wanted(h) = tier THEN fresh \ {h} ELSE {}
    /\ AfterCommit(h)
    /\ Succeeds
    /\ UNCHANGED <<payment, due, record, granted, abandoned>>

\* Mutant: a refused Update is only logged, and the payment goes on record.
RejectTiersGoesOn(h) ==
    /\ At(h, "commit")
    /\ (h \notin fresh /\ Succeeds) \/ Fails("tiers")
    /\ fresh' = fresh \ {h}
    /\ IF handler[h].kind = "admin"
         THEN handler' = [handler EXCEPT ![h] = Idle]
         ELSE Goto(h, "record")
    /\ UNCHANGED <<tier, payment, due, record, history>>

\* A conflict or another failure: the handler answers, a webhook with a 200.
RejectTiers(h) ==
    /\ At(h, "commit")
    /\ (h \notin fresh /\ Succeeds) \/ Fails("tiers")
    /\ fresh' = fresh \ {h}
    /\ AnswerFailed(h)
    /\ UNCHANGED <<tier, payment, record, applied, granted>>

StorePaid(h) ==
    /\ At(h, "record")
    /\ handler[h].kind \in {"webhook", "confirm"}
    /\ record' = [record EXCEPT ![handler[h].at][handler[h].id] = "paid"]
    /\ Answer(h)
    /\ Succeeds
    /\ UNCHANGED <<tier, fresh, payment, history>>

\* A replica restarts: its handlers and its map are gone.
Restart(r) ==
    /\ Fails("crash")
    /\ record' = [record EXCEPT ![r] = [p \in PaymentIds |-> "none"]]
    /\ LET lost == {h \in Handlers : handler[h].at = r}
       IN  /\ handler' = [h \in Handlers |->
                            IF h \in lost THEN Idle ELSE handler[h]]
           /\ fresh' = fresh \ lost
    /\ UNCHANGED <<tier, payment, due, history>>

Request(h) ==
    \E r \in Replicas :
        \/ \E u \in Users : \E t \in Payable : \E p \in PaymentIds :
                CreatePayment(h, r, u, t, p)
        \/ \E p \in PaymentIds : ConfirmPayment(h, r, p)
        \/ \E u \in Users : \E t \in Tiers : SetUserTier(h, r, u, t)

Deliver(p) == \E h \in Handlers : \E r \in Replicas : Webhook(h, r, p)

HandlerStep(h) ==
    \/ StorePending(h)
    \/ GetPayment(h)
    \/ FetchTiers(h)
    \/ CommitTiers(h)
    \/ RejectTiers(h)
    \/ StorePaid(h)

Next ==
    \/ \E h \in Handlers : Request(h) \/ HandlerStep(h)
    \/ \E p \in PaymentIds : Deliver(p) \/ SettlePayment(p) \/ CallAgain(p)
    \/ \E r \in Replicas : Restart(r)

Spec == Init /\ [][Next]_vars

-----------------------------------------------------------------------------
(***************************************************************************)
(* Properties.                                                             *)
(***************************************************************************)

\* Nobody has a tier for which nobody paid: each user's tier was paid by that
\* user, or given by an admin, whatever handlers of whatever replicas wrote
\* the shared ConfigMap in between (HandleWebhook, HandleConfirmPayment).
TierJustified ==
    \A u \in Users :
        \/ tier[u] \in granted[u]
        \/ \E p \in applied : /\ payment[p].status = "paid"
                              /\ payment[p].user = u
                              /\ payment[p].tier = tier[u]

\* What a user is entitled to, and the tier that a handler is about to set: it
\* has been told that the payment is paid, or serves an admin.
Entitled ==
    [u \in Users |-> granted[u] \cup
        {t \in Tiers : \E p \in PaymentIds :
            payment[p].status = "paid" /\ payment[p].user = u /\ payment[p].tier = t}]

Claimed ==
    [h \in Handlers |-> IF handler[h].step \in {"fetch", "commit"}
                        THEN {<<handler[h].user, handler[h].tier>>} ELSE {}]

\* Payments implements the ledger: whatever webhooks, confirmations, admins,
\* restarts and failures of whatever replicas overlap on the one ConfigMap, a
\* claim is made for what its user is entitled to, and changes that user's tier
\* alone, once (SetUserTier in tiers.go, HandleWebhook, HandleConfirmPayment).
Ledger ==
    INSTANCE TierLedger WITH entitled <- Entitled, claim <- Claimed, Clerks <- Handlers
LedgerSpec == Ledger!Spec

\* One ConfigMap holds everybody's tier: writing one user's tier never undoes
\* what another handler wrote for another user (SetUserTier in tiers.go).
OwnTierOnly ==
    [][ \A u \in Users :
          tier'[u] # tier[u] =>
            \E h \in Handlers : /\ At(h, "commit") /\ handler[h].user = u
                                /\ handler'[h].step # "commit" ]_vars

\* "already_processed" is true: a payment that some replica has on record as
\* paid has set its user's tier, so answering at once loses nothing.
RecordedIsApplied ==
    \A r \in Replicas : \A p \in PaymentIds :
        record[r][p] = "paid" => p \in applied

\* A payment sets the tier once: it never comes back over the tier that a
\* later payment or an admin has set since ("Idempotency: check if this
\* payment ID was already processed").
NotAppliedAgain ==
    [][ \A u \in Users :
          tier'[u] # tier[u] =>
            \E h \in Handlers : /\ At(h, "commit") /\ handler[h].user = u
                                /\ handler[h].id \notin applied ]_vars

\* "on 'paid', upgrade the user's tier": a payment that was paid and has not set
\* its tier is one that Mollie still calls about, whatever repeated calls,
\* confirmations and restarts of whatever replicas come in between.  The one way
\* to lose it is a call that fails on Mollie or on the ConfigMap, which the
\* webhook answers with a 200 like any other (HandleWebhook).
PaidIsKept ==
    \A p \in PaymentIds :
        payment[p].status = "paid" => p \in applied \cup abandoned \cup due
=============================================================================
