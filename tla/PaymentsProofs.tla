--------------------------- MODULE PaymentsProofs ---------------------------
(***************************************************************************)
(* Proofs about Payments for every number of users, payments, replicas and *)
(* handlers, every set of tiers and every number of failures.              *)
(***************************************************************************)
EXTENDS Payments, TLAPS

\* What a busy handler x carries: its replica, its user once it is about to
\* write the ConfigMap, and its payment unless it serves an admin.
Carries(x) ==
    /\ x.kind # "none" => x.at \in Replicas
    /\ x.step = "ask" => x.kind \in {"webhook", "confirm"}
    /\ x.step = "record" => x.kind \in {"create", "webhook", "confirm"}
    /\ x.kind \in {"create", "webhook", "confirm"} => x.id \in PaymentIds
    /\ x.kind = "create" => payment[x.id].status # "none"
    /\ x.kind = "admin" => x.id = None
    /\ x.step \in {"fetch", "commit"} =>
         x.user \in Users /\ x.kind \in {"webhook", "confirm", "admin"}

\* A payment that exists has a payer.
WellFormed ==
    /\ \A p \in PaymentIds : payment[p].status # "none" => payment[p].user \in Users
    /\ \A h \in Handlers : Carries(handler[h])

TypeInv == TypeOK /\ WellFormed

LEMMA InitTypeInv == Init => TypeInv
BY PaymentAssumption
DEF Init, TypeInv, TypeOK, HandlerStates, WellFormed, Carries, NoTiers, Idle, Statuses, Records, Kinds, Steps

LEMMA SnapshotUpdate ==
    ASSUME handler \in [Handlers -> HandlerStates], NEW h \in Handlers,
           NEW s \in Steps, NEW m \in [Users -> Tiers],
           handler' = [handler EXCEPT ![h].step = s, ![h].snap = m]
    PROVE  handler' \in [Handlers -> HandlerStates]
<1> DEFINE snaps == [Users -> Tiers]
<1>1. m \in snaps
  OBVIOUS
<1>2. HandlerStates = [kind: Kinds, step: Steps, at: Replicas \cup {None},
                       id: PaymentIds \cup {None}, user: Users \cup {None},
                       tier: Tiers, snap: snaps]
  BY DEF HandlerStates
<1> HIDE DEF snaps
<1>3. handler[h] \in HandlerStates
  OBVIOUS
<1>4. PICK x : x = [handler[h] EXCEPT !.step = s, !.snap = m]
  OBVIOUS
<1>5. x \in HandlerStates
  BY <1>1, <1>2, <1>3, <1>4
<1>6. handler' = [handler EXCEPT ![h] = x]
  BY <1>4
<1> QED
  BY <1>5, <1>6

LEMMA PayerUpdate ==
    ASSUME handler \in [Handlers -> HandlerStates], NEW h \in Handlers,
           NEW s \in Steps, NEW u \in Users, NEW t \in Tiers,
           handler' = [handler EXCEPT ![h].step = s, ![h].user = u, ![h].tier = t]
    PROVE  handler' \in [Handlers -> HandlerStates]
<1> DEFINE snaps == [Users -> Tiers]
<1>1. HandlerStates = [kind: Kinds, step: Steps, at: Replicas \cup {None},
                       id: PaymentIds \cup {None}, user: Users \cup {None},
                       tier: Tiers, snap: snaps]
  BY DEF HandlerStates
<1> HIDE DEF snaps
<1>2. handler[h] \in HandlerStates
  OBVIOUS
<1>3. PICK x : x = [handler[h] EXCEPT !.step = s, !.user = u, !.tier = t]
  OBVIOUS
<1>4. x \in HandlerStates
  BY <1>1, <1>2, <1>3
<1>5. handler' = [handler EXCEPT ![h] = x]
  BY <1>3
<1> QED
  BY <1>4, <1>5

LEMMA IdleState == Idle \in HandlerStates
<1> DEFINE snaps == [Users -> Tiers]
<1>1. NoTiers \in snaps
  BY PaymentAssumption DEF NoTiers
<1>2. HandlerStates = [kind: Kinds, step: Steps, at: Replicas \cup {None},
                       id: PaymentIds \cup {None}, user: Users \cup {None},
                       tier: Tiers, snap: snaps]
  BY DEF HandlerStates
<1>3. "none" \in Kinds /\ "idle" \in Steps /\ Free \in Tiers
  BY PaymentAssumption DEF Kinds, Steps
<1> HIDE DEF snaps
<1> QED
  BY <1>1, <1>2, <1>3 DEF Idle

\* What a handler carries that starts for a payment, or for an admin.
ForPayment(k, s, r, p) == [Idle EXCEPT !.kind = k, !.step = s, !.at = r, !.id = p]

ForAdmin(r, u, t) == [Idle EXCEPT !.kind = "admin", !.step = "fetch", !.at = r,
                                  !.user = u, !.tier = t]

LEMMA PaymentStart ==
    ASSUME NEW k \in Kinds, NEW s \in Steps, NEW r \in Replicas, NEW p \in PaymentIds,
           NEW x, x = ForPayment(k, s, r, p)
    PROVE  /\ x \in HandlerStates
           /\ x.kind = k /\ x.step = s /\ x.at = r /\ x.id = p
<1> DEFINE snaps == [Users -> Tiers]
<1>1. HandlerStates = [kind: Kinds, step: Steps, at: Replicas \cup {None},
                       id: PaymentIds \cup {None}, user: Users \cup {None},
                       tier: Tiers, snap: snaps]
  BY DEF HandlerStates
<1> HIDE DEF snaps
<1> QED
  BY <1>1, IdleState DEF ForPayment

LEMMA AdminStart ==
    ASSUME NEW r \in Replicas, NEW u \in Users, NEW t \in Tiers,
           NEW x, x = ForAdmin(r, u, t)
    PROVE  /\ x \in HandlerStates
           /\ x.kind = "admin" /\ x.step = "fetch" /\ x.at = r /\ x.id = None
           /\ x.user = u
<1> DEFINE snaps == [Users -> Tiers]
<1>1. HandlerStates = [kind: Kinds, step: Steps, at: Replicas \cup {None},
                       id: PaymentIds \cup {None}, user: Users \cup {None},
                       tier: Tiers, snap: snaps]
  BY DEF HandlerStates
<1>2. Idle.id = None
  BY DEF Idle
<1>3. "admin" \in Kinds /\ "fetch" \in Steps
  BY DEF Kinds, Steps
<1> HIDE DEF snaps
<1> QED
  BY <1>1, <1>2, <1>3, IdleState DEF ForAdmin

\* A request that starts keeps the handlers well formed.
LEMMA StartWellFormed ==
    ASSUME TypeInv, NEW h \in Handlers, NEW x,
           handler' = [handler EXCEPT ![h] = x], Carries(x)',
           \A p \in PaymentIds : payment[p].status # "none" => payment'[p].status # "none",
           \A p \in PaymentIds : payment'[p].status # "none" => payment'[p].user \in Users
    PROVE  WellFormed'
<1>1. /\ handler'[h] = x
      /\ \A g \in Handlers \ {h} : handler'[g] = handler[g]
  BY DEF TypeInv, TypeOK
<1>2. ASSUME NEW g \in Handlers
      PROVE  Carries(handler[g])'
  <2>1. CASE g = h
    BY <1>1, <2>1
  <2>2. CASE g # h
    <3>1. Carries(handler[g])
      BY DEF TypeInv, WellFormed
    <3> DEFINE y == handler[g]
    <3>2. Carries(y)'
      <4> SUFFICES handler'[g] = y => Carries(y)'
        BY <1>1, <2>2
      <4> QED
        BY <3>1, <1>1, <2>2 DEF Carries
    <3> QED
      BY <1>1, <2>2, <3>2
  <2> QED
    BY <2>1, <2>2
<1> QED
  BY <1>2 DEF WellFormed

LEMMA RequestTypeInv ==
    ASSUME TypeInv, NEW h \in Handlers, Request(h)
    PROVE  TypeInv'
<1>0. ASSUME NEW x \in HandlerStates, handler' = [handler EXCEPT ![h] = x]
      PROVE  handler' \in [Handlers -> HandlerStates]
  BY <1>0 DEF TypeInv, TypeOK
<1>1. ASSUME NEW r \in Replicas, NEW u \in Users, NEW t \in Payable,
             NEW p \in PaymentIds, CreatePayment(h, r, u, t, p)
      PROVE  TypeInv'
  <2>1. PICK x : x = ForPayment("create", "record", r, p)
    OBVIOUS
  <2>2. PICK y : y = [status |-> "unsent", user |-> u, tier |-> t]
    OBVIOUS
  <2>3. /\ handler' = [handler EXCEPT ![h] = x]
        /\ payment' = [payment EXCEPT ![p] = y]
        /\ UNCHANGED <<tier, fresh, due, record, applied, granted, abandoned,
                    faults>>
    BY <1>1, <2>1, <2>2 DEF CreatePayment, ForPayment, history
  <2>4. /\ x \in HandlerStates
        /\ x.kind = "create" /\ x.step = "record" /\ x.at = r /\ x.id = p
    <3>1. "create" \in Kinds /\ "record" \in Steps
      BY DEF Kinds, Steps
    <3> QED
      BY <2>1, <3>1, PaymentStart
  <2>5. /\ y \in [status: Statuses, user: Users \cup {None}, tier: Tiers]
        /\ y.status = "unsent" /\ y.user = u
    BY <2>2, PaymentAssumption DEF Statuses
  <2>6. TypeOK'
    BY <1>0, <2>3, <2>4, <2>5 DEF TypeInv, TypeOK
  <2>7. \A q \in PaymentIds : payment'[q] = IF q = p THEN y ELSE payment[q]
    BY <2>3 DEF TypeInv, TypeOK
  <2>8. Carries(x)'
    BY <2>4, <2>5, <2>7 DEF Carries
  <2>9. \A q \in PaymentIds :
           /\ payment[q].status # "none" => payment'[q].status # "none"
           /\ payment'[q].status # "none" => payment'[q].user \in Users
    BY <2>5, <2>7 DEF TypeInv, WellFormed
  <2>10. WellFormed'
    BY <2>3, <2>8, <2>9, StartWellFormed
  <2> QED
    BY <2>6, <2>10 DEF TypeInv
<1>2. ASSUME NEW r \in Replicas, NEW p \in PaymentIds, ConfirmPayment(h, r, p)
      PROVE  TypeInv'
  <2>1. PICK x : x = ForPayment("confirm", "ask", r, p)
    OBVIOUS
  <2>2. /\ handler' = [handler EXCEPT ![h] = x]
        /\ UNCHANGED <<tier, fresh, payment, due, record, applied, granted, abandoned,
                    faults>>
    BY <1>2, <2>1 DEF ConfirmPayment, ForPayment, history
  <2>3. /\ x \in HandlerStates
        /\ x.kind = "confirm" /\ x.step = "ask" /\ x.at = r /\ x.id = p
    <3>1. "confirm" \in Kinds /\ "ask" \in Steps
      BY DEF Kinds, Steps
    <3> QED
      BY <2>1, <3>1, PaymentStart
  <2>4. TypeOK'
    BY <1>0, <2>2, <2>3 DEF TypeInv, TypeOK
  <2>5. Carries(x)'
    BY <2>3 DEF Carries
  <2>6. \A q \in PaymentIds : payment'[q].status # "none" => payment'[q].user \in Users
    BY <2>2 DEF TypeInv, WellFormed
  <2>7. WellFormed'
    BY <2>2, <2>5, <2>6, StartWellFormed
  <2> QED
    BY <2>4, <2>7 DEF TypeInv
<1>3. ASSUME NEW r \in Replicas, NEW u \in Users, NEW t \in Tiers,
             SetUserTier(h, r, u, t)
      PROVE  TypeInv'
  <2>1. PICK x : x = ForAdmin(r, u, t)
    OBVIOUS
  <2>2. /\ handler' = [handler EXCEPT ![h] = x]
        /\ granted' = [granted EXCEPT ![u] = @ \cup {t}]
        /\ UNCHANGED <<tier, fresh, payment, due, record, applied, abandoned, faults>>
    BY <1>3, <2>1 DEF SetUserTier, ForAdmin
  <2>3. /\ x \in HandlerStates
        /\ x.kind = "admin" /\ x.step = "fetch" /\ x.at = r /\ x.id = None
        /\ x.user = u
    BY <2>1, AdminStart
  <2>4. TypeOK'
    BY <1>0, <2>2, <2>3 DEF TypeInv, TypeOK
  <2>5. Carries(x)'
    BY <2>3 DEF Carries
  <2>6. \A q \in PaymentIds : payment'[q].status # "none" => payment'[q].user \in Users
    BY <2>2 DEF TypeInv, WellFormed
  <2>7. WellFormed'
    BY <2>2, <2>5, <2>6, StartWellFormed
  <2> QED
    BY <2>4, <2>7 DEF TypeInv
<1> QED
  BY <1>1, <1>2, <1>3 DEF Request

LEMMA StepTypeInv ==
    ASSUME TypeInv, NEW h \in Handlers, HandlerStep(h)
    PROVE  TypeInv'
<1> USE PaymentAssumption
    DEF TypeInv, TypeOK, HandlerStates, NoTiers, Idle, Statuses, Records, Kinds, Steps,
        At, Goto, Fails, Succeeds
<1>0. faults \in Nat /\ faults > 0 => faults - 1 \in Nat
  OBVIOUS
<1>1. CASE StorePending(h)
  <2>1. TypeOK'
    BY <1>1 DEF StorePending, history, WellFormed, Carries
  <2>2. WellFormed'
    BY <1>1 DEF StorePending, history, WellFormed, Carries
  <2> QED
    BY <2>1, <2>2
<1>2. CASE GetPayment(h)
  <2>1. handler[h].id \in PaymentIds /\ faults' \in Nat
    BY <1>0, <1>2 DEF GetPayment, WellFormed, Carries
  <2>2. CASE payment[handler[h].id].status = "paid" /\ UNCHANGED <<due, abandoned>>
             /\ handler' = [handler EXCEPT
                              ![h].step = "fetch",
                              ![h].user = payment[handler[h].id].user,
                              ![h].tier = payment[handler[h].id].tier]
    <3>1. UNCHANGED <<tier, fresh, payment, due, record, applied, granted, abandoned>>
      BY <1>2, <2>2 DEF GetPayment, history
    <3>2. payment[handler[h].id].user \in Users /\ payment[handler[h].id].tier \in Tiers
      BY <2>1, <2>2 DEF WellFormed, Carries
    <3>3. /\ handler'[h].step = "fetch"
          /\ handler'[h].kind = handler[h].kind /\ handler'[h].at = handler[h].at
          /\ handler'[h].id = handler[h].id
          /\ handler'[h].user = payment[handler[h].id].user
          /\ \A g \in Handlers \ {h} : handler'[g] = handler[g]
      BY <2>2, SMTT(30)
    <3>4. TypeOK'
      <4>1. handler' \in [Handlers -> HandlerStates]
        <5>1. "fetch" \in Steps
          OBVIOUS
        <5>2. \A u \in Users, t \in Tiers :
                 handler' = [handler EXCEPT ![h].step = "fetch", ![h].user = u,
                                            ![h].tier = t]
                   => handler' \in [Handlers -> HandlerStates]
          BY <5>1, PayerUpdate
        <5> HIDE DEF HandlerStates
        <5> QED
          BY <2>2, <3>2, <5>2
      <4> QED
        BY <2>1, <2>2, <3>1, <4>1, ZenonT(60)
    <3>5. handler[h].kind \in {"webhook", "confirm"}
      BY <1>2 DEF GetPayment, WellFormed, Carries
    <3>6. \A g \in Handlers \ {h} :
             /\ handler'[g].kind = handler[g].kind
             /\ handler'[g].step = handler[g].step
             /\ handler'[g].id = handler[g].id
             /\ handler'[g].at = handler[g].at
             /\ handler'[g].user = handler[g].user
      BY <3>3
    <3>7. WellFormed'
      BY <2>1, <3>1, <3>2, <3>3, <3>5, <3>6 DEF WellFormed, Carries
    <3> QED
      BY <3>4, <3>7
  <2>3. CASE Answer(h)
    BY <1>2, <2>1, <2>3 DEF GetPayment, Answer, AnswerFailed, history, WellFormed, Carries
  <2> QED
    BY <1>2, <2>2, <2>3 DEF GetPayment, AnswerFailed
<1>3. CASE FetchTiers(h)
  <2>1. faults' \in Nat
    BY <1>0, <1>3 DEF FetchTiers, AnswerFailed
  <2>2. CASE Answer(h)
    BY <1>3, <2>1, <2>2 DEF FetchTiers, Answer, AnswerFailed, history, WellFormed, Carries
  <2>3. CASE /\ handler' = [handler EXCEPT ![h].step = "commit", ![h].snap = tier]
             /\ UNCHANGED <<due, abandoned>>
    <3>1. /\ handler'[h].step = "commit"
          /\ handler'[h].kind = handler[h].kind /\ handler'[h].at = handler[h].at
          /\ handler'[h].id = handler[h].id /\ handler'[h].user = handler[h].user
          /\ \A g \in Handlers \ {h} : handler'[g] = handler[g]
      BY <2>3
    <3>2. /\ UNCHANGED <<tier, payment, due, record, applied, granted, abandoned>>
          /\ fresh' \subseteq Handlers
      BY <1>3, <2>3 DEF FetchTiers, history, Answer, AnswerFailed
    <3>3. handler' \in [Handlers -> HandlerStates]
      BY <2>3, SnapshotUpdate
    <3>4. TypeOK'
      BY <2>1, <3>2, <3>3
    <3>5. handler[h].step = "fetch"
      BY <1>3 DEF FetchTiers
    <3>6. WellFormed'
      BY <3>1, <3>2, <3>5 DEF WellFormed, Carries
    <3> QED
      BY <3>4, <3>6
  <2> QED
    BY <1>3, <2>2, <2>3 DEF FetchTiers, AnswerFailed
<1>4. CASE CommitTiers(h)
  <2>1. handler[h].user \in Users /\ handler[h].tier \in Tiers
    BY <1>4 DEF CommitTiers, WellFormed, Carries
  <2>2. tier' \in [Users -> Tiers]
    BY <1>4, <2>1 DEF CommitTiers, Wanted
  <2>3. applied' \subseteq PaymentIds
    BY <1>4 DEF CommitTiers, AfterCommit
  <2>4. /\ fresh' \subseteq Handlers /\ faults' = faults
        /\ UNCHANGED <<payment, due, record, granted, abandoned>>
    BY <1>4 DEF CommitTiers
  <2>5. CASE handler' = [handler EXCEPT ![h] = Idle]
    <3>1. TypeOK'
      BY <2>2, <2>3, <2>4, <2>5
    <3>2. WellFormed'
      BY <2>4, <2>5 DEF WellFormed, Carries
    <3> QED
      BY <3>1, <3>2
  <2>6. CASE /\ handler[h].kind # "admin"
             /\ handler' = [handler EXCEPT ![h].step = "record",
                                            ![h].snap = NoTiers]
    <3>1. TypeOK'
      <4>1. NoTiers \in [Users -> Tiers]
        OBVIOUS
      <4>2. handler' \in [Handlers -> HandlerStates]
        BY <2>6, <4>1, SnapshotUpdate
      <4> QED
        BY <2>2, <2>3, <2>4, <4>2
    <3>2. WellFormed'
      BY <1>4, <2>4, <2>6 DEF CommitTiers, WellFormed, Carries
    <3> QED
      BY <3>1, <3>2
  <2> QED
    BY <1>4, <2>5, <2>6 DEF CommitTiers, AfterCommit
<1>5. CASE RejectTiers(h)
  BY <1>0, <1>5 DEF RejectTiers, Answer, AnswerFailed, history, WellFormed, Carries
<1>6. CASE StorePaid(h)
  BY <1>6 DEF StorePaid, Answer, AnswerFailed, history, WellFormed, Carries
<1> QED
  BY <1>1, <1>2, <1>3, <1>4, <1>5, <1>6 DEF HandlerStep

LEMMA NextTypeInv == TypeInv /\ [Next]_vars => TypeInv'
<1> SUFFICES ASSUME TypeInv, [Next]_vars PROVE TypeInv'
  OBVIOUS
<1> USE PaymentAssumption
    DEF TypeInv, TypeOK, HandlerStates, NoTiers, Idle, Statuses, Records, Kinds, Steps
<1>1. CASE UNCHANGED vars
  BY <1>1 DEF vars, WellFormed, Carries
<1>2. ASSUME NEW p \in PaymentIds, Deliver(p)
      PROVE  TypeInv'
  <2>1. PICK h \in Handlers, r \in Replicas : Webhook(h, r, p)
    BY <1>2 DEF Deliver
  <2>2. CASE UNCHANGED handler
    BY <2>1, <2>2 DEF Webhook, history, WellFormed, Carries
  <2>3. CASE handler' = [handler EXCEPT
                           ![h] = [Idle EXCEPT !.kind = "webhook", !.step = "ask",
                                               !.at = r, !.id = p]]
    <3> HIDE DEF TypeInv, TypeOK, HandlerStates, Idle, Kinds, Steps
    <3>1. PICK x : x = ForPayment("webhook", "ask", r, p)
      OBVIOUS
    <3>2. handler' = [handler EXCEPT ![h] = x]
      BY <2>3, <3>1 DEF ForPayment
    <3>3. /\ UNCHANGED <<tier, fresh, payment, record, applied, granted, abandoned,
                      faults>>
          /\ due' \subseteq due
      BY <2>1 DEF Webhook, history
    <3>4. /\ x \in HandlerStates
          /\ x.kind = "webhook" /\ x.step = "ask" /\ x.at = r /\ x.id = p
      <4>1. "webhook" \in Kinds /\ "ask" \in Steps
        BY DEF Kinds, Steps
      <4> QED
        BY <3>1, <4>1, PaymentStart
    <3>5. handler' \in [Handlers -> HandlerStates]
      BY <3>2, <3>4 DEF TypeInv, TypeOK
    <3>6. TypeOK'
      BY <3>3, <3>5 DEF TypeInv, TypeOK
    <3>7. Carries(x)'
      BY <3>4 DEF Carries
    <3>8. \A q \in PaymentIds : payment'[q].status # "none" => payment'[q].user \in Users
      BY <3>3 DEF TypeInv, WellFormed
    <3>9. WellFormed'
      BY <3>2, <3>3, <3>7, <3>8, StartWellFormed
    <3> QED
      BY <3>6, <3>9 DEF TypeInv
  <2> QED
    BY <2>1, <2>2, <2>3 DEF Webhook
<1>3. ASSUME NEW p \in PaymentIds, SettlePayment(p)
      PROVE  TypeInv'
  BY <1>3 DEF SettlePayment, history, WellFormed, Carries
<1>4. ASSUME NEW p \in PaymentIds, CallAgain(p)
      PROVE  TypeInv'
  BY <1>4 DEF CallAgain, Fails, history, WellFormed, Carries
<1>5. ASSUME NEW r \in Replicas, Restart(r)
      PROVE  TypeInv'
  BY <1>5 DEF Restart, Fails, history, WellFormed, Carries
<1> QED
  BY <1>1, <1>2, <1>3, <1>4, <1>5, RequestTypeInv, StepTypeInv DEF Next

\* Every variable keeps its type: only tiers of tierDefs are ever stored, and
\* only for users (SetUserTier in tiers.go).
THEOREM TypeCorrect == Spec => []TypeOK
<1>1. TypeInv => TypeOK
  BY DEF TypeInv
<1> QED
  BY <1>1, InitTypeInv, NextTypeInv, PTL DEF Spec

-----------------------------------------------------------------------------
(***************************************************************************)
(* What a handler may rely on.  A webhook or a confirmation that goes on   *)
(* to the ConfigMap works for a payment that is paid, and stays so; an     *)
(* admin's request writes what was granted; what goes on record has been   *)
(* applied; a payment that is being created has not been sent to its user. *)
(***************************************************************************)
Pays(h) == handler[h].kind \in {"webhook", "confirm"}

Honest(h) ==
    /\ Pays(h) /\ handler[h].step \in {"fetch", "commit"} =>
         /\ payment[handler[h].id].status = "paid"
         /\ payment[handler[h].id].user = handler[h].user
         /\ payment[handler[h].id].tier = handler[h].tier
    /\ Pays(h) /\ handler[h].step = "record" => handler[h].id \in applied
    /\ handler[h].kind = "admin" => /\ handler[h].step \in {"fetch", "commit"}
                                    /\ handler[h].tier \in granted[handler[h].user]
    /\ handler[h].kind = "create" => payment[handler[h].id].status = "unsent"

CreatesApart ==
    \A h, g \in Handlers :
        handler[h].kind = "create" /\ handler[g].kind = "create"
          /\ handler[h].id = handler[g].id => h = g

FreshSnapshot ==
    \A h \in fresh : At(h, "commit") /\ handler[h].snap = tier

AppliedPaid == \A p \in applied : payment[p].status = "paid"

PayInv ==
    /\ TypeInv
    /\ FreshSnapshot
    /\ \A h \in Handlers : Honest(h)
    /\ CreatesApart
    /\ AppliedPaid
    /\ RecordedIsApplied
    /\ TierJustified

LEMMA InitPayInv == Init => PayInv
<1> SUFFICES ASSUME Init PROVE PayInv
  OBVIOUS
<1>1. FreshSnapshot /\ CreatesApart /\ AppliedPaid /\ RecordedIsApplied
  BY DEF Init, FreshSnapshot, CreatesApart, AppliedPaid, RecordedIsApplied, Idle
<1>2. \A h \in Handlers : Honest(h)
  BY DEF Init, Honest, Pays, Idle
<1>3. TierJustified
  BY DEF Init, TierJustified, NoTiers
<1> QED
  BY <1>1, <1>2, <1>3, InitTypeInv DEF PayInv

\* A step of one handler that writes neither tiers nor payments nor records
\* keeps PayInv if it leaves its own handler honest.
LEMMA QuietPayInv ==
    ASSUME PayInv, TypeInv', NEW h \in Handlers,
           \A g \in Handlers \ {h} : handler'[g] = handler[g],
           UNCHANGED <<tier, payment, record, applied>>,
           \A u \in Users : granted[u] \subseteq granted'[u],
           fresh' \subseteq fresh \cup {h},
           h \in fresh' => At(h, "commit")' /\ handler'[h].snap = tier,
           handler'[h].kind # "create",
           Honest(h)'
    PROVE  PayInv'
<1> USE DEF PayInv
<1>1. FreshSnapshot'
  BY DEF FreshSnapshot, At, TypeInv, TypeOK
<1>2. ASSUME NEW g \in Handlers
      PROVE  Honest(g)'
  <2>1. CASE g = h
    BY <2>1
  <2>2. CASE g # h
    <3>1. handler'[g] = handler[g] /\ Honest(g)
      BY <2>2
    <3>2. handler[g].kind = "admin" => handler[g].user \in Users
      BY <3>1 DEF Honest, TypeInv, WellFormed, Carries
    <3> QED
      BY <3>1, <3>2 DEF Honest, Pays
  <2> QED
    BY <2>1, <2>2
<1>3. CreatesApart'
  BY DEF CreatesApart
<1>4. AppliedPaid' /\ RecordedIsApplied'
  BY DEF AppliedPaid, RecordedIsApplied
<1>5. TierJustified'
  BY DEF TierJustified
<1> QED
  BY <1>1, <1>2, <1>3, <1>4, <1>5

\* Starting a payment, or sending it to its user, touches no other payment.
LEMMA CreatePayInv ==
    ASSUME PayInv, TypeInv', NEW h \in Handlers, NEW p \in PaymentIds,
           \A g \in Handlers \ {h} : handler'[g] = handler[g],
           UNCHANGED <<tier, fresh, applied, granted>>,
           h \notin fresh,
           \A q \in PaymentIds \ {p} : payment'[q] = payment[q],
           payment[p].status # "paid",
           \A g \in Handlers \ {h} :
               ~(handler[g].kind = "create" /\ handler[g].id = p),
           \A r \in Replicas : \A q \in PaymentIds :
               record'[r][q] = "paid" => record[r][q] = "paid",
           \/ handler'[h] = Idle
           \/ /\ handler'[h].kind = "create" /\ handler'[h].id = p
              /\ payment'[p].status = "unsent"
    PROVE  PayInv'
<1> USE DEF PayInv
<1>1. FreshSnapshot'
  <2>1. fresh \subseteq Handlers
    BY DEF TypeInv, TypeOK
  <2>2. \A g \in fresh : handler'[g] = handler[g]
    BY <2>1
  <2> QED
    BY <2>2 DEF FreshSnapshot, At
<1>2. ASSUME NEW g \in Handlers
      PROVE  Honest(g)'
  <2>1. CASE g = h
    BY <2>1 DEF Honest, Pays, Idle
  <2>2. CASE g # h
    <3>1. handler'[g] = handler[g] /\ Honest(g)
      BY <2>2
    <3>2. handler[g].kind \in {"create", "webhook", "confirm"} =>
            handler[g].id \in PaymentIds
      BY DEF TypeInv, WellFormed, Carries
    <3>3. Pays(g) /\ handler[g].step \in {"fetch", "commit"} =>
            payment'[handler[g].id] = payment[handler[g].id]
      BY <3>1, <3>2 DEF Honest, Pays
    <3>4. handler[g].kind = "create" =>
            payment'[handler[g].id] = payment[handler[g].id]
      BY <2>2, <3>2
    <3> QED
      BY <3>1, <3>3, <3>4 DEF Honest, Pays
  <2> QED
    BY <2>1, <2>2
<1>3. CreatesApart'
  BY DEF CreatesApart, Idle
<1>4. AppliedPaid' /\ RecordedIsApplied'
  BY DEF AppliedPaid, RecordedIsApplied, TypeInv, TypeOK
<1>5. TierJustified'
  <2>1. \A q \in applied : payment'[q] = payment[q]
    BY DEF AppliedPaid, TypeInv, TypeOK
  <2> QED
    BY <2>1 DEF TierJustified
<1> QED
  BY <1>1, <1>2, <1>3, <1>4, <1>5

LEMMA RequestPayInv ==
    ASSUME PayInv, TypeInv', NEW h \in Handlers, Request(h)
    PROVE  PayInv'
<1> USE DEF PayInv, TypeInv, TypeOK
<1>0. handler[h] = Idle /\ h \notin fresh
  <2>1. handler[h] = Idle
    BY DEF Request, CreatePayment, ConfirmPayment, SetUserTier
  <2> QED
    BY <2>1 DEF FreshSnapshot, At, Idle
<1>1. ASSUME NEW r \in Replicas, NEW u \in Users, NEW t \in Payable,
             NEW p \in PaymentIds, CreatePayment(h, r, u, t, p)
      PROVE  PayInv'
  <2>1. /\ \A g \in Handlers \ {h} : handler'[g] = handler[g]
        /\ UNCHANGED <<tier, fresh, applied, granted, record>>
        /\ \A q \in PaymentIds \ {p} : payment'[q] = payment[q]
        /\ payment[p].status = "none" /\ payment'[p].status = "unsent"
        /\ handler'[h].kind = "create" /\ handler'[h].id = p
    BY <1>1 DEF CreatePayment, history, Idle, HandlerStates
  <2>2. \A g \in Handlers : ~(handler[g].kind = "create" /\ handler[g].id = p)
    BY <2>1 DEF Honest
  <2>3. payment[p].status # "paid"
    BY <2>1
  <2>4. \A q \in Replicas : \A i \in PaymentIds :
            record'[q][i] = "paid" => record[q][i] = "paid"
    BY <2>1
  <2> HIDE DEF PayInv, TypeInv, TypeOK
  <2> QED
    BY <1>0, <2>1, <2>2, <2>3, <2>4, CreatePayInv
<1>2. ASSUME NEW r \in Replicas, NEW p \in PaymentIds, ConfirmPayment(h, r, p)
      PROVE  PayInv'
  <2>1. /\ \A g \in Handlers \ {h} : handler'[g] = handler[g]
        /\ UNCHANGED <<tier, fresh, payment, record, applied, granted>>
        /\ handler'[h].kind = "confirm" /\ handler'[h].step = "ask"
    BY <1>2 DEF ConfirmPayment, history, Idle, HandlerStates
  <2>2. Honest(h)'
    BY <2>1 DEF Honest, Pays
  <2> QED
    BY <1>0, <2>1, <2>2, QuietPayInv
<1>3. ASSUME NEW r \in Replicas, NEW u \in Users, NEW t \in Tiers,
             SetUserTier(h, r, u, t)
      PROVE  PayInv'
  <2>1. /\ \A g \in Handlers \ {h} : handler'[g] = handler[g]
        /\ UNCHANGED <<tier, fresh, payment, record, applied>>
        /\ handler'[h].kind = "admin" /\ handler'[h].step = "fetch"
        /\ handler'[h].user = u /\ handler'[h].tier = t
    BY <1>3 DEF SetUserTier, Idle, HandlerStates
  <2>2. t \in granted'[u] /\ \A v \in Users : granted[v] \subseteq granted'[v]
    BY <1>3 DEF SetUserTier
  <2>3. Honest(h)'
    BY <2>1, <2>2 DEF Honest, Pays
  <2> QED
    BY <1>0, <2>1, <2>2, <2>3, QuietPayInv
<1> QED
  BY <1>1, <1>2, <1>3 DEF Request

\* The handler answers and changes nothing else that matters.
LEMMA AnswerPayInv ==
    ASSUME PayInv, TypeInv', NEW h \in Handlers, Answer(h),
           UNCHANGED <<tier, payment, record, applied, granted>>,
           fresh' \subseteq fresh \ {h}
    PROVE  PayInv'
<1>1. handler'[h] = Idle /\ \A g \in Handlers \ {h} : handler'[g] = handler[g]
  BY DEF Answer, PayInv, TypeInv, TypeOK
<1>2. Honest(h)'
  BY <1>1 DEF Honest, Pays, Idle
<1>3. handler'[h].kind # "create" /\ h \notin fresh' /\ fresh' \subseteq fresh \cup {h}
  BY <1>1 DEF Idle
<1>4. \A u \in Users : granted[u] \subseteq granted'[u]
  OBVIOUS
<1> QED
  BY <1>1, <1>2, <1>3, <1>4, QuietPayInv

\* The commit of the ConfigMap: only the tier of the handler's user changes,
\* to one that was paid or granted.
LEMMA CommitPayInv ==
    ASSUME PayInv, TypeInv', NEW h \in Handlers, CommitTiers(h)
    PROVE  PayInv'
<1> USE DEF PayInv, TypeInv, TypeOK
<1> DEFINE u == handler[h].user
<1>1. /\ At(h, "commit") /\ u \in Users
      /\ handler[h].kind \in {"webhook", "confirm", "admin"}
      /\ UNCHANGED <<payment, due, record, granted>>
  BY DEF CommitTiers, At, WellFormed, Carries
<1>2. tier' = [tier EXCEPT ![u] = handler[h].tier]
  BY DEF CommitTiers, Wanted, FreshSnapshot
<1>3. \A g \in Handlers \ {h} : handler'[g] = handler[g]
  BY DEF CommitTiers, AfterCommit
<1>4. \/ handler[h].kind = "admin" /\ handler'[h] = Idle
      \/ /\ handler'[h].kind = handler[h].kind /\ handler'[h].id = handler[h].id
         /\ handler'[h].step = "record" /\ Pays(h)
  BY <1>1 DEF CommitTiers, AfterCommit, Pays, HandlerStates
<1>5. /\ applied \subseteq applied'
      /\ Pays(h) => handler[h].id \in applied' /\ payment[handler[h].id].status = "paid"
      /\ \A p \in applied' : payment[p].status = "paid"
  <2>1. Pays(h) => handler[h].id \in PaymentIds /\ handler[h].id # None
    BY PaymentAssumption DEF WellFormed, Carries, Pays
  <2>2. ~Pays(h) => handler[h].id = None
    BY <1>1 DEF WellFormed, Carries, Pays
  <2>3. Pays(h) => payment[handler[h].id].status = "paid"
    BY <1>1 DEF Honest, At
  <2>4. applied' = applied \cup ({handler[h].id} \ {None})
    BY DEF CommitTiers, AfterCommit
  <2> QED
    BY <2>1, <2>2, <2>3, <2>4 DEF AppliedPaid
<1>6. FreshSnapshot'
  <2>1. CASE fresh' = {}
    BY <2>1 DEF FreshSnapshot
  <2>2. CASE tier' = tier /\ fresh' = fresh \ {h}
    BY <1>3, <2>2 DEF FreshSnapshot, At
  <2> QED
    BY <2>1, <2>2 DEF CommitTiers
<1>7. ASSUME NEW g \in Handlers
      PROVE  Honest(g)'
  <2>1. CASE g = h
    BY <1>4, <1>5, <2>1 DEF Honest, Pays, Idle
  <2>2. CASE g # h
    <3>1. handler'[g] = handler[g] /\ Honest(g)
      BY <1>3, <2>2
    <3> QED
      BY <1>1, <1>5, <3>1 DEF Honest, Pays
  <2> QED
    BY <2>1, <2>2
<1>8. CreatesApart'
  BY <1>1, <1>3, <1>4 DEF CreatesApart, Idle
<1>9. AppliedPaid' /\ RecordedIsApplied'
  BY <1>1, <1>5 DEF AppliedPaid, RecordedIsApplied
<1>10. TierJustified'
  <2> SUFFICES ASSUME NEW v \in Users
               PROVE  \/ tier'[v] \in granted[v]
                      \/ \E p \in applied' : /\ payment[p].status = "paid"
                                             /\ payment[p].user = v
                                             /\ payment[p].tier = tier'[v]
    BY <1>1 DEF TierJustified
  <2>1. CASE v = u /\ Pays(h)
    BY <1>1, <1>2, <1>5, <2>1 DEF Honest, At
  <2>2. CASE v = u /\ ~Pays(h)
    BY <1>1, <1>2, <2>2 DEF Honest, Pays
  <2>3. CASE v # u
    BY <1>2, <1>5, <2>3 DEF TierJustified
  <2> QED
    BY <2>1, <2>2, <2>3
<1> QED
  BY <1>6, <1>7, <1>8, <1>9, <1>10

LEMMA StepPayInv ==
    ASSUME PayInv, TypeInv', NEW h \in Handlers, HandlerStep(h)
    PROVE  PayInv'
<1> USE DEF PayInv, TypeInv, TypeOK
<1>1. CASE StorePending(h)
  <2> DEFINE p == handler[h].id
  <2>1. /\ handler[h].kind = "create" /\ p \in PaymentIds
        /\ payment[p].status = "unsent"
    BY <1>1 DEF StorePending, WellFormed, Carries, Honest
  <2>2. h \notin fresh
    BY <2>1 DEF FreshSnapshot, At, WellFormed, Carries
  <2>3. /\ \A g \in Handlers \ {h} : handler'[g] = handler[g]
        /\ handler'[h] = Idle
        /\ UNCHANGED <<tier, fresh, applied, granted>>
        /\ \A q \in PaymentIds \ {p} : payment'[q] = payment[q]
    BY <1>1 DEF StorePending, history
  <2>4. \A r \in Replicas : \A q \in PaymentIds :
               record'[r][q] = "paid" => record[r][q] = "paid"
    BY <1>1 DEF StorePending
  <2>5. \A g \in Handlers \ {h} : ~(handler[g].kind = "create" /\ handler[g].id = p)
    BY <2>1 DEF CreatesApart
  <2> QED
    BY <2>1, <2>2, <2>3, <2>4, <2>5, CreatePayInv
<1>2. CASE GetPayment(h)
  <2>1. /\ UNCHANGED <<tier, fresh, payment, record, applied, granted>>
        /\ At(h, "ask") /\ h \notin fresh
    BY <1>2 DEF GetPayment, history, AnswerFailed, FreshSnapshot, At
  <2>2. CASE Answer(h)
    BY <2>1, <2>2, AnswerPayInv
  <2>3. CASE /\ payment[handler[h].id].status = "paid"
             /\ handler' = [handler EXCEPT
                              ![h].step = "fetch",
                              ![h].user = payment[handler[h].id].user,
                              ![h].tier = payment[handler[h].id].tier]
    <3>1. /\ \A g \in Handlers \ {h} : handler'[g] = handler[g]
          /\ handler'[h].kind = handler[h].kind /\ handler'[h].id = handler[h].id
          /\ handler'[h].step = "fetch"
          /\ handler'[h].user = payment[handler[h].id].user
          /\ handler'[h].tier = payment[handler[h].id].tier
      BY <2>3 DEF HandlerStates
    <3>2. handler[h].kind \in {"webhook", "confirm"}
      BY <2>1 DEF WellFormed, Carries, At
    <3>3. Honest(h)'
      BY <2>1, <2>3, <3>1, <3>2 DEF Honest, Pays
    <3> QED
      BY <2>1, <3>1, <3>2, <3>3, QuietPayInv
  <2> QED
    BY <1>2, <2>2, <2>3 DEF GetPayment, AnswerFailed
<1>3. CASE FetchTiers(h)
  <2>1. /\ UNCHANGED <<tier, payment, record, applied, granted>>
        /\ At(h, "fetch") /\ h \notin fresh
    BY <1>3 DEF FetchTiers, history, AnswerFailed, FreshSnapshot, At
  <2>2. CASE Answer(h) /\ UNCHANGED fresh
    BY <2>1, <2>2, AnswerPayInv
  <2>3. CASE /\ handler' = [handler EXCEPT ![h].step = "commit", ![h].snap = tier]
             /\ fresh' = fresh \cup {h}
    <3>1. /\ \A g \in Handlers \ {h} : handler'[g] = handler[g]
          /\ handler'[h].kind = handler[h].kind /\ handler'[h].id = handler[h].id
          /\ handler'[h].step = "commit" /\ handler'[h].snap = tier
          /\ handler'[h].user = handler[h].user
          /\ handler'[h].tier = handler[h].tier
      BY <2>3 DEF HandlerStates
    <3>2. handler[h].kind \in {"webhook", "confirm", "admin"}
      BY <2>1 DEF WellFormed, Carries, At
    <3>3. Honest(h)'
      BY <2>1, <3>1, <3>2 DEF Honest, Pays, At
    <3> QED
      BY <2>1, <2>3, <3>1, <3>2, <3>3, QuietPayInv DEF At
  <2> QED
    BY <1>3, <2>2, <2>3 DEF FetchTiers, AnswerFailed
<1>4. CASE RejectTiers(h)
  BY <1>4, AnswerPayInv DEF RejectTiers, AnswerFailed
<1>5. CASE StorePaid(h)
  <2>1. /\ handler'[h] = Idle
        /\ \A g \in Handlers \ {h} : handler'[g] = handler[g]
        /\ UNCHANGED <<tier, fresh, payment, applied, granted>>
        /\ h \notin fresh
    BY <1>5 DEF StorePaid, Answer, history, FreshSnapshot, At
  <2>2. handler[h].id \in applied
    BY <1>5 DEF StorePaid, Honest, Pays, At
  <2>3. RecordedIsApplied'
    BY <1>5, <2>1, <2>2 DEF StorePaid, RecordedIsApplied
  <2>4. FreshSnapshot'
    BY <2>1 DEF FreshSnapshot, At
  <2>5. \A g \in Handlers : Honest(g)'
    BY <2>1 DEF Honest, Pays, Idle
  <2>6. CreatesApart'
    BY <2>1 DEF CreatesApart, Idle
  <2>7. AppliedPaid' /\ TierJustified'
    BY <2>1 DEF AppliedPaid, TierJustified
  <2> QED
    BY <2>3, <2>4, <2>5, <2>6, <2>7
<1> QED
  BY <1>1, <1>2, <1>3, <1>4, <1>5, CommitPayInv DEF HandlerStep

LEMMA NextPayInv == PayInv /\ [Next]_vars => PayInv'
<1> SUFFICES ASSUME PayInv, [Next]_vars PROVE PayInv'
  OBVIOUS
<1>1. TypeInv'
  BY NextTypeInv DEF PayInv
<1> USE DEF PayInv, TypeInv, TypeOK
<1>2. CASE UNCHANGED <<tier, fresh, payment, record, handler, applied, granted>>
  BY <1>1, <1>2 DEF FreshSnapshot, At, Honest, Pays, CreatesApart, AppliedPaid,
                    RecordedIsApplied, TierJustified
<1>3. ASSUME NEW p \in PaymentIds, Deliver(p)
      PROVE  PayInv'
  <2>1. PICK h \in Handlers, r \in Replicas : Webhook(h, r, p)
    BY <1>3 DEF Deliver
  <2>2. UNCHANGED <<tier, fresh, payment, record, applied, granted>>
    BY <2>1 DEF Webhook, history
  <2>3. CASE UNCHANGED handler
    BY <1>2, <2>2, <2>3
  <2>4. CASE handler' # handler
    <3>0. handler[h] = Idle
          /\ handler' = [handler EXCEPT
                           ![h] = [Idle EXCEPT !.kind = "webhook", !.step = "ask",
                                               !.at = r, !.id = p]]
      BY <2>1, <2>4 DEF Webhook
    <3>1. /\ \A g \in Handlers \ {h} : handler'[g] = handler[g]
          /\ handler'[h].kind = "webhook" /\ handler'[h].step = "ask"
          /\ h \notin fresh
      BY <3>0 DEF Idle, FreshSnapshot, At
    <3>2. Honest(h)'
      BY <3>1 DEF Honest, Pays
    <3> QED
      BY <1>1, <2>2, <3>1, <3>2, QuietPayInv
  <2> QED
    BY <2>3, <2>4
<1>4. ASSUME NEW p \in PaymentIds, SettlePayment(p)
      PROVE  PayInv'
  <2>1. /\ UNCHANGED <<tier, fresh, record, handler, applied, granted>>
        /\ payment[p].status = "open"
        /\ \A q \in PaymentIds \ {p} : payment'[q] = payment[q]
    BY <1>4 DEF SettlePayment, history
  <2>2. ASSUME NEW g \in Handlers
        PROVE  Honest(g)'
    <3>1. Honest(g) /\ handler'[g] = handler[g]
      BY <2>1
    <3>2. handler[g].kind \in {"create", "webhook", "confirm"} =>
            handler[g].id \in PaymentIds
      BY DEF WellFormed, Carries
    <3> QED
      BY <2>1, <3>1, <3>2 DEF Honest, Pays
  <2>3. \A q \in applied : payment'[q] = payment[q]
    BY <2>1 DEF AppliedPaid
  <2>4. AppliedPaid' /\ TierJustified'
    BY <2>1, <2>3 DEF AppliedPaid, TierJustified
  <2>5. FreshSnapshot' /\ CreatesApart' /\ RecordedIsApplied'
    BY <2>1 DEF FreshSnapshot, At, CreatesApart, RecordedIsApplied
  <2> QED
    BY <1>1, <2>2, <2>4, <2>5
<1>5. ASSUME NEW p \in PaymentIds, CallAgain(p)
      PROVE  PayInv'
  BY <1>2, <1>5 DEF CallAgain, history
<1>6. ASSUME NEW r \in Replicas, Restart(r)
      PROVE  PayInv'
  <2>1. /\ UNCHANGED <<tier, payment, applied, granted>>
        /\ \A h \in Handlers : handler'[h] = Idle \/ handler'[h] = handler[h]
        /\ \A h \in fresh' : h \in fresh /\ handler'[h] = handler[h]
        /\ \A q \in Replicas, p \in PaymentIds :
             record'[q][p] = "paid" => record[q][p] = "paid"
    BY <1>6 DEF Restart, history
  <2>2. \A g \in Handlers : Honest(g)'
    BY <2>1 DEF Honest, Pays, Idle
  <2>3. FreshSnapshot'
    BY <2>1 DEF FreshSnapshot, At
  <2>4. CreatesApart'
    BY <2>1 DEF CreatesApart, Idle
  <2>5. AppliedPaid' /\ RecordedIsApplied' /\ TierJustified'
    BY <2>1 DEF AppliedPaid, RecordedIsApplied, TierJustified
  <2> QED
    BY <1>1, <2>2, <2>3, <2>4, <2>5
<1>7. CASE UNCHANGED vars
  BY <1>2, <1>7 DEF vars
<1> QED
  BY <1>1, <1>3, <1>4, <1>5, <1>6, <1>7, RequestPayInv, StepPayInv DEF Next

\* Nobody has a tier that was neither paid nor granted, whatever webhooks,
\* confirmations, admins, restarts and failures overlap (mollie.go).
THEOREM TiersJustified == Spec => []TierJustified
<1>1. PayInv => TierJustified
  BY DEF PayInv
<1> QED
  BY <1>1, InitPayInv, NextPayInv, PTL DEF Spec

\* A replica that has a payment on record as paid is right to answer
\* "already_processed" (HandleWebhook).
THEOREM RecordsTruthful == Spec => []RecordedIsApplied
<1>1. PayInv => RecordedIsApplied
  BY DEF PayInv
<1> QED
  BY <1>1, InitPayInv, NextPayInv, PTL DEF Spec

\* Whoever changes a tier is at its commit, works for that user, and goes on.
LEMMA WriterIsAtCommit ==
    ASSUME PayInv, Next, NEW u \in Users, tier'[u] # tier[u]
    PROVE  \E h \in Handlers : /\ At(h, "commit") /\ handler[h].user = u
                               /\ handler'[h].step # "commit"
<1> USE DEF PayInv, TypeInv, TypeOK
<1>1. PICK h \in Handlers : CommitTiers(h)
  <2>1. PICK h \in Handlers : Request(h) \/ HandlerStep(h)
    BY DEF Next, Deliver, Webhook, SettlePayment, CallAgain, Restart
  <2>2. ~Request(h)
    BY DEF Request, CreatePayment, ConfirmPayment, SetUserTier
  <2>3. /\ ~StorePending(h) /\ ~GetPayment(h) /\ ~FetchTiers(h)
        /\ ~RejectTiers(h) /\ ~StorePaid(h)
    BY DEF StorePending, GetPayment, FetchTiers, RejectTiers, StorePaid
  <2> QED
    BY <2>1, <2>2, <2>3 DEF HandlerStep
<1>2. handler[h].snap = tier /\ At(h, "commit") /\ handler[h].user \in Users
  BY <1>1 DEF CommitTiers, FreshSnapshot, At, WellFormed, Carries
<1>3. handler[h].user = u
  BY <1>1, <1>2 DEF CommitTiers, Wanted
<1>4. handler'[h].step # "commit"
  BY <1>1 DEF CommitTiers, AfterCommit, Idle, HandlerStates
<1> QED
  BY <1>2, <1>3, <1>4

\* The version check of the ConfigMap protects everybody else's tier from a
\* handler that fetched it earlier (SetUserTier in tiers.go).
THEOREM OtherTiersKept == Spec => OwnTierOnly
<1>1. PayInv /\ [Next]_vars =>
        [ \A u \in Users :
            tier'[u] # tier[u] =>
              \E h \in Handlers : /\ At(h, "commit") /\ handler[h].user = u
                                  /\ handler'[h].step # "commit" ]_vars
  BY WriterIsAtCommit DEF vars
<1> QED
  BY <1>1, InitPayInv, NextPayInv, PTL DEF Spec, OwnTierOnly
-----------------------------------------------------------------------------
(***************************************************************************)
(* Payments implements TierLedger.                                         *)
(***************************************************************************)
Bought(u) ==
    {t \in Tiers : \E p \in PaymentIds :
        payment[p].status = "paid" /\ payment[p].user = u /\ payment[p].tier = t}

LEMMA EntitledIs ==
    /\ Entitled = [u \in Users |-> granted[u] \cup Bought(u)]
    /\ Entitled' = [u \in Users |-> granted'[u] \cup Bought(u)']
BY DEF Entitled, Bought

LEMMA EntitledSame ==
    ASSUME UNCHANGED granted,
           \A p \in PaymentIds : payment[p].status = "paid" <=> payment'[p].status = "paid",
           \A p \in PaymentIds : payment[p].status = "paid" => payment'[p] = payment[p]
    PROVE  Entitled' = Entitled
<1>1. ASSUME NEW u \in Users
      PROVE  Bought(u)' = Bought(u)
  BY DEF Bought
<1> QED
  BY <1>1, EntitledIs

LEMMA EntitledPaid ==
    ASSUME UNCHANGED granted, NEW p \in PaymentIds, payment[p].status # "paid",
           payment'[p].status = "paid", NEW u \in Users, NEW t \in Tiers,
           payment'[p].user = u, payment'[p].tier = t,
           \A q \in PaymentIds \ {p} : payment'[q] = payment[q]
    PROVE  Entitled' = [Entitled EXCEPT ![u] = @ \cup {t}]
<1>1. \A v \in Users \ {u} : Bought(v)' = Bought(v)
  BY DEF Bought
<1>2. Bought(u)' = Bought(u) \cup {t}
  BY DEF Bought
<1> QED
  BY <1>1, <1>2, EntitledIs

LEMMA ClaimedSame ==
    ASSUME \A g \in Handlers :
             \/ handler'[g] = handler[g]
             \/ /\ handler[g].step \notin {"fetch", "commit"}
                /\ handler'[g].step \notin {"fetch", "commit"}
    PROVE  Claimed' = Claimed
BY DEF Claimed

\* The step of a handler that answers.
LEMMA AnswerDrops ==
    ASSUME TypeInv, NEW h \in Handlers, Answer(h), Entitled' = Entitled, UNCHANGED tier
    PROVE  Ledger!Next
<1>1. handler'[h] = Idle /\ \A g \in Handlers \ {h} : handler'[g] = handler[g]
  BY DEF Answer, TypeInv, TypeOK
<1>2. Claimed' = [g \in Handlers |-> IF g \in {h} THEN {} ELSE Claimed[g]]
  BY <1>1 DEF Claimed, Idle
<1>3. Ledger!Drop({h})
  BY <1>2 DEF Ledger!Drop
<1> QED
  BY <1>3 DEF Ledger!Next

LEMMA RequestOfLedger ==
    ASSUME PayInv, NEW h \in Handlers, Request(h)
    PROVE  Ledger!Next \/ UNCHANGED <<tier, Entitled, Claimed>>
<1> USE DEF PayInv, TypeInv, TypeOK
<1>1. ASSUME NEW r \in Replicas, NEW u \in Users, NEW t \in Payable, NEW p \in PaymentIds,
             CreatePayment(h, r, u, t, p)
      PROVE  UNCHANGED <<tier, Entitled, Claimed>>
  <2>1. /\ UNCHANGED <<tier, granted>>
        /\ payment[p].status = "none" /\ payment'[p].status = "unsent"
        /\ \A q \in PaymentIds \ {p} : payment'[q] = payment[q]
        /\ handler[h].step = "idle" /\ handler'[h].step = "record"
        /\ \A g \in Handlers \ {h} : handler'[g] = handler[g]
    BY <1>1 DEF CreatePayment, history, Idle, HandlerStates
  <2>2. Entitled' = Entitled
    BY <2>1, EntitledSame
  <2>3. Claimed' = Claimed
    BY <2>1, ClaimedSame
  <2> QED
    BY <2>1, <2>2, <2>3
<1>2. ASSUME NEW r \in Replicas, NEW p \in PaymentIds, ConfirmPayment(h, r, p)
      PROVE  UNCHANGED <<tier, Entitled, Claimed>>
  <2>1. /\ UNCHANGED <<tier, granted, payment>>
        /\ handler[h].step = "idle" /\ handler'[h].step = "ask"
        /\ \A g \in Handlers \ {h} : handler'[g] = handler[g]
    BY <1>2 DEF ConfirmPayment, history, Idle, HandlerStates
  <2>2. Entitled' = Entitled
    BY <2>1, EntitledSame
  <2>3. Claimed' = Claimed
    BY <2>1, ClaimedSame
  <2> QED
    BY <2>1, <2>2, <2>3
<1>3. ASSUME NEW r \in Replicas, NEW u \in Users, NEW t \in Tiers, SetUserTier(h, r, u, t)
      PROVE  Ledger!Next
  <2>1. /\ UNCHANGED <<tier, payment>> /\ granted' = [granted EXCEPT ![u] = @ \cup {t}]
        /\ handler[h].step = "idle" /\ handler'[h].step = "fetch"
        /\ handler'[h].user = u /\ handler'[h].tier = t
        /\ \A g \in Handlers \ {h} : handler'[g] = handler[g]
    BY <1>3 DEF SetUserTier, Idle, HandlerStates
  <2>2. Entitled' = [Entitled EXCEPT ![u] = @ \cup {t}]
    <3>1. \A v \in Users : Bought(v)' = Bought(v)
      BY <2>1 DEF Bought
    <3>2. granted'[u] = granted[u] \cup {t} /\ \A v \in Users \ {u} : granted'[v] = granted[v]
      BY <2>1
    <3> HIDE DEF PayInv
    <3> QED
      BY <3>1, <3>2, EntitledIs
  <2>3. Claimed[h] = {} /\ Claimed' = [Claimed EXCEPT ![h] = {<<u, t>>}]
    BY <2>1 DEF Claimed
  <2>4. Ledger!Grant(h, u, t)
    BY <2>1, <2>2, <2>3 DEF Ledger!Grant
  <2> QED
    BY <2>4 DEF Ledger!Next
<1> QED
  BY <1>1, <1>2, <1>3 DEF Request

LEMMA StepOfLedger ==
    ASSUME PayInv, NEW h \in Handlers, HandlerStep(h)
    PROVE  Ledger!Next \/ UNCHANGED <<tier, Entitled, Claimed>>
<1> USE DEF PayInv, TypeInv, TypeOK
<1>1. CASE StorePending(h)
  <2> DEFINE p == handler[h].id
  <2>1. /\ p \in PaymentIds /\ payment[p].status = "unsent"
        /\ handler[h].step \notin {"fetch", "commit"}
    BY <1>1 DEF StorePending, WellFormed, Carries, Honest
  <2>2. /\ UNCHANGED <<tier, granted>> /\ payment'[p].status = "open"
        /\ \A q \in PaymentIds \ {p} : payment'[q] = payment[q]
        /\ handler'[h].step = "idle" /\ \A g \in Handlers \ {h} : handler'[g] = handler[g]
    BY <1>1, <2>1 DEF StorePending, history, Idle
  <2>3. Entitled' = Entitled
    BY <2>1, <2>2, EntitledSame
  <2>4. Claimed' = Claimed
    BY <2>1, <2>2, ClaimedSame
  <2> QED
    BY <2>2, <2>3, <2>4
<1>2. CASE GetPayment(h)
  <2> DEFINE p == handler[h].id
  <2>1. /\ UNCHANGED <<tier, payment, granted>> /\ handler[h].step = "ask" /\ p \in PaymentIds
    BY <1>2 DEF GetPayment, history, AnswerFailed, At, WellFormed, Carries
  <2>2. Entitled' = Entitled
    BY <2>1, EntitledSame
  <2>3. CASE Answer(h)
    BY <2>1, <2>2, <2>3, AnswerDrops
  <2>4. CASE /\ payment[p].status = "paid"
             /\ handler' = [handler EXCEPT ![h].step = "fetch", ![h].user = payment[p].user,
                                           ![h].tier = payment[p].tier]
    <3> DEFINE u == payment[p].user
               t == payment[p].tier
    <3>1. u \in Users /\ t \in Tiers
      BY <2>1, <2>4 DEF WellFormed, Carries
    <3>2. t \in Entitled[u]
      BY <2>1, <2>4, <3>1 DEF Entitled
    <3>3. /\ handler'[h].step = "fetch" /\ handler'[h].user = u /\ handler'[h].tier = t
          /\ \A g \in Handlers \ {h} : handler'[g] = handler[g]
      BY <2>4 DEF HandlerStates
    <3>4. Claimed[h] = {} /\ Claimed' = [Claimed EXCEPT ![h] = {<<u, t>>}]
      BY <2>1, <3>3 DEF Claimed
    <3>5. Ledger!Claim(h, u, t)
      BY <2>1, <2>2, <3>2, <3>4 DEF Ledger!Claim
    <3> QED
      BY <3>1, <3>5 DEF Ledger!Next
  <2> QED
    BY <1>2, <2>3, <2>4 DEF GetPayment, AnswerFailed
<1>3. CASE FetchTiers(h)
  <2>1. UNCHANGED <<tier, payment, granted>> /\ handler[h].step = "fetch"
    BY <1>3 DEF FetchTiers, history, AnswerFailed, At
  <2>2. Entitled' = Entitled
    BY <2>1, EntitledSame
  <2>3. CASE Answer(h)
    BY <2>1, <2>2, <2>3, AnswerDrops
  <2>4. CASE handler' = [handler EXCEPT ![h].step = "commit", ![h].snap = tier]
    <3>1. /\ handler'[h].step = "commit" /\ handler'[h].user = handler[h].user
          /\ handler'[h].tier = handler[h].tier
          /\ \A g \in Handlers \ {h} : handler'[g] = handler[g]
      BY <2>4 DEF HandlerStates
    <3>2. Claimed' = Claimed
      BY <2>1, <3>1 DEF Claimed
    <3> QED
      BY <2>1, <2>2, <3>2
  <2> QED
    BY <1>3, <2>3, <2>4 DEF FetchTiers, AnswerFailed
<1>4. CASE CommitTiers(h)
  <2> DEFINE k == <<handler[h].user, handler[h].tier>>
  <2>1. /\ UNCHANGED <<payment, granted>> /\ handler[h].step = "commit" /\ h \in fresh
    BY <1>4 DEF CommitTiers, At
  <2>2. Entitled' = Entitled
    BY <2>1, EntitledSame
  <2>3. tier' = [tier EXCEPT ![k[1]] = k[2]]
    BY <1>4, <2>1 DEF CommitTiers, Wanted, FreshSnapshot
  <2>4. /\ handler'[h].step \notin {"fetch", "commit"}
        /\ \A g \in Handlers \ {h} : handler'[g] = handler[g]
    BY <1>4 DEF CommitTiers, AfterCommit, Idle, HandlerStates
  <2>5. k \in Claimed[h] /\ Claimed' = [Claimed EXCEPT ![h] = {}]
    BY <2>1, <2>4 DEF Claimed
  <2>6. Ledger!Apply(h)
    BY <2>2, <2>3, <2>5 DEF Ledger!Apply
  <2> QED
    BY <2>6 DEF Ledger!Next
<1>5. CASE RejectTiers(h)
  <2>1. UNCHANGED <<tier, payment, granted>> /\ Answer(h)
    BY <1>5 DEF RejectTiers, AnswerFailed
  <2>2. Entitled' = Entitled
    BY <2>1, EntitledSame
  <2> QED
    BY <2>1, <2>2, AnswerDrops
<1>6. CASE StorePaid(h)
  <2>1. UNCHANGED <<tier, payment, granted>> /\ Answer(h)
    BY <1>6 DEF StorePaid, history
  <2>2. Entitled' = Entitled
    BY <2>1, EntitledSame
  <2> QED
    BY <2>1, <2>2, AnswerDrops
<1> QED
  BY <1>1, <1>2, <1>3, <1>4, <1>5, <1>6 DEF HandlerStep

LEMMA NextOfLedger ==
    ASSUME PayInv, Next
    PROVE  Ledger!Next \/ UNCHANGED <<tier, Entitled, Claimed>>
<1> USE DEF PayInv, TypeInv, TypeOK
<1>1. ASSUME NEW p \in PaymentIds, Deliver(p)
      PROVE  UNCHANGED <<tier, Entitled, Claimed>>
  <2>1. PICK h \in Handlers, r \in Replicas : Webhook(h, r, p)
    BY <1>1 DEF Deliver
  <2>2. /\ UNCHANGED <<tier, payment, granted>> /\ handler[h].step = "idle"
        /\ \/ handler' = handler
           \/ handler'[h].step = "ask"
        /\ \A g \in Handlers \ {h} : handler'[g] = handler[g]
    <3>1. UNCHANGED <<tier, payment, granted>> /\ handler[h] = Idle
      BY <2>1 DEF Webhook, history
    <3>2. \/ handler' = handler
          \/ handler' = [handler EXCEPT
                            ![h] = [Idle EXCEPT !.kind = "webhook", !.step = "ask",
                                                !.at = r, !.id = p]]
      BY <2>1 DEF Webhook
    <3>3. CASE handler' = handler
      BY <3>1, <3>3 DEF Idle
    <3>4. CASE handler' = [handler EXCEPT
                             ![h] = [Idle EXCEPT !.kind = "webhook", !.step = "ask",
                                                 !.at = r, !.id = p]]
      BY <3>1, <3>4 DEF Idle
    <3> QED
      BY <3>2, <3>3, <3>4
  <2>3. Entitled' = Entitled
    BY <2>2, EntitledSame
  <2>4. Claimed' = Claimed
    BY <2>2, ClaimedSame
  <2> QED
    BY <2>2, <2>3, <2>4
<1>2. ASSUME NEW p \in PaymentIds, SettlePayment(p)
      PROVE  Ledger!Next \/ UNCHANGED <<tier, Entitled, Claimed>>
  <2>1. /\ UNCHANGED <<tier, handler, granted>> /\ payment[p].status = "open"
        /\ \A q \in PaymentIds \ {p} : payment'[q] = payment[q]
        /\ payment'[p].user \in Users /\ payment'[p].tier \in Tiers
    BY <1>2 DEF SettlePayment, history, WellFormed, Carries
  <2>2. Claimed' = Claimed
    BY <2>1, ClaimedSame
  <2>3. CASE payment'[p].status = "paid"
    <3>1. PICK u \in Users, t \in Tiers : payment'[p].user = u /\ payment'[p].tier = t
      BY <2>1
    <3>2. payment[p].status # "paid"
      BY <2>1
    <3>3. Entitled' = [Entitled EXCEPT ![u] = @ \cup {t}]
      <4>1. /\ UNCHANGED granted
            /\ \A q \in PaymentIds \ {p} : payment'[q] = payment[q]
        BY <2>1
      <4> HIDE DEF PayInv, TypeInv, TypeOK
      <4> QED
        BY <2>3, <3>1, <3>2, <4>1, EntitledPaid
    <3>4. Ledger!Pay(u, t)
      BY <2>1, <2>2, <3>3 DEF Ledger!Pay
    <3> QED
      BY <3>4 DEF Ledger!Next
  <2>4. CASE payment'[p].status # "paid"
    <3>1. Entitled' = Entitled
      BY <2>1, <2>4, EntitledSame
    <3> QED
      BY <2>1, <2>2, <3>1
  <2> QED
    BY <2>3, <2>4
<1>3. ASSUME NEW p \in PaymentIds, CallAgain(p)
      PROVE  UNCHANGED <<tier, Entitled, Claimed>>
  <2>1. UNCHANGED <<tier, payment, granted, handler>>
    BY <1>3 DEF CallAgain, history
  <2> QED
    BY <2>1, EntitledSame, ClaimedSame
<1>4. ASSUME NEW r \in Replicas, Restart(r)
      PROVE  Ledger!Next
  <2> DEFINE lost == {h \in Handlers : handler[h].at = r}
  <2>1. /\ UNCHANGED <<tier, payment, granted>>
        /\ handler' = [h \in Handlers |-> IF h \in lost THEN Idle ELSE handler[h]]
    BY <1>4 DEF Restart, history
  <2>2. Entitled' = Entitled
    BY <2>1, EntitledSame
  <2>3. Claimed' = [h \in Handlers |-> IF h \in lost THEN {} ELSE Claimed[h]]
    BY <2>1 DEF Claimed, Idle
  <2>4. Ledger!Drop(lost)
    BY <2>1, <2>2, <2>3 DEF Ledger!Drop
  <2> QED
    BY <2>4 DEF Ledger!Next
<1> QED
  BY <1>1, <1>2, <1>3, <1>4, RequestOfLedger, StepOfLedger DEF Next

\* Payments implements TierLedger: whatever webhooks, confirmations, admins,
\* restarts and failures overlap, a tier is claimed for a user who has paid it
\* or was given it, and a claim changes the tier of its own user only, once
\* (HandleWebhook, HandleConfirmPayment, SetUserTier in tiers.go).
THEOREM LedgerImplemented == Spec => LedgerSpec
<1>1. Init => Ledger!Init
  <2> SUFFICES ASSUME Init PROVE Ledger!Init
    OBVIOUS
  <2>1. tier = [u \in Users |-> Free]
    BY DEF Init, NoTiers
  <2>2. Entitled = [u \in Users |-> {Free}]
    BY DEF Init, Entitled
  <2>3. Claimed = [h \in Handlers |-> {}]
    BY DEF Init, Claimed, Idle
  <2> QED
    BY <2>1, <2>2, <2>3 DEF Ledger!Init
<1>2. PayInv /\ [Next]_vars => [Ledger!Next]_<<tier, Entitled, Claimed>>
  <2>1. ASSUME PayInv, UNCHANGED vars
        PROVE  UNCHANGED <<tier, Entitled, Claimed>>
    <3>1. UNCHANGED <<tier, payment, granted, handler>>
      BY <2>1 DEF vars, history
    <3> QED
      BY <3>1, EntitledSame, ClaimedSame
  <2> QED
    BY <2>1, NextOfLedger
<1> QED
  BY <1>1, <1>2, InitPayInv, NextPayInv, PTL
  DEF Spec, LedgerSpec, Ledger!Spec, Ledger!ledger
-----------------------------------------------------------------------------
(***************************************************************************)
(* Who ends Mollie's calls for a payment.                                  *)
(***************************************************************************)

\* A step that keeps what has been applied and abandoned, and whom Mollie calls
\* about, but for one payment that is one of the former or was not paid.
LEMMA KeptBut ==
    ASSUME TypeInv, PaidIsKept, UNCHANGED payment,
           applied \subseteq applied', abandoned \subseteq abandoned',
           NEW p, due \ {p} \subseteq due',
           \/ p \in due => p \in due'
           \/ p \in applied' \cup abandoned'
           \/ p \in PaymentIds /\ payment[p].status # "paid"
    PROVE  PaidIsKept'
BY DEF PaidIsKept

LEMMA StepKept ==
    ASSUME PayInv, PaidIsKept, NEW h \in Handlers, HandlerStep(h)
    PROVE  PaidIsKept'
<1> DEFINE p == handler[h].id
<1>1. /\ TypeInv /\ Honest(h) /\ Carries(handler[h])
      /\ handler[h].kind \in Kinds
  BY DEF PayInv, TypeInv, TypeOK, WellFormed, HandlerStates
<1>2. handler[h].kind \in {"webhook", "confirm"} => p \in PaymentIds
  BY <1>1 DEF Carries
<1>3. CASE StorePending(h)
  <2>1. /\ handler[h].kind = "create" /\ p \in PaymentIds
        /\ UNCHANGED <<due, applied, abandoned>>
        /\ payment' = [payment EXCEPT ![p].status = "open"]
    BY <1>1, <1>3 DEF StorePending, history, Carries
  <2>2. \A q \in PaymentIds : payment'[q].status = "paid" => payment[q].status = "paid"
    BY <1>1, <2>1 DEF TypeInv, TypeOK
  <2> QED
    BY <2>1, <2>2 DEF PaidIsKept
<1>4. CASE GetPayment(h)
  <2>1. handler[h].kind \in {"webhook", "confirm"} /\ p \in PaymentIds
    BY <1>1, <1>4 DEF GetPayment, At, Carries
  <2>2. /\ UNCHANGED <<payment, applied>> /\ abandoned \subseteq abandoned'
        /\ due \ {p} \subseteq due'
    BY <1>4 DEF GetPayment, Answer, AnswerFailed
  <2>3. \/ due \subseteq due' \/ p \in abandoned' \/ payment[p].status # "paid"
    BY <1>4 DEF GetPayment, Answer, AnswerFailed
  <2> QED
    BY <1>1, <2>1, <2>2, <2>3, KeptBut
<1>5. CASE FetchTiers(h) \/ RejectTiers(h)
  <2>1. /\ UNCHANGED <<payment, applied>> /\ abandoned \subseteq abandoned'
        /\ due \ {p} \subseteq due'
    BY <1>5 DEF FetchTiers, RejectTiers, Answer, AnswerFailed
  <2>2. due \subseteq due' \/ p \in abandoned'
    BY <1>5 DEF FetchTiers, RejectTiers, Answer, AnswerFailed
  <2> QED
    BY <1>1, <2>1, <2>2, KeptBut
<1>6. CASE CommitTiers(h)
  BY <1>6 DEF CommitTiers, AfterCommit, PaidIsKept
<1>7. CASE StorePaid(h)
  <2>1. /\ UNCHANGED <<payment, applied, abandoned>> /\ due \ {p} \subseteq due'
        /\ p \in applied
    BY <1>1, <1>7 DEF StorePaid, Answer, history, Honest, Pays, At
  <2> QED
    BY <1>1, <2>1, KeptBut
<1> QED
  BY <1>3, <1>4, <1>5, <1>6, <1>7 DEF HandlerStep

LEMMA NextKept ==
    ASSUME PayInv, PaidIsKept, [Next]_vars
    PROVE  PaidIsKept'
<1>1. TypeInv /\ RecordedIsApplied
  BY DEF PayInv
<1>2. CASE UNCHANGED <<payment, due, applied, abandoned>>
  BY <1>2 DEF PaidIsKept
<1>3. ASSUME NEW h \in Handlers, Request(h)
      PROVE  PaidIsKept'
  <2>1. UNCHANGED <<due, applied, abandoned>>
    BY <1>3 DEF Request, CreatePayment, ConfirmPayment, SetUserTier, history
  <2>2. CASE UNCHANGED payment
    BY <1>2, <2>1, <2>2
  <2>3. ASSUME NEW r \in Replicas, NEW u \in Users, NEW t \in Payable,
               NEW p \in PaymentIds, CreatePayment(h, r, u, t, p)
        PROVE  PaidIsKept'
    <3>1. /\ payment'[p].status = "unsent"
          /\ \A q \in PaymentIds \ {p} : payment'[q] = payment[q]
      BY <1>1, <2>3 DEF CreatePayment, TypeInv, TypeOK
    <3> QED
      BY <2>1, <3>1 DEF PaidIsKept
  <2> QED
    BY <1>3, <2>2, <2>3 DEF Request, ConfirmPayment, SetUserTier
<1>4. ASSUME NEW p \in PaymentIds, Deliver(p)
      PROVE  PaidIsKept'
  <2>1. PICK h \in Handlers, r \in Replicas : Webhook(h, r, p)
    BY <1>4 DEF Deliver
  <2>2. /\ UNCHANGED <<payment, applied, abandoned>> /\ due \ {p} \subseteq due'
        /\ due \subseteq due' \/ record[r][p] = "paid"
    BY <2>1 DEF Webhook, history
  <2>3. record[r][p] = "paid" => p \in applied
    BY <1>1 DEF RecordedIsApplied
  <2> QED
    BY <1>1, <2>2, <2>3, KeptBut
<1>5. ASSUME NEW p \in PaymentIds, SettlePayment(p)
      PROVE  PaidIsKept'
  <2>1. /\ UNCHANGED <<applied, abandoned>> /\ due' = due \cup {p}
        /\ \A q \in PaymentIds \ {p} : payment'[q] = payment[q]
    BY <1>5 DEF SettlePayment, history
  <2> QED
    BY <2>1 DEF PaidIsKept
<1>6. ASSUME NEW p \in PaymentIds, CallAgain(p)
      PROVE  PaidIsKept'
  BY <1>6 DEF CallAgain, history, PaidIsKept
<1>7. \A r \in Replicas : Restart(r) => PaidIsKept'
  BY <1>2 DEF Restart, history
<1>8. CASE UNCHANGED vars
  BY <1>2, <1>8 DEF vars
<1> QED
  BY <1>3, <1>4, <1>5, <1>6, <1>7, <1>8, StepKept DEF Next

\* Whatever webhook calls, confirmations and restarts of however many replicas
\* overlap, Mollie goes on calling about a payment that was paid until it has set
\* its tier, unless a call of the webhook failed on Mollie or on the ConfigMap
\* and was answered with a 200 (HandleWebhook).
THEOREM PaidPaymentsKept == Spec => []PaidIsKept
<1>1. Init => PaidIsKept
  BY DEF Init, PaidIsKept
<1>2. PayInv /\ PaidIsKept /\ [Next]_vars => PaidIsKept'
  BY NextKept
<1> QED
  BY <1>1, <1>2, InitPayInv, NextPayInv, PTL DEF Spec
=============================================================================
