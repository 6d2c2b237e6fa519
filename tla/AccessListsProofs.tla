-------------------------- MODULE AccessListsProofs -------------------------
(***************************************************************************)
(* Proofs about AccessLists: for every number of requests, ranges and      *)
(* addresses, and whatever fails.                                          *)
(*                                                                         *)
(* A request that holds the current version of the secret has read its     *)
(* present login, so what it writes keeps the login.  The lists have no    *)
(* such guard; they are right while at most one request edits them, and    *)
(* that request has then read what the user was told.                      *)
(***************************************************************************)
EXTENDS AccessLists, TLAPS

IPOps == {"addIP", "removeIP"}

\* A request takes the steps of its own operation, on its own kind of argument.
WellFormed(h) ==
    /\ handler[h].op \in {"add", "remove"} => handler[h].arg \in Cidrs
    /\ handler[h].op \in IPOps => handler[h].arg \in Ips
    /\ handler[h].step \in {"get", "update"} => handler[h].op = "add"
    /\ handler[h].step \in {"save", "make"} => handler[h].op \in IPOps

\* What the holder of the current version has read is what is there.
ReadCurrent(h) ==
    h \in fresh => /\ handler[h].step = "update"
                   /\ secret.there
                   /\ handler[h].login = secret.login

\* While all is calm a list has at most one request that edits it.
OneAdd ==
    calm => \A g, h \in Handlers :
              handler[g].op = "add" /\ handler[h].op = "add" => g = h

OneEdit ==
    calm => \A g, h \in Handlers :
              handler[g].op \in IPOps /\ handler[h].op \in IPOps => g = h

\* That request has read all that was acknowledged.
ReadAdded(h) ==
    calm /\ secret.there /\ handler[h].step \in {"get", "update"} =>
        added \subseteq handler[h].list

ReadWanted(h) ==
    calm /\ handler[h].step \in {"save", "make"} => handler[h].ips = wanted

\* Requests of one object and of the other disturb each other in nothing.
SecretInv ==
    /\ TypeOK
    /\ \A h \in Handlers : WellFormed(h)
    /\ \A h \in Handlers : ReadCurrent(h)
    /\ LoginIsLatest

ListsInv ==
    /\ OneAdd
    /\ OneEdit
    /\ \A h \in Handlers : ReadAdded(h)
    /\ \A h \in Handlers : ReadWanted(h)
    /\ RangesKept
    /\ ListIsTheUsers

AccessInv == SecretInv /\ ListsInv

LEMMA InitAccessInv == Init => AccessInv
<1> SUFFICES ASSUME Init
             PROVE  AccessInv
  OBVIOUS
<1> USE BoundAssumption DEF Init, Idle
<1>1. TypeOK
  BY DEF TypeOK, Secrets, HandlerStates, Ops, Steps
<1>2. \A h \in Handlers : WellFormed(h) /\ ReadCurrent(h) /\ ReadAdded(h) /\ ReadWanted(h)
  BY DEF WellFormed, ReadCurrent, ReadAdded, ReadWanted, IPOps
<1>3. LoginIsLatest /\ OneAdd /\ OneEdit /\ RangesKept /\ ListIsTheUsers
  BY DEF LoginIsLatest, OneAdd, OneEdit, RangesKept, ListIsTheUsers, IPOps
<1> QED
  BY <1>1, <1>2, <1>3 DEF AccessInv, SecretInv, ListsInv
-----------------------------------------------------------------------------
\* A request starts.
LEMMA StartKeepsInv ==
    ASSUME AccessInv, NEW h \in Handlers, NEW op \in Ops, NEW step \in Steps,
           NEW arg \in Cidrs \cup Ips \cup {None},
           Start(h, op, step, arg),
           \/ op \in {"add", "remove"} /\ step = "read" /\ arg \in Cidrs
           \/ op \in IPOps /\ step = "read" /\ arg \in Ips
           \/ op = "rotate" /\ step = "rotate"
           \/ op = "delete" /\ step = "drop",
           calm' \in BOOLEAN,
           calm' => calm,
           calm' /\ op = "add" => Others(h, {"add"}) = {},
           calm' /\ op \in IPOps => Others(h, IPOps) = {},
           UNCHANGED <<secret, fresh, userList, logins, faults, latest, added, wanted>>
    PROVE  AccessInv'
<1> USE DEF AccessInv, SecretInv, ListsInv
<1> DEFINE new == [Idle EXCEPT !.op = op, !.step = step, !.arg = arg]
<1>1. /\ handler' = [handler EXCEPT ![h] = new]
      /\ handler[h] = Idle
      /\ new.op = op /\ new.step = step /\ new.arg = arg
      /\ new \in HandlerStates
  BY DEF Start, Idle, HandlerStates
<1> HIDE DEF new
<1>2. /\ handler'[h] = new
      /\ \A g \in Handlers \ {h} : handler'[g] = handler[g]
      /\ handler[h].step = "idle"
  BY <1>1 DEF TypeOK, Idle
<1>3. TypeOK'
  BY <1>1 DEF TypeOK
<1>4. h \notin fresh
  BY <1>2 DEF ReadCurrent
<1>5. ASSUME NEW g \in Handlers
      PROVE  (WellFormed(g) /\ ReadCurrent(g) /\ ReadAdded(g) /\ ReadWanted(g))'
  <2>1. CASE g = h
    BY <1>1, <1>2, <1>4, <2>1 DEF WellFormed, ReadCurrent, ReadAdded, ReadWanted, IPOps
  <2>2. CASE g # h
    BY <1>2, <2>2 DEF WellFormed, ReadCurrent, ReadAdded, ReadWanted
  <2> QED
    BY <2>1, <2>2
<1>6. OneAdd'
  BY <1>1, <1>2 DEF OneAdd, Others
<1>7. OneEdit'
  BY <1>1, <1>2 DEF OneEdit, Others
<1>8. (LoginIsLatest /\ RangesKept /\ ListIsTheUsers)'
  BY DEF LoginIsLatest, RangesKept, ListIsTheUsers
<1> QED
  BY <1>3, <1>5, <1>6, <1>7, <1>8

LEMMA RequestKeepsInv ==
    ASSUME AccessInv, NEW h \in Handlers, Request(h)
    PROVE  AccessInv'
<1>0. calm \in BOOLEAN
  BY DEF AccessInv, SecretInv, TypeOK
<1>1. ASSUME NEW c \in Cidrs, NEW op \in Ops, StartWhitelist(h, op, c)
      PROVE  AccessInv'
  <2>1. /\ Start(h, op, "read", c)
        /\ calm' = (calm /\ Others(h, {"add", "rotate", "delete"}) = {})
        /\ op \in {"add", "remove"}
        /\ UNCHANGED <<secret, fresh, userList, logins, faults, latest, added, wanted>>
    BY <1>1 DEF StartWhitelist
  <2>2. calm' => calm /\ Others(h, {"add"}) = {}
    BY <2>1 DEF Others
  <2>3. "read" \in Steps /\ calm' \in BOOLEAN
    BY <2>1 DEF Steps
  <2> QED
    BY <1>0, <2>1, <2>2, <2>3, StartKeepsInv DEF IPOps
<1>2. ASSUME NEW ip \in Ips, NEW op \in Ops, StartIP(h, op, ip)
      PROVE  AccessInv'
  <2>1. /\ Start(h, op, "read", ip)
        /\ calm' = (calm /\ Others(h, IPOps) = {})
        /\ op \in IPOps
        /\ UNCHANGED <<secret, fresh, userList, logins, faults, latest, added, wanted>>
    BY <1>2 DEF StartIP, IPOps
  <2>2. "read" \in Steps /\ calm' \in BOOLEAN /\ (calm' => calm) /\ op # "add"
    BY <2>1 DEF Steps, IPOps
  <2> QED
    BY <1>0, <2>1, <2>2, StartKeepsInv
<1>3. CASE StartRotate(h)
  <2>1. /\ Start(h, "rotate", "rotate", None)
        /\ calm' \in BOOLEAN /\ (calm' => calm)
        /\ UNCHANGED <<secret, fresh, userList, logins, faults, latest, added, wanted>>
    BY <1>3 DEF StartRotate
  <2>2. "rotate" \in Steps /\ "rotate" \in Ops /\ "rotate" \notin IPOps
    BY DEF Steps, Ops, IPOps
  <2> QED
    BY <1>0, <2>1, <2>2, StartKeepsInv
<1>4. CASE StartDelete(h)
  <2>1. /\ Start(h, "delete", "drop", None)
        /\ calm' \in BOOLEAN /\ (calm' => calm)
        /\ UNCHANGED <<secret, fresh, userList, logins, faults, latest, added, wanted>>
    BY <1>4 DEF StartDelete
  <2>2. "drop" \in Steps /\ "delete" \in Ops /\ "delete" \notin IPOps
    BY DEF Steps, Ops, IPOps
  <2> QED
    BY <1>0, <2>1, <2>2, StartKeepsInv
<1> QED
  BY <1>1, <1>2, <1>3, <1>4 DEF Request
-----------------------------------------------------------------------------
\* A call fails or works; only where all calls have worked is it calm.
Outcome == Works \/ \E what \in Faulty : Fails(what)

LEMMA OutcomeTyped ==
    ASSUME TypeOK, Outcome
    PROVE  /\ faults' \in Nat
           /\ calm' \in BOOLEAN
           /\ calm' => calm
<1>1. CASE Works
  BY <1>1 DEF Works, TypeOK
<1>2. CASE \E what \in Faulty : Fails(what)
  <2>1. faults > 0 /\ faults' = faults - 1 /\ calm' = FALSE
    BY <1>2 DEF Fails
  <2>2. faults' \in Nat
    BY <2>1 DEF TypeOK
  <2>3. calm' \in BOOLEAN /\ ~calm'
    BY <2>1
  <2> QED
    BY <2>2, <2>3
<1> QED
  BY <1>1, <1>2 DEF Outcome

\* A request ends and has changed nothing.
LEMMA ReturnKeepsInv ==
    ASSUME AccessInv, NEW h \in Handlers, Return(h),
           fresh' \subseteq fresh \ {h},
           faults' \in Nat, calm' \in BOOLEAN, calm' => calm,
           UNCHANGED <<secret, userList, logins, latest, added, wanted>>
    PROVE  AccessInv'
<1> USE DEF AccessInv, SecretInv, ListsInv
<1>1. Idle \in HandlerStates
  BY DEF Idle, HandlerStates, Ops, Steps
<1>2. /\ handler'[h] = Idle
      /\ \A g \in Handlers \ {h} : handler'[g] = handler[g]
      /\ Idle.op = "none" /\ Idle.step = "idle"
  BY DEF Return, TypeOK, Idle
<1>3. TypeOK'
  BY <1>1 DEF TypeOK, Return
<1>4. ASSUME NEW g \in Handlers
      PROVE  (WellFormed(g) /\ ReadCurrent(g) /\ ReadAdded(g) /\ ReadWanted(g))'
  <2>1. CASE g = h
    BY <1>2, <2>1 DEF WellFormed, ReadCurrent, ReadAdded, ReadWanted, IPOps
  <2>2. CASE g # h
    BY <1>2, <2>2 DEF WellFormed, ReadCurrent, ReadAdded, ReadWanted
  <2> QED
    BY <2>1, <2>2
<1>5. OneAdd' /\ OneEdit'
  BY <1>2 DEF OneAdd, OneEdit, IPOps
<1>6. (LoginIsLatest /\ RangesKept /\ ListIsTheUsers)'
  BY DEF LoginIsLatest, RangesKept, ListIsTheUsers
<1> QED
  BY <1>3, <1>4, <1>5, <1>6

\* A request goes on, in a state "new" of its own, and nothing else changes
\* but that it may hold the current version now.
LEMMA GoOnKeepsInv ==
    ASSUME AccessInv, NEW h \in Handlers, NEW new \in HandlerStates,
           handler' = [handler EXCEPT ![h] = new],
           new.op = handler[h].op, new.arg = handler[h].arg,
           fresh' \subseteq fresh \cup {h},
           faults' \in Nat, calm' \in BOOLEAN, calm' => calm,
           UNCHANGED <<secret, userList, logins, latest, added, wanted>>,
           WellFormed(h)', ReadCurrent(h)', ReadAdded(h)', ReadWanted(h)'
    PROVE  AccessInv'
<1> USE DEF AccessInv, SecretInv, ListsInv
<1>1. /\ handler'[h] = new
      /\ \A g \in Handlers \ {h} : handler'[g] = handler[g]
  BY DEF TypeOK
<1>2. TypeOK'
  BY DEF TypeOK
<1>3. ASSUME NEW g \in Handlers
      PROVE  (WellFormed(g) /\ ReadCurrent(g) /\ ReadAdded(g) /\ ReadWanted(g))'
  <2>1. CASE g = h
    BY <2>1
  <2>2. CASE g # h
    BY <1>1, <2>2 DEF WellFormed, ReadCurrent, ReadAdded, ReadWanted
  <2> QED
    BY <2>1, <2>2
<1>4. \A g \in Handlers : handler'[g].op = handler[g].op
  BY <1>1
<1>5. OneAdd' /\ OneEdit'
  BY <1>4 DEF OneAdd, OneEdit
<1>6. (LoginIsLatest /\ RangesKept /\ ListIsTheUsers)'
  BY DEF LoginIsLatest, RangesKept, ListIsTheUsers
<1> QED
  BY <1>2, <1>3, <1>5, <1>6
-----------------------------------------------------------------------------
\* The database's secret is read.
LEMMA ReadSecretKeepsInv ==
    ASSUME AccessInv, NEW h \in Handlers, ReadWhitelist(h) \/ GetSecret(h)
    PROVE  AccessInv'
<1> USE DEF AccessInv, SecretInv, ListsInv
<1>0. Outcome /\ UNCHANGED <<secret, userList, logins, latest, added, wanted>>
  BY DEF ReadWhitelist, GetSecret, Outcome, Fails
<1>1. /\ faults' \in Nat /\ calm' \in BOOLEAN /\ (calm' => calm)
      /\ UNCHANGED <<secret, userList, logins, latest, added, wanted>>
  BY <1>0, OutcomeTyped
<1>2. h \notin fresh
  BY DEF ReadWhitelist, GetSecret, At, ReadCurrent
<1>3. CASE Return(h)
  <2>1. fresh' = fresh
    BY <1>3 DEF ReadWhitelist, GetSecret, Return, At, Idle, TypeOK
  <2> QED
    BY <1>1, <1>2, <1>3, <2>1, ReturnKeepsInv
<1>4. CASE ReadWhitelist(h) /\ ~Return(h)
  <2> DEFINE new == [handler[h] EXCEPT !.step = "get", !.list = secret.list]
  <2>1. /\ handler' = [handler EXCEPT ![h] = new]
        /\ fresh' = fresh
        /\ handler[h].op = "add"
    BY <1>4 DEF ReadWhitelist
  <2>2. /\ new \in HandlerStates
        /\ new.op = handler[h].op /\ new.arg = handler[h].arg
        /\ new.step = "get" /\ new.list = secret.list
    BY DEF TypeOK, HandlerStates, Secrets, Steps
  <2> HIDE DEF new
  <2>3. handler'[h] = new
    BY <2>1 DEF TypeOK
  <2>4. WellFormed(h)' /\ ReadCurrent(h)' /\ ReadAdded(h)' /\ ReadWanted(h)'
    BY <1>1, <1>2, <2>1, <2>2, <2>3 DEF WellFormed, ReadCurrent, ReadAdded,
       ReadWanted, RangesKept, IPOps
  <2> QED
    BY <1>1, <2>1, <2>2, <2>4, GoOnKeepsInv
<1>5. CASE GetSecret(h) /\ ~Return(h)
  <2> DEFINE new == [handler[h] EXCEPT !.step = "update", !.login = secret.login]
  <2>1. /\ handler' = [handler EXCEPT ![h] = new]
        /\ fresh' = fresh \cup {h}
        /\ secret.there
        /\ handler[h].step = "get"
    BY <1>5 DEF GetSecret, At
  <2>2. /\ new \in HandlerStates
        /\ new.op = handler[h].op /\ new.arg = handler[h].arg
        /\ new.step = "update" /\ new.list = handler[h].list
        /\ new.login = secret.login
    BY DEF TypeOK, HandlerStates, Secrets, Steps
  <2> HIDE DEF new
  <2>3. handler'[h] = new
    BY <2>1 DEF TypeOK
  <2>4. WellFormed(h)' /\ ReadCurrent(h)' /\ ReadAdded(h)' /\ ReadWanted(h)'
    BY <1>1, <2>1, <2>2, <2>3 DEF WellFormed, ReadCurrent, ReadAdded, ReadWanted,
       IPOps
  <2> QED
    BY <1>1, <2>1, <2>2, <2>4, GoOnKeepsInv
<1> QED
  BY <1>3, <1>4, <1>5
-----------------------------------------------------------------------------
\* The database's secret is written: the request ends and, unless the Update
\* is refused, nobody holds the current version any more.
LEMMA WriteSecretKeepsInv ==
    ASSUME AccessInv, NEW h \in Handlers, Return(h), fresh' = {},
           secret' \in Secrets, logins' \in Nat, latest' \in Nat,
           added' \subseteq Cidrs,
           faults' \in Nat, calm' \in BOOLEAN, calm' => calm,
           UNCHANGED <<userList, wanted>>,
           LoginIsLatest', RangesKept',
           calm' => \A g \in Handlers \ {h} : ReadAdded(g)'
    PROVE  AccessInv'
<1> USE DEF AccessInv, SecretInv, ListsInv
<1>1. Idle \in HandlerStates
  BY DEF Idle, HandlerStates, Ops, Steps
<1>2. /\ handler'[h] = Idle
      /\ \A g \in Handlers \ {h} : handler'[g] = handler[g]
      /\ Idle.op = "none" /\ Idle.step = "idle"
  BY DEF Return, TypeOK, Idle
<1>3. TypeOK'
  BY <1>1 DEF TypeOK, Return
<1>4. ASSUME NEW g \in Handlers
      PROVE  (WellFormed(g) /\ ReadCurrent(g) /\ ReadAdded(g) /\ ReadWanted(g))'
  <2>1. CASE g = h
    BY <1>2, <2>1 DEF WellFormed, ReadCurrent, ReadAdded, ReadWanted, IPOps
  <2>2. CASE g # h
    <3>1. ReadAdded(g)'
      BY <2>2 DEF ReadAdded
    <3> QED
      BY <1>2, <2>2, <3>1 DEF WellFormed, ReadCurrent, ReadWanted
  <2> QED
    BY <2>1, <2>2
<1>5. OneAdd' /\ OneEdit'
  BY <1>2 DEF OneAdd, OneEdit, IPOps
<1>6. ListIsTheUsers'
  BY DEF ListIsTheUsers
<1> QED
  BY <1>3, <1>4, <1>5, <1>6

LEMMA UpdateKeepsInv ==
    ASSUME AccessInv, NEW h \in Handlers, UpdateSecret(h)
    PROVE  AccessInv'
<1> USE DEF AccessInv, SecretInv, ListsInv
<1>1. /\ h \in fresh /\ handler[h].step = "update" /\ handler[h].op = "add"
      /\ handler[h].arg \in Cidrs
      /\ handler[h].list \subseteq Cidrs
      /\ secret.there /\ handler[h].login = secret.login
  BY DEF UpdateSecret, At, ReadCurrent, WellFormed, TypeOK, HandlerStates
<1>0. /\ Outcome
      /\ added \subseteq added' /\ added' \subseteq added \cup {handler[h].arg}
      /\ UNCHANGED <<userList, logins, latest, wanted>>
      /\ Return(h) /\ fresh' = {}
  BY DEF UpdateSecret, Outcome, Fails
<1>2. /\ faults' \in Nat /\ calm' \in BOOLEAN /\ (calm' => calm)
      /\ added \subseteq added' /\ added' \subseteq added \cup {handler[h].arg}
      /\ UNCHANGED <<userList, logins, latest, wanted>>
      /\ Return(h) /\ fresh' = {}
  BY <1>0, OutcomeTyped
<1>3. /\ secret'.there = secret.there
      /\ secret'.login = secret.login
      /\ secret'.list = handler[h].list \cup {handler[h].arg}
      /\ secret' \in Secrets
  BY <1>1 DEF UpdateSecret, Extended, TypeOK, Secrets
<1>4. LoginIsLatest'
  BY <1>2, <1>3 DEF LoginIsLatest
<1>5. RangesKept'
  BY <1>1, <1>2, <1>3 DEF RangesKept, ReadAdded
<1>6. calm' => \A g \in Handlers \ {h} : ReadAdded(g)'
  <2> SUFFICES ASSUME calm', NEW g \in Handlers \ {h}
               PROVE  ReadAdded(g)'
    OBVIOUS
  <2>1. handler'[g] = handler[g]
    BY <1>2 DEF Return, TypeOK
  <2>2. handler[g].op # "add"
    BY <1>1, <1>2 DEF OneAdd
  <2> QED
    BY <2>1, <2>2 DEF ReadAdded, WellFormed
<1>7. logins' \in Nat /\ latest' \in Nat /\ added' \subseteq Cidrs
  BY <1>1, <1>2 DEF TypeOK
<1> QED
  BY <1>2, <1>3, <1>4, <1>5, <1>6, <1>7, WriteSecretKeepsInv

LEMMA RotateKeepsInv ==
    ASSUME AccessInv, NEW h \in Handlers, Rotate(h)
    PROVE  AccessInv'
<1> USE DEF AccessInv, SecretInv, ListsInv
<1>0. Outcome /\ UNCHANGED <<userList, wanted>> /\ Return(h)
  BY DEF Rotate, Outcome, Fails
<1>1. /\ faults' \in Nat /\ calm' \in BOOLEAN /\ (calm' => calm)
      /\ UNCHANGED <<userList, wanted>>
      /\ Return(h)
  BY <1>0, OutcomeTyped
<1>2. CASE UNCHANGED <<secret, logins, fresh, latest, added>>
  <2>1. h \notin fresh
    BY DEF Rotate, At, ReadCurrent
  <2> QED
    BY <1>1, <1>2, <2>1, ReturnKeepsInv
<1>3. CASE /\ secret' = [there |-> TRUE, login |-> logins + 1, list |-> {}]
           /\ logins' = logins + 1
           /\ fresh' = {}
           /\ latest' = logins + 1
           /\ added' = {}
  <2>1. secret' \in Secrets /\ logins' \in Nat /\ latest' \in Nat
    BY <1>3 DEF TypeOK, Secrets
  <2>2. LoginIsLatest' /\ RangesKept' /\ \A g \in Handlers : ReadAdded(g)'
    BY <1>3 DEF LoginIsLatest, RangesKept, ReadAdded
  <2>3. fresh' = {} /\ added' \subseteq Cidrs
    BY <1>3
  <2> QED
    BY <1>1, <2>1, <2>2, <2>3, WriteSecretKeepsInv
<1> QED
  BY <1>2, <1>3 DEF Rotate

LEMMA DropKeepsInv ==
    ASSUME AccessInv, NEW h \in Handlers, DropSecret(h)
    PROVE  AccessInv'
<1> USE DEF AccessInv, SecretInv, ListsInv
<1>0. Outcome /\ UNCHANGED <<userList, logins, latest, added, wanted>> /\ Return(h)
  BY DEF DropSecret, Outcome, Fails
<1>1. /\ faults' \in Nat /\ calm' \in BOOLEAN /\ (calm' => calm)
      /\ UNCHANGED <<userList, logins, latest, added, wanted>>
      /\ Return(h)
  BY <1>0, OutcomeTyped
<1>2. CASE UNCHANGED <<secret, fresh>>
  <2>1. h \notin fresh
    BY DEF DropSecret, At, ReadCurrent
  <2> QED
    BY <1>1, <1>2, <2>1, ReturnKeepsInv
<1>3. CASE secret' = [secret EXCEPT !.there = FALSE] /\ fresh' = {}
  <2>1. secret' \in Secrets /\ ~secret'.there
    BY <1>3 DEF TypeOK, Secrets
  <2>2. LoginIsLatest' /\ RangesKept' /\ \A g \in Handlers : ReadAdded(g)'
    BY <2>1 DEF LoginIsLatest, RangesKept, ReadAdded
  <2>3. logins' \in Nat /\ latest' \in Nat /\ added' \subseteq Cidrs /\ fresh' = {}
    BY <1>1, <1>3 DEF TypeOK
  <2> QED
    BY <1>1, <2>1, <2>2, <2>3, WriteSecretKeepsInv
<1> QED
  BY <1>2, <1>3 DEF DropSecret
-----------------------------------------------------------------------------
LEMMA RejectKeepsInv ==
    ASSUME AccessInv, NEW h \in Handlers, RejectSecret(h) \/ Crash(h)
    PROVE  AccessInv'
<1>1. /\ Outcome /\ Return(h) /\ fresh' = fresh \ {h}
      /\ UNCHANGED <<secret, userList, logins, latest, added, wanted>>
  BY DEF RejectSecret, Crash, Outcome, Fails
<1>2. faults' \in Nat /\ calm' \in BOOLEAN /\ (calm' => calm)
  BY <1>1, OutcomeTyped DEF AccessInv, SecretInv
<1> QED
  BY <1>1, <1>2, ReturnKeepsInv
-----------------------------------------------------------------------------
\* What a request makes of a list of addresses is one of addresses.
LEMMA EditedTyped ==
    ASSUME NEW h \in Handlers, WellFormed(h), handler[h].op \in IPOps,
           NEW ips \in SUBSET Ips
    PROVE  Edited(h, ips) \in SUBSET Ips
  BY DEF Edited, WellFormed

\* The user's list is read: while all is calm, it is what the user was told.
LEMMA ReadIPsKeepsInv ==
    ASSUME AccessInv, NEW h \in Handlers, ReadIPs(h)
    PROVE  AccessInv'
<1> USE DEF AccessInv, SecretInv, ListsInv
<1>0. /\ Outcome /\ UNCHANGED <<secret, fresh, userList, logins, latest, added, wanted>>
      /\ handler[h].step = "read" /\ handler[h].op \in IPOps
  BY DEF ReadIPs, Outcome, Fails, At, IPOps
<1>1. faults' \in Nat /\ calm' \in BOOLEAN /\ (calm' => calm)
  BY <1>0, OutcomeTyped
<1>2. h \notin fresh
  BY <1>0 DEF ReadCurrent
<1>3. CASE Return(h)
  BY <1>0, <1>1, <1>2, <1>3, ReturnKeepsInv
<1>4. CASE ~Return(h)
  <2>1. PICK ips \in SUBSET Ips :
           /\ handler' = [handler EXCEPT ![h].step = "save", ![h].ips = ips]
           /\ (ips = userList.ips /\ Works) \/ (ips = {} /\ Fails("call"))
    BY <1>4 DEF ReadIPs
  <2>2. calm' => ips = userList.ips
    BY <2>1 DEF Fails
  <2> DEFINE new == [handler[h] EXCEPT !.step = "save", !.ips = ips]
  <2>3. handler' = [handler EXCEPT ![h] = new]
    BY <2>1
  <2>4. /\ new \in HandlerStates
        /\ new.op = handler[h].op /\ new.arg = handler[h].arg
        /\ new.step = "save" /\ new.ips = ips
    BY DEF TypeOK, HandlerStates, Steps
  <2> HIDE DEF new
  <2>5. handler'[h] = new
    BY <2>3 DEF TypeOK
  <2>6. ReadWanted(h)'
    BY <1>0, <1>1, <2>2, <2>4, <2>5 DEF ReadWanted, ListIsTheUsers
  <2>7. WellFormed(h)' /\ ReadCurrent(h)' /\ ReadAdded(h)'
    BY <1>0, <1>2, <2>4, <2>5 DEF WellFormed, ReadCurrent, ReadAdded, IPOps
  <2> QED
    BY <1>0, <1>1, <2>3, <2>4, <2>6, <2>7, GoOnKeepsInv
<1> QED
  BY <1>3, <1>4

\* The user's list is written.  While all is calm nobody else edits it, and
\* what is stored is what the user is told.
LEMMA WriteListKeepsInv ==
    ASSUME AccessInv, NEW h \in Handlers, NEW new \in HandlerStates,
           handler' = [handler EXCEPT ![h] = new],
           handler[h].op \in IPOps, h \notin fresh,
           \/ new = Idle
           \/ /\ new.op = handler[h].op /\ new.arg = handler[h].arg
              /\ new.step = "make" /\ ~calm',
           userList' \in [there: BOOLEAN, ips: SUBSET Ips],
           wanted' \subseteq Ips,
           faults' \in Nat, calm' \in BOOLEAN, calm' => calm,
           ListIsTheUsers',
           UNCHANGED <<secret, fresh, logins, latest, added>>
    PROVE  AccessInv'
<1> USE DEF AccessInv, SecretInv, ListsInv
<1>1. /\ handler'[h] = new
      /\ \A g \in Handlers \ {h} : handler'[g] = handler[g]
      /\ Idle.op = "none" /\ Idle.step = "idle"
  BY DEF TypeOK, Idle
<1>2. TypeOK'
  BY DEF TypeOK
<1>3. ASSUME NEW g \in Handlers
      PROVE  (WellFormed(g) /\ ReadCurrent(g) /\ ReadAdded(g))'
  <2>1. CASE g = h
    BY <1>1, <2>1 DEF WellFormed, ReadCurrent, ReadAdded, IPOps
  <2>2. CASE g # h
    BY <1>1, <2>2 DEF WellFormed, ReadCurrent, ReadAdded
  <2> QED
    BY <2>1, <2>2
<1>4. ASSUME NEW g \in Handlers
      PROVE  ReadWanted(g)'
  <2>1. CASE g = h
    BY <1>1, <2>1 DEF ReadWanted
  <2>2. CASE g # h
    BY <1>1, <2>2 DEF ReadWanted, OneEdit, WellFormed
  <2> QED
    BY <2>1, <2>2
<1>5. \A g \in Handlers : handler'[g].op \in {handler[g].op, "none"}
  BY <1>1
<1>6. OneAdd' /\ OneEdit'
  BY <1>5 DEF OneAdd, OneEdit, IPOps
<1>7. (LoginIsLatest /\ RangesKept)'
  BY DEF LoginIsLatest, RangesKept
<1> QED
  BY <1>2, <1>3, <1>4, <1>6, <1>7

LEMMA SaveIPsKeepsInv ==
    ASSUME AccessInv, NEW h \in Handlers, SaveIPs(h)
    PROVE  AccessInv'
<1> USE DEF AccessInv, SecretInv, ListsInv
<1>0. /\ Outcome /\ UNCHANGED <<secret, fresh, logins, latest, added>>
      /\ handler[h].step = "save"
  BY DEF SaveIPs, Outcome, Fails, At
<1>1. faults' \in Nat /\ calm' \in BOOLEAN /\ (calm' => calm)
  BY <1>0, OutcomeTyped
<1>2. h \notin fresh /\ handler[h].op \in IPOps
  BY <1>0 DEF ReadCurrent, WellFormed
<1>3. handler[h].ips \in SUBSET Ips /\ wanted \in SUBSET Ips
  BY DEF TypeOK, HandlerStates
<1>4. /\ Edited(h, handler[h].ips) \in SUBSET Ips
      /\ Edited(h, wanted) \in SUBSET Ips
  BY <1>2, <1>3, EditedTyped
<1>5. Idle \in HandlerStates
  BY DEF Idle, HandlerStates, Ops, Steps
<1> DEFINE new == [handler[h] EXCEPT !.step = "make"]
<1>6. /\ new \in HandlerStates
      /\ new.op = handler[h].op /\ new.arg = handler[h].arg
      /\ new.step = "make" /\ new.ips = handler[h].ips
  BY DEF TypeOK, HandlerStates, Steps
<1> HIDE DEF new
<1>7. CASE /\ Return(h)
           /\ userList' = [userList EXCEPT !.ips = Edited(h, handler[h].ips)]
           /\ wanted' = Edited(h, wanted)
  <2>1. userList' \in [there: BOOLEAN, ips: SUBSET Ips]
    BY <1>4, <1>7 DEF TypeOK
  <2>2. userList'.ips = Edited(h, handler[h].ips)
    BY <1>7 DEF TypeOK
  <2>3. calm => handler[h].ips = wanted
    BY <1>0 DEF ReadWanted
  <2>4. ListIsTheUsers'
    BY <1>1, <1>7, <2>2, <2>3 DEF ListIsTheUsers
  <2>5. handler' = [handler EXCEPT ![h] = Idle]
    BY <1>7 DEF Return
  <2> QED
    BY <1>0, <1>1, <1>2, <1>4, <1>5, <1>7, <2>1, <2>4, <2>5, WriteListKeepsInv
<1>8. CASE /\ handler' = [handler EXCEPT ![h].step = "make"]
           /\ userList' = [userList EXCEPT !.ips = Edited(h, handler[h].ips)]
           /\ UNCHANGED wanted
           /\ Fails("answer")
  <2>1. userList' \in [there: BOOLEAN, ips: SUBSET Ips]
    BY <1>4, <1>8 DEF TypeOK
  <2>2. ~calm'
    BY <1>8 DEF Fails
  <2>3. ListIsTheUsers'
    BY <2>2 DEF ListIsTheUsers
  <2>4. handler' = [handler EXCEPT ![h] = new]
    BY <1>8 DEF new
  <2> QED
    BY <1>0, <1>1, <1>2, <1>3, <1>6, <1>8, <2>1, <2>2, <2>3, <2>4, WriteListKeepsInv
<1>9. CASE /\ handler' = [handler EXCEPT ![h].step = "make"]
           /\ UNCHANGED <<userList, wanted>>
  <2>1. handler' = [handler EXCEPT ![h] = new]
    BY <1>9 DEF new
  <2>2. handler'[h] = new
    BY <2>1 DEF TypeOK
  <2>3. ReadWanted(h)'
    BY <1>0, <1>1, <1>6, <1>9, <2>2 DEF ReadWanted
  <2>4. WellFormed(h)' /\ ReadCurrent(h)' /\ ReadAdded(h)'
    BY <1>0, <1>2, <1>6, <2>2 DEF WellFormed, ReadCurrent, ReadAdded, IPOps
  <2> QED
    BY <1>0, <1>1, <1>6, <1>9, <2>1, <2>3, <2>4, GoOnKeepsInv
<1> QED
  BY <1>7, <1>8, <1>9 DEF SaveIPs

LEMMA MakeIPsKeepsInv ==
    ASSUME AccessInv, NEW h \in Handlers, MakeIPs(h)
    PROVE  AccessInv'
<1> USE DEF AccessInv, SecretInv, ListsInv
<1>0. /\ Outcome /\ UNCHANGED <<secret, fresh, logins, latest, added>>
      /\ handler[h].step = "make" /\ Return(h)
  BY DEF MakeIPs, Outcome, Fails, At
<1>1. faults' \in Nat /\ calm' \in BOOLEAN /\ (calm' => calm)
  BY <1>0, OutcomeTyped
<1>2. h \notin fresh /\ handler[h].op \in IPOps
  BY <1>0 DEF ReadCurrent, WellFormed
<1>3. /\ Edited(h, handler[h].ips) \in SUBSET Ips
      /\ Edited(h, wanted) \in SUBSET Ips
  BY <1>2, EditedTyped DEF TypeOK, HandlerStates
<1>4. Idle \in HandlerStates /\ handler' = [handler EXCEPT ![h] = Idle]
  BY <1>0 DEF Return, Idle, HandlerStates, Ops, Steps
<1>5. CASE UNCHANGED <<userList, wanted>>
  BY <1>0, <1>1, <1>2, <1>5, ReturnKeepsInv
<1>6. CASE /\ userList' = [there |-> TRUE, ips |-> Edited(h, handler[h].ips)]
           /\ \/ wanted' = Edited(h, wanted) /\ Works
              \/ UNCHANGED wanted /\ Fails("answer")
  <2>1. userList' \in [there: BOOLEAN, ips: SUBSET Ips]
    BY <1>3, <1>6
  <2>2. wanted' \subseteq Ips
    BY <1>3, <1>6 DEF TypeOK
  <2>3. calm => handler[h].ips = wanted
    BY <1>0 DEF ReadWanted
  <2>4. calm' => wanted' = Edited(h, wanted)
    BY <1>6 DEF Fails
  <2>5. userList'.ips = Edited(h, handler[h].ips)
    BY <1>6
  <2>6. ListIsTheUsers'
    BY <1>1, <2>3, <2>4, <2>5 DEF ListIsTheUsers
  <2> QED
    BY <1>0, <1>1, <1>2, <1>4, <2>1, <2>2, <2>6, WriteListKeepsInv
<1> QED
  BY <1>5, <1>6 DEF MakeIPs
-----------------------------------------------------------------------------
LEMMA NextKeepsInv == AccessInv /\ [Next]_vars => AccessInv'
<1> SUFFICES ASSUME AccessInv, [Next]_vars
             PROVE  AccessInv'
  OBVIOUS
<1>1. ASSUME NEW h \in Handlers, Step(h)
      PROVE  AccessInv'
  BY <1>1, ReadSecretKeepsInv, UpdateKeepsInv, RejectKeepsInv, RotateKeepsInv,
     DropKeepsInv, ReadIPsKeepsInv, SaveIPsKeepsInv, MakeIPsKeepsInv DEF Step
<1>2. CASE UNCHANGED vars
  <2>1. \A h \in Handlers : /\ WellFormed(h)' = WellFormed(h)
                            /\ ReadCurrent(h)' = ReadCurrent(h)
                            /\ ReadAdded(h)' = ReadAdded(h)
                            /\ ReadWanted(h)' = ReadWanted(h)
    BY <1>2 DEF vars, WellFormed, ReadCurrent, ReadAdded, ReadWanted
  <2>2. TypeOK' /\ OneAdd' /\ OneEdit'
    BY <1>2 DEF vars, TypeOK, OneAdd, OneEdit, AccessInv, SecretInv, ListsInv
  <2>3. LoginIsLatest' /\ RangesKept' /\ ListIsTheUsers'
    BY <1>2 DEF vars, LoginIsLatest, RangesKept, ListIsTheUsers, AccessInv,
       SecretInv, ListsInv
  <2> QED
    BY <2>1, <2>2, <2>3 DEF AccessInv, SecretInv, ListsInv
<1> QED
  BY <1>1, <1>2, RequestKeepsInv DEF Next

LEMMA Inductive == Spec => []AccessInv
<1> QED
  BY InitAccessInv, NextKeepsInv, PTL DEF Spec
-----------------------------------------------------------------------------
\* Both secrets and every request stay in their ranges.
THEOREM TypeCorrect == Spec => []TypeOK
<1>1. AccessInv => TypeOK
  BY DEF AccessInv, SecretInv
<1> QED
  BY <1>1, Inductive, PTL

\* A change of the whitelist never brings back a login that a rotation has
\* replaced, however many requests overlap and whatever fails (RotateCredentials,
\* SaveIPWhitelist).
THEOREM LoginKept == Spec => []LoginIsLatest
<1>1. AccessInv => LoginIsLatest
  BY DEF AccessInv, SecretInv
<1> QED
  BY <1>1, Inductive, PTL

\* While requests of a whitelist neither fail nor overlap, an acknowledged range
\* stays until the next rotation (AddIPWhitelistEntry, RotateCredentials).
THEOREM CalmRangesKept == Spec => []RangesKept
<1>1. AccessInv => RangesKept
  BY DEF AccessInv, ListsInv
<1> QED
  BY <1>1, Inductive, PTL

\* Under the same condition the user's list is what the user was told (AddIP,
\* RemoveIP, saveIPs).
THEOREM CalmListKept == Spec => []ListIsTheUsers
<1>1. AccessInv => ListIsTheUsers
  BY DEF AccessInv, ListsInv
<1> QED
  BY <1>1, Inductive, PTL

\* No request brings a deleted secret back: a rotation replaces only what is
\* there, and a change of the whitelist only the version it has read
\* (UpdateCredentials, SaveIPWhitelist).
THEOREM SecretGoneForGood == Spec => GoneForGood
<1>1. AccessInv /\ [Next]_vars => [secret'.there => secret.there]_vars
  <2> SUFFICES ASSUME AccessInv, Next, secret'.there
               PROVE  secret.there
    BY DEF vars
  <2>1. PICK h \in Handlers : Request(h) \/ Step(h)
    BY DEF Next
  <2>2. CASE Request(h)
    BY <2>2 DEF Request, StartWhitelist, StartRotate, StartDelete, StartIP
  <2>3. CASE UpdateSecret(h)
    BY <2>3 DEF UpdateSecret, AccessInv, SecretInv, ReadCurrent
  <2>4. CASE Rotate(h)
    BY <2>4 DEF Rotate, Replaceable
  <2>5. CASE DropSecret(h)
    <3>1. secret' = secret \/ secret' = [secret EXCEPT !.there = FALSE]
      BY <2>5 DEF DropSecret
    <3> QED
      BY <3>1 DEF AccessInv, SecretInv, TypeOK, Secrets
  <2>6. CASE UNCHANGED secret
    BY <2>6
  <2> QED
    BY <2>1, <2>2, <2>3, <2>4, <2>5, <2>6 DEF Step, ReadWhitelist, GetSecret,
       RejectSecret, ReadIPs, SaveIPs, MakeIPs, Crash
<1> QED
  BY <1>1, Inductive, PTL DEF Spec, GoneForGood
=============================================================================
