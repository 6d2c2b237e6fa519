----------------------------- MODULE ConsoleProofs -----------------------------
(***************************************************************************)
(* Proofs about Console: for every number of databases, logins, requests   *)
(* under way and failures, credentials that nobody has been told yet are   *)
(* in an answer that is under way, the card that says it is being deleted  *)
(* is, and nothing spins that no request will stop.                        *)
(*                                                                         *)
(* The argument: a request that is still awaited belongs to the page that  *)
(* is shown (CallsHere), so that what its handler does to the page is what *)
(* was meant; and the answer that brings a login is the only one whose     *)
(* handler ends the wait for it.                                           *)
(***************************************************************************)
EXTENDS Console, TLAPS

\* The page that sends a request.
PageOf(op) ==
    CASE op \in {"create", "delete"} -> "home"
      [] op = "createForm" -> "create"
      [] op \in {"rotate", "deleteHere"} -> "detail"
      [] OTHER -> "branches"

\* What a request carries and brings, by its kind.
CallTyped(c) ==
    /\ c \in CallRecords
    /\ c.op \in Deletes \cup {"rotate"} => c.on \in Dbs
    /\ c.stage = "ok" /\ c.op \in Creates => c.got \in Dbs
    /\ c.stage = "ok" /\ c.op = "rotate" => c.got \in 0 .. MaxLogin

CallOf(c, page) == CallTyped(c) /\ (c.live => page = PageOf(c.op))

CallsHere ==
    /\ calls \in [Slots -> CallRecords]
    /\ \A i \in Slots : CallOf(calls[i], view.page)

\* The dialog that confirms a deletion names a database.
ConfirmNames == OnHome /\ view.dialog = "confirm" => view.confirm \in Dbs

TypeInv == TypeOK /\ CallsHere /\ ConfirmNames
-----------------------------------------------------------------------------
LEMMA NoCallTyped == \A page : CallOf(NoCall, page)
  BY DatabaseAssumption DEF CallOf, CallTyped, CallRecords, NoCall, Deletes, Creates

LEMMA NoDetailTyped == NoDetail \in Details
<1>1. 0 \in 0 .. MaxLogin /\ NoDetail = Shows(0)
  BY DatabaseAssumption DEF NoDetail, Shows
<1> QED
  BY <1>1 DEF Details

LEMMA AgainTyped ==
    ASSUME NEW c, NEW page, CallOf(c, page), c.stage = "sent"
    PROVE  /\ CallOf(Again(c), page)
           /\ Again(c).stage # "ok"
           /\ Again(c).op = c.op /\ Again(c).live = c.live /\ Again(c).on = c.on
  BY DEF CallOf, CallTyped, CallRecords, Again, Attempts, Creates, Deletes, Fetched

LEMMA UnwatchedTyped ==
    ASSUME NEW c, NEW page, CallOf(c, page), NEW w \in BOOLEAN
    PROVE  CallOf([c EXCEPT !.watched = w], page)
  BY DEF CallOf, CallTyped, CallRecords

LEMMA SendTyped ==
    ASSUME NEW op \in Creates \cup Deletes \cup {"rotate"}, NEW on \in Dbs \cup {None},
           op \in Deletes \cup {"rotate"} => on \in Dbs,
           CallsHere, Send(op, on), view.page = PageOf(op), view'.page = view.page
    PROVE  /\ CallsHere'
           /\ FreeSlot \in Slots /\ calls[FreeSlot].op = "none"
           /\ calls'[FreeSlot].op = op /\ calls'[FreeSlot].on = on
           /\ calls'[FreeSlot].live /\ calls'[FreeSlot].stage = "sent"
           /\ \A i \in Slots \ {FreeSlot} :
                calls'[i] = [calls[i] EXCEPT !.watched = @ /\ calls[i].op # op]
<1>1. FreeSlot \in Slots /\ calls[FreeSlot].op = "none"
  BY DEF Send, UnderWay, FreeSlot
<1>2. /\ calls'[FreeSlot] = [NoCall EXCEPT !.op = op, !.on = on, !.live = TRUE,
                                           !.watched = TRUE]
      /\ \A i \in Slots \ {FreeSlot} :
           calls'[i] = [calls[i] EXCEPT !.watched = @ /\ calls[i].op # op]
      /\ calls' = [i \in Slots |-> calls'[i]]
  BY <1>1 DEF Send
<1> DEFINE sent == [op |-> op, on |-> on, stage |-> "sent", try |-> 1,
                    live |-> TRUE, watched |-> TRUE, got |-> None]
<1>3a. calls'[FreeSlot] = sent
  BY <1>2 DEF NoCall
<1>3b. sent \in CallRecords
  BY DEF CallRecords
<1>3. CallOf(calls'[FreeSlot], view'.page)
  BY <1>3a, <1>3b DEF CallOf, CallTyped
<1>4. ASSUME NEW i \in Slots \ {FreeSlot}
      PROVE  CallOf(calls'[i], view'.page)
  <2>1. CallOf(calls[i], view'.page)
    BY DEF CallsHere
  <2> DEFINE w == calls[i].watched /\ calls[i].op # op
  <2>2. w \in BOOLEAN
    OBVIOUS
  <2>3. calls'[i] = [calls[i] EXCEPT !.watched = w]
    BY <1>2
  <2> HIDE DEF w
  <2> QED
    BY <2>1, <2>2, <2>3, UnwatchedTyped
<1>5. \A i \in Slots : CallOf(calls'[i], view'.page)
  BY <1>3, <1>4
<1>6. calls' \in [Slots -> CallRecords]
  BY <1>2, <1>5 DEF CallOf, CallTyped
<1> QED
  BY <1>1, <1>2, <1>5, <1>6 DEF CallsHere, NoCall

LEMMA SettleTyped ==
    ASSUME CallsHere, NEW i \in Slots, Settle(i), view'.page = view.page
    PROVE  /\ CallsHere'
           /\ calls'[i] = NoCall
           /\ \A j \in Slots \ {i} : calls'[j] = calls[j]
<1>1. NoCall \in CallRecords
  BY NoCallTyped DEF CallOf, CallTyped
<1> QED
  BY <1>1, NoCallTyped DEF CallsHere, Settle

LEMMA OneCallTyped ==
    ASSUME CallsHere, NEW i \in Slots, NEW c, CallOf(c, view.page),
           calls' = [calls EXCEPT ![i] = c], view'.page = view.page
    PROVE  /\ CallsHere'
           /\ calls'[i] = c
           /\ \A j \in Slots \ {i} : calls'[j] = calls[j]
  BY DEF CallsHere, CallOf, CallTyped

\* A request that has failed once more.
LEMMA AgainHere ==
    ASSUME CallsHere, NEW i \in Slots, calls[i].stage = "sent", view'.page = view.page,
           calls' = [calls EXCEPT ![i] = Again(@)]
    PROVE  /\ CallsHere'
           /\ calls'[i] = Again(calls[i])
           /\ \A j \in Slots \ {i} : calls'[j] = calls[j]
<1>1. CallOf(Again(calls[i]), view.page)
  BY AgainTyped DEF CallsHere
<1>2. calls' = [calls EXCEPT ![i] = Again(calls[i])]
  OBVIOUS
<1> QED
  BY <1>1, <1>2, OneCallTyped

LEMMA ServeTyped ==
    ASSUME CallsHere, NEW i \in Slots, calls[i].stage = "sent", view'.page = view.page,
           NEW got \in Dbs \cup {None} \cup 0 .. MaxLogin,
           calls[i].op \in Creates => got \in Dbs,
           calls[i].op = "rotate" => got \in 0 .. MaxLogin,
           faults \in 0 .. MaxFaults, Serve(i, got)
    PROVE  /\ CallsHere' /\ faults' \in 0 .. MaxFaults
           /\ \A j \in Slots \ {i} : calls'[j] = calls[j]
           /\ calls'[i].op = calls[i].op /\ calls'[i].on = calls[i].on
           /\ calls'[i].live = calls[i].live
           /\ calls'[i].stage = "ok" => calls'[i].got = got
<1>1. CASE /\ calls' = [calls EXCEPT ![i].stage = "ok", ![i].got = got]
           /\ UNCHANGED faults
  <2> DEFINE c == [calls[i] EXCEPT !.stage = "ok", !.got = got]
  <2>1. CallOf(c, view.page)
    BY DEF CallsHere, CallOf, CallTyped, CallRecords
  <2>2. calls' = [calls EXCEPT ![i] = c]
    BY <1>1 DEF CallsHere
  <2>3. c.op = calls[i].op /\ c.on = calls[i].on /\ c.live = calls[i].live /\ c.got = got
    BY DEF CallsHere, CallRecords
  <2> HIDE DEF c
  <2> QED
    BY <1>1, <2>1, <2>2, <2>3, OneCallTyped
<1>2. CASE /\ faults > 0 /\ faults' = faults - 1
           /\ calls' = [calls EXCEPT ![i] = Again(@)]
  <2>1. faults' \in 0 .. MaxFaults
    BY <1>2, TabAssumption
  <2>2. /\ CallsHere'
        /\ calls'[i] = Again(calls[i])
        /\ \A j \in Slots \ {i} : calls'[j] = calls[j]
    BY <1>2, AgainHere
  <2> QED
    BY <2>1, <2>2, AgainTyped DEF CallsHere
<1> QED
  BY <1>1, <1>2 DEF Serve

\* Every page is left with its requests unheard.
LEMMA OpenTyped ==
    ASSUME CallsHere, calls' = [i \in Slots |-> [calls[i] EXCEPT !.live = FALSE]]
    PROVE  CallsHere'
<1>1. ASSUME NEW i \in Slots
      PROVE  CallOf(calls'[i], view'.page) /\ calls'[i] \in CallRecords
  <2>1. CallOf(calls[i], view.page)
    BY DEF CallsHere
  <2>2. calls'[i] = [calls[i] EXCEPT !.live = FALSE]
    OBVIOUS
  <2> QED
    BY <2>1, <2>2 DEF CallOf, CallTyped, CallRecords
<1> QED
  BY <1>1 DEF CallsHere
-----------------------------------------------------------------------------
\* What the type invariant says of the page that is shown.
LEMMA PageTyped ==
    ASSUME TypeOK
    PROVE  /\ OnHome => view \in HomeViews
           /\ view.page = "create" => view \in FormViews
           /\ view.page = "detail" => view \in DetailViews
           /\ OnBranches => view \in BranchViews
           /\ view.page \in {"home", "create", "detail", "branches"}
  BY DEF TypeOK, HomeViews, FormViews, DetailViews, BranchViews, OnHome, OnBranches

\* A step that changes the page's own state and sends nothing.
ShowSteps ==
    \/ ShowCreate \/ CloseCreate \/ CloseConfirm \/ LeaveCard \/ AskRotate \/ CloseRotate
    \/ FetchDetail \/ FetchDetailFails \/ AskDelete \/ CloseDelete \/ ShowBranchDialog
    \/ CloseBranchDialog \/ Reconnect
    \/ \E d \in Dbs : handleDeleteRequest(d)
    \/ \E kind \in NameKinds : EnterName(kind)

LEMMA ShowKeepsType ==
    ASSUME TypeInv, ShowSteps
    PROVE  TypeInv' /\ view'.page = view.page /\ UNCHANGED <<calls, server, told>>
<1> USE PageTyped DEF TypeInv
<1>1. UNCHANGED <<calls, server, told>>
  BY DEF ShowSteps, ShowCreate, CloseCreate, CloseConfirm, LeaveCard, AskRotate, CloseRotate,
         FetchDetail, FetchDetailFails, AskDelete, CloseDelete, ShowBranchDialog,
         CloseBranchDialog, Reconnect, handleDeleteRequest, EnterName
<1>2. faults' \in 0 .. MaxFaults
  <2>1. UNCHANGED faults \/ (faults > 0 /\ faults' = faults - 1)
    BY DEF ShowSteps, ShowCreate, CloseCreate, CloseConfirm, LeaveCard, AskRotate, CloseRotate,
           FetchDetail, FetchDetailFails, AskDelete, CloseDelete, ShowBranchDialog,
           CloseBranchDialog, Reconnect, handleDeleteRequest, EnterName
  <2>2. faults \in 0 .. MaxFaults
    BY DEF TypeOK
  <2> QED
    BY <2>1, <2>2, TabAssumption
<1>3. cache' \in Details
  <2>1. CASE FetchDetail
    <3>1. view.db \in Dbs
      BY <2>1 DEF FetchDetail, OnDetailPage, DetailViews
    <3>2. server.login[view.db] \in 0 .. MaxLogin
      BY <3>1 DEF TypeOK
    <3> QED
      BY <2>1, <3>2 DEF FetchDetail, Details
  <2>2. CASE FetchDetailFails
    BY <2>2 DEF FetchDetailFails, Details
  <2> QED
    BY <2>1, <2>2 DEF TypeOK, ShowSteps, ShowCreate, CloseCreate, CloseConfirm, LeaveCard,
         AskRotate, CloseRotate, AskDelete, CloseDelete, ShowBranchDialog,
         CloseBranchDialog, Reconnect, handleDeleteRequest, EnterName
<1>5. CASE ShowCreate \/ CloseCreate \/ CloseConfirm \/ \E d \in Dbs : handleDeleteRequest(d)
  <2>1. view' \in HomeViews /\ view'.page = "home" /\ view.page = "home"
    BY <1>5 DEF ShowCreate, CloseCreate, CloseConfirm, handleDeleteRequest, HomeViews, OnHome,
                HomeClick
  <2>2. ConfirmNames'
    BY <1>5 DEF ShowCreate, CloseCreate, CloseConfirm, handleDeleteRequest, HomeViews, OnHome,
                HomeClick, ConfirmNames
  <2> QED
    BY <1>1, <1>2, <1>3, <2>1, <2>2 DEF TypeOK, CallsHere
<1>6. CASE LeaveCard \/ \E kind \in NameKinds : EnterName(kind)
  <2>1. view' \in FormViews /\ view'.page = "create" /\ view.page = "create"
    BY <1>6 DEF LeaveCard, EnterName, FormViews, OnForm
  <2> QED
    BY <1>1, <1>2, <1>3, <2>1 DEF TypeOK, CallsHere, ConfirmNames, OnHome
<1>7. CASE \/ AskRotate \/ CloseRotate \/ FetchDetail \/ FetchDetailFails \/ AskDelete
           \/ CloseDelete \/ Reconnect
  <2>1. view' \in DetailViews /\ view'.page = "detail" /\ view.page = "detail"
    <3>1. view.page = "detail" /\ view \in DetailViews
      BY <1>7 DEF AskRotate, CloseRotate, FetchDetail, FetchDetailFails, AskDelete,
                  CloseDelete, Reconnect, OnDetail, DetailClick, OnDetailPage
    <3> QED
      BY <1>7, <3>1 DEF AskRotate, CloseRotate, FetchDetail, FetchDetailFails, AskDelete,
                        CloseDelete, Reconnect, DetailViews
  <2> QED
    BY <1>1, <1>2, <1>3, <2>1 DEF TypeOK, CallsHere, ConfirmNames, OnHome
<1>8. CASE ShowBranchDialog \/ CloseBranchDialog
  <2>1. view' \in BranchViews /\ view'.page = "branches" /\ view.page = "branches"
    BY <1>8 DEF ShowBranchDialog, CloseBranchDialog, BranchViews, OnBranches, BranchClick
  <2> QED
    BY <1>1, <1>2, <1>3, <2>1 DEF TypeOK, CallsHere, ConfirmNames, OnHome
<1> QED
  BY <1>5, <1>6, <1>7, <1>8 DEF ShowSteps

\* A step that sends a request.
SendSteps ==
    \/ handleCreate \/ handleDeleteConfirm \/ handleSubmit \/ handleRotate \/ handleDelete
    \/ CreateBranch
    \/ \E d \in Dbs : DeleteBranch(d)

LEMMA SendKeepsType ==
    ASSUME TypeInv, SendSteps
    PROVE  TypeInv' /\ view'.page = view.page /\ UNCHANGED <<server, told>>
<1> USE PageTyped DEF TypeInv
<1>1. UNCHANGED <<server, cache, told, faults>>
  BY DEF SendSteps, handleCreate, handleDeleteConfirm, handleSubmit, handleRotate,
         handleDelete, CreateBranch, DeleteBranch
<1>2. CASE handleCreate \/ handleDeleteConfirm
  <2>1. view' \in HomeViews /\ view'.page = "home" /\ view.page = "home" /\ ConfirmNames'
    BY <1>2 DEF handleCreate, handleDeleteConfirm, OnHome, HomeViews, ConfirmNames
  <2>2. Send("create", None) \/ (view.confirm \in Dbs /\ Send("delete", view.confirm))
    BY <1>2 DEF handleCreate, handleDeleteConfirm, ConfirmNames
  <2>3. CallsHere'
    BY <2>1, <2>2, SendTyped DEF PageOf, Creates, Deletes
  <2> QED
    BY <1>1, <2>1, <2>3 DEF TypeOK, CallsHere
<1>3. CASE handleSubmit
  <2>1. view' = view /\ view.page = "create" /\ Send("createForm", None)
    BY <1>3 DEF handleSubmit, OnForm
  <2>3. CallsHere'
    BY <2>1, SendTyped DEF PageOf, Creates, Deletes
  <2> QED
    BY <1>1, <2>1, <2>3 DEF TypeOK, CallsHere, ConfirmNames, OnHome
<1>4. CASE handleRotate \/ handleDelete
  <2>1. view' \in DetailViews /\ view'.page = "detail" /\ view.page = "detail"
    BY <1>4 DEF handleRotate, handleDelete, OnDetail, OnDetailPage, DetailViews
  <2>2. view.db \in Dbs /\ (Send("rotate", view.db) \/ Send("deleteHere", view.db))
    BY <1>4, <2>1 DEF handleRotate, handleDelete, DetailViews
  <2>3. CallsHere'
    BY <2>1, <2>2, SendTyped DEF PageOf, Creates, Deletes
  <2> QED
    BY <1>1, <2>1, <2>3 DEF TypeOK, CallsHere, ConfirmNames, OnHome
<1>5. CASE CreateBranch \/ \E d \in Dbs : DeleteBranch(d)
  <2>1. view' \in BranchViews /\ view'.page = "branches" /\ view.page = "branches"
    BY <1>5 DEF CreateBranch, DeleteBranch, OnBranches, BranchClick, BranchViews
  <2>2. Send("createBranch", None) \/ \E d \in Dbs : Send("deleteBranch", d)
    BY <1>5 DEF CreateBranch, DeleteBranch
  <2>3. CallsHere'
    BY <2>1, <2>2, SendTyped DEF PageOf, Creates, Deletes
  <2> QED
    BY <1>1, <2>1, <2>3 DEF TypeOK, CallsHere, ConfirmNames, OnHome
<1> QED
  BY <1>2, <1>3, <1>4, <1>5 DEF SendSteps
-----------------------------------------------------------------------------
\* A step of the server, or a request that fails on its way.
ServerSteps(i) == Api(i) \/ Fail(i)

LEMMA ServerKeepsType ==
    ASSUME TypeInv, NEW i \in Slots, ServerSteps(i)
    PROVE  TypeInv' /\ UNCHANGED view
<1> USE DEF TypeInv
<1>0. /\ CallOf(calls[i], view.page) /\ calls[i] \in CallRecords
      /\ faults \in 0 .. MaxFaults
      /\ server.login \in [Dbs -> 0 .. MaxLogin]
  BY DEF CallsHere, TypeOK
<1>1. UNCHANGED <<view, cache>> /\ calls[i].stage = "sent"
  BY DEF ServerSteps, Api, ServeCreate, RefuseCreate, ServeDelete, ServeRotate, Fail
<1>2. SUFFICES /\ CallsHere' /\ faults' \in 0 .. MaxFaults
               /\ server' \in [born : SUBSET Dbs, live : SUBSET Dbs,
                              login : [Dbs -> 0 .. MaxLogin]]
               /\ (server.live \subseteq server.born)'
               /\ told' \in [Dbs -> {"shown", "coming", "missed"}]
  BY <1>1 DEF TypeOK, CallsHere, ConfirmNames, OnHome
<1>3. CASE ServeCreate(i)
  <2>1. PICK d \in Dbs \ server.born :
           /\ server' = [server EXCEPT !.born = @ \cup {d}, !.live = @ \cup {d}, !.login[d] = 1]
           /\ Serve(i, d)
           /\ \E s \in {"coming", "missed"} : told' = [told EXCEPT ![d] = s]
    BY <1>3 DEF ServeCreate
  <2>2. calls[i].op \in Creates
    BY <1>3 DEF ServeCreate
  <2>3. CallsHere' /\ faults' \in 0 .. MaxFaults
    BY <1>0, <1>1, <2>1, <2>2, ServeTyped DEF Creates
  <2>4. told' \in [Dbs -> {"shown", "coming", "missed"}]
    BY <2>1 DEF TypeOK
  <2>5. server' = [born |-> server.born \cup {d}, live |-> server.live \cup {d},
                   login |-> [server.login EXCEPT ![d] = 1]]
    BY <2>1 DEF TypeOK
  <2>6. [server.login EXCEPT ![d] = 1] \in [Dbs -> 0 .. MaxLogin]
    BY <1>0, DatabaseAssumption
  <2> QED
    BY <2>3, <2>4, <2>5, <2>6 DEF TypeOK
<1>4. CASE RefuseCreate(i) \/ Fail(i)
  <2>1. /\ UNCHANGED <<server, told>>
        /\ calls' = [calls EXCEPT ![i] = Again(@)]
        /\ UNCHANGED faults \/ (faults > 0 /\ faults' = faults - 1)
    BY <1>4 DEF RefuseCreate, Fail, Refuse
  <2>2. CallsHere'
    BY <1>1, <2>1, AgainHere
  <2> QED
    BY <1>0, <2>1, <2>2, TabAssumption DEF TypeOK
<1>5. CASE ServeDelete(i)
  <2>1. calls[i].op \in Deletes /\ calls[i].on \in Dbs
    BY <1>0, <1>5 DEF ServeDelete, CallOf, CallTyped
  <2>2. CASE calls[i].on \in server.live
    <3>1. /\ server' = [server EXCEPT !.live = @ \ {calls[i].on}, !.login[calls[i].on] = 0]
          /\ told' = [told EXCEPT ![calls[i].on] = "shown"]
          /\ Serve(i, None)
      BY <1>5, <2>2 DEF ServeDelete
    <3>2. CallsHere' /\ faults' \in 0 .. MaxFaults
      BY <1>0, <1>1, <2>1, <3>1, ServeTyped DEF Creates, Deletes
    <3>3. server' = [born |-> server.born, live |-> server.live \ {calls[i].on},
                     login |-> [server.login EXCEPT ![calls[i].on] = 0]]
      BY <3>1 DEF TypeOK
    <3>3a. \A d \in Dbs : [server.login EXCEPT ![d] = 0] \in [Dbs -> 0 .. MaxLogin]
      BY <1>0, DatabaseAssumption
    <3>4. [server.login EXCEPT ![calls[i].on] = 0] \in [Dbs -> 0 .. MaxLogin]
      BY <2>1, <3>3a
    <3>5. told' \in [Dbs -> {"shown", "coming", "missed"}]
      BY <3>1 DEF TypeOK
    <3> QED
      BY <3>2, <3>3, <3>4, <3>5 DEF TypeOK
  <2>3. CASE calls[i].on \notin server.live
    <3>1. UNCHANGED <<server, told, faults>> /\ calls' = [calls EXCEPT ![i] = Again(@)]
      BY <1>5, <2>3 DEF ServeDelete, Refuse
    <3>2. CallsHere'
      BY <1>1, <3>1, AgainHere
    <3> QED
      BY <3>1, <3>2 DEF TypeOK
  <2> QED
    BY <2>2, <2>3
<1>6. CASE ServeRotate(i)
  <2> DEFINE d == calls[i].on
  <2>1. calls[i].op = "rotate" /\ d \in Dbs
    BY <1>0, <1>6 DEF ServeRotate, CallOf, CallTyped
  <2>2. told' \in [Dbs -> {"shown", "coming", "missed"}]
    <3>1. told' = told \/ \E s \in {"coming", "missed"} : told' = [told EXCEPT ![d] = s]
      BY <1>6 DEF ServeRotate
    <3> QED
      BY <3>1 DEF TypeOK
  <2>3. CASE d \in server.live /\ server.login[d] < MaxLogin
    <3>1. server' = [server EXCEPT !.login[d] = @ + 1] /\ Serve(i, server.login[d] + 1)
      BY <1>6, <2>3 DEF ServeRotate
    <3>2. server.login[d] + 1 \in 0 .. MaxLogin
      BY <1>0, <2>1, <2>3, DatabaseAssumption
    <3>3. CallsHere' /\ faults' \in 0 .. MaxFaults
      BY <1>0, <1>1, <2>1, <3>1, <3>2, ServeTyped DEF Creates
    <3> QED
      BY <2>1, <2>2, <3>1, <3>2, <3>3 DEF TypeOK
  <2>4. CASE ~(d \in server.live /\ server.login[d] < MaxLogin)
    <3>1. UNCHANGED <<server, faults>> /\ calls' = [calls EXCEPT ![i] = Again(@)]
      BY <1>6, <2>4 DEF ServeRotate, Refuse
    <3>2. CallsHere'
      BY <1>1, <3>1, AgainHere
    <3> QED
      BY <2>2, <3>1, <3>2 DEF TypeOK
  <2> QED
    BY <2>3, <2>4
<1> QED
  BY <1>3, <1>4, <1>5, <1>6 DEF ServerSteps, Api

\* A step that opens another page.
MoveSteps ==
    \/ Navigate(Home) \/ Navigate(Form) \/ Reload
    \/ \E d \in Dbs : handleView(d) \/ OpenBranches(d) \/ ViewBranch(d)

\* The pages as they open.
Opened == {Home, Form} \cup {Detail(d, TRUE) : d \in Dbs} \cup {Detail(d, FALSE) : d \in Dbs}
              \cup {Branching(d) : d \in Dbs}

LEMMA MoveKeepsType ==
    ASSUME TypeInv, MoveSteps
    PROVE  /\ TypeInv' /\ UNCHANGED server
           /\ calls' = [i \in Slots |-> [calls[i] EXCEPT !.live = FALSE]]
           /\ view' \in Opened
           /\ \/ UNCHANGED told
              \/ told' = [d \in Dbs |-> IF told[d] = "coming" THEN "missed" ELSE told[d]]
<1> USE DEF TypeInv
<1>1. /\ calls' = [i \in Slots |-> [calls[i] EXCEPT !.live = FALSE]]
      /\ UNCHANGED <<server, faults>>
      /\ \/ UNCHANGED told
         \/ told' = [d \in Dbs |-> IF told[d] = "coming" THEN "missed" ELSE told[d]]
  BY DEF MoveSteps, Navigate, Reload, handleView, OpenBranches, ViewBranch, Open, OpenDetail
<1>2. view' \in Opened
  <2>1. CASE Reload
    <3>1. view.db \in Dbs
      BY <2>1, PageTyped DEF Reload, OnDetailPage, DetailViews
    <3> QED
      BY <2>1, <3>1 DEF Reload, Opened
  <2>2. CASE \E d \in Dbs : handleView(d) \/ ViewBranch(d)
    <3>1. PICK d \in Dbs : view' = Detail(d, TRUE) \/ view' = Detail(d, FALSE)
      BY <2>2 DEF handleView, ViewBranch, OpenDetail, Open
    <3> QED
      BY <3>1 DEF Opened
  <2>3. CASE Navigate(Home) \/ Navigate(Form)
    BY <2>3 DEF Navigate, Open, Opened
  <2>4. CASE \E d \in Dbs : OpenBranches(d)
    BY <2>4 DEF OpenBranches, Open, Opened
  <2> QED
    BY <2>1, <2>2, <2>3, <2>4 DEF MoveSteps
<1>3. CallsHere'
  BY <1>1, OpenTyped
<1>4. view' \in HomeViews \cup FormViews \cup DetailViews \cup BranchViews /\ ConfirmNames'
  <2>1. CASE view' \in {Home, Form}
    BY <2>1 DEF Home, Form, HomeViews, FormViews, ConfirmNames, OnHome, NameKinds
  <2>2. CASE \E d \in Dbs, due \in BOOLEAN : view' = Detail(d, due)
    BY <2>2, DatabaseAssumption DEF Detail, DetailViews, ConfirmNames, OnHome
  <2>3. CASE \E d \in Dbs : view' = Branching(d)
    BY <2>3 DEF Branching, BranchViews, ConfirmNames, OnHome
  <2> QED
    BY <1>2, <2>1, <2>2, <2>3 DEF Opened
<1>5. told' \in [Dbs -> {"shown", "coming", "missed"}]
  BY <1>1 DEF TypeOK
<1>6. cache' \in Details
  <2>1. NoDetail \in Details /\ FailedDetail \in Details
    BY NoDetailTyped DEF Details
  <2>2. ASSUME NEW d \in Dbs
        PROVE  {Shows(n) : n \in EarlierUsers(d)} \subseteq Details
    <3>1. EarlierUsers(d) \subseteq 0 .. MaxLogin
      BY DatabaseAssumption DEF EarlierUsers, TypeOK
    <3> QED
      BY <3>1 DEF Details
  <2> QED
    BY <2>1, <2>2 DEF MoveSteps, Navigate, Reload, handleView, OpenBranches, ViewBranch,
                      OpenDetail
<1> QED
  BY <1>1, <1>2, <1>3, <1>4, <1>5, <1>6 DEF TypeOK, CallsHere

\* The answer of a deletion that takes the user to the list.
Leaves(i) == DeleteHereAnswered(i) /\ calls[i].stage = "ok" /\ ~OnHome

\* A step in which an answer is handled.
LEMMA AnswerKeepsType ==
    ASSUME TypeInv, NEW i \in Slots, Answers(i)
    PROVE  TypeInv' /\ UNCHANGED server
<1> USE DEF TypeInv
<1>0. /\ CallOf(calls[i], view.page) /\ calls[i] \in CallRecords
      /\ calls[i].stage # "sent"
      /\ calls[i].stage = "ok" /\ calls[i].op \in Creates => calls[i].got \in Dbs
      /\ calls[i].stage = "ok" /\ calls[i].op = "rotate" => calls[i].got \in 0 .. MaxLogin
  BY DEF CallsHere, CallOf, CallTyped, Answers, Answered, CreateAnswered, DeleteAnswered,
         FormAnswered, RotateAnswered, DeleteHereAnswered, BranchCreated, BranchDeleted
<1>1. UNCHANGED <<server, faults>> /\ cache' \in Details
  <2>1. UNCHANGED cache \/ cache' = NoDetail
    BY DEF Answers, CreateAnswered, DeleteAnswered, FormAnswered, RotateAnswered,
           DeleteHereAnswered, BranchCreated, BranchDeleted
  <2>2. cache' \in Details
    BY <2>1, NoDetailTyped DEF TypeOK
  <2> QED
    BY <2>2 DEF Answers, CreateAnswered, DeleteAnswered, FormAnswered, RotateAnswered,
                DeleteHereAnswered, BranchCreated, BranchDeleted
<1>2. told' \in [Dbs -> {"shown", "coming", "missed"}]
  <2>1. UNCHANGED told \/ \E d \in Dbs, s \in {"shown", "missed"} : told' = [told EXCEPT ![d] = s]
    <3>1. CASE FormAnswered(i)
      BY <1>0, <3>1 DEF FormAnswered, Tell, Answered, Creates
    <3>3. CASE CreateAnswered(i) \/ BranchCreated(i)
      BY <1>0, <3>3 DEF CreateAnswered, BranchCreated, Tell, Answered, Creates
    <3>2. CASE RotateAnswered(i)
      <4>1. calls[i].on \in Dbs
        BY <1>0, <3>2 DEF RotateAnswered, Answered, CallOf, CallTyped
      <4> QED
        BY <3>2, <4>1 DEF RotateAnswered, Tell
    <3> QED
      BY <3>1, <3>2, <3>3 DEF Answers, DeleteAnswered, DeleteHereAnswered, BranchDeleted
  <2> QED
    BY <2>1 DEF TypeOK
<1>3. CASE Leaves(i)
  <2>1. view' = Home
    BY <1>3 DEF Leaves, DeleteHereAnswered
  <2>2. \A j \in Slots : calls'[j] = IF j = i THEN NoCall ELSE [calls[j] EXCEPT !.live = FALSE]
    BY <1>3 DEF Leaves, DeleteHereAnswered
  <2>3. \A j \in Slots : CallOf(calls'[j], view'.page) /\ calls'[j] \in CallRecords
    <3> TAKE j \in Slots
    <3>1. CallOf(calls[j], view.page)
      BY DEF CallsHere
    <3>2. j # i => calls'[j] = [calls[j] EXCEPT !.live = FALSE]
      BY <2>2
    <3>3. j = i => calls'[j] = NoCall
      BY <2>2
    <3> QED
      BY <3>1, <3>2, <3>3, NoCallTyped DEF CallOf, CallTyped, CallRecords
  <2>4. calls' \in [Slots -> CallRecords]
    BY <1>3, <2>3 DEF Leaves, DeleteHereAnswered
  <2>5. view' \in HomeViews /\ ConfirmNames'
    BY <2>1 DEF Home, HomeViews, ConfirmNames
  <2> QED
    BY <1>1, <1>2, <2>3, <2>4, <2>5 DEF TypeOK, CallsHere
<1>4. CASE ~Leaves(i)
  <2>1. Settle(i)
    BY <1>4 DEF Leaves, Answers, CreateAnswered, DeleteAnswered, FormAnswered,
                RotateAnswered, DeleteHereAnswered, BranchCreated, BranchDeleted
  <2>2. /\ view' \in HomeViews \cup FormViews \cup DetailViews \cup BranchViews
        /\ view'.page = view.page /\ ConfirmNames'
    <3>1. CASE ~calls[i].live
      <4>1. UNCHANGED view
        <5>1. CASE FormAnswered(i)
          BY <3>1, <5>1 DEF FormAnswered
        <5>2. CASE RotateAnswered(i)
          BY <3>1, <5>2 DEF RotateAnswered
        <5>3. CASE DeleteHereAnswered(i)
          BY <1>4, <3>1, <5>3 DEF Leaves, DeleteHereAnswered
        <5> QED
          BY <3>1, <5>1, <5>2, <5>3 DEF Answers, CreateAnswered, DeleteAnswered, BranchCreated,
                                        BranchDeleted
      <4> QED
        BY <4>1 DEF TypeOK, ConfirmNames, OnHome
    <3>2. CASE calls[i].live
      <4>0. view.page = PageOf(calls[i].op)
        BY <1>0, <3>2 DEF CallOf
      <4>1. CASE CreateAnswered(i) \/ DeleteAnswered(i)
        <5>1. OnHome /\ view \in HomeViews
          BY <4>0, <4>1, PageTyped DEF CreateAnswered, DeleteAnswered, Answered, PageOf, OnHome
        <5> QED
          BY ZenonT(60), <4>1, <5>1 DEF CreateAnswered, DeleteAnswered, HomeViews, ConfirmNames, OnHome
      <4>2. CASE FormAnswered(i)
        <5>1. view.page = "create" /\ view \in FormViews
          BY <4>0, <4>2, PageTyped DEF FormAnswered, Answered, PageOf
        <5>2. view' = view \/ (calls[i].got \in Dbs /\ view' = [view EXCEPT !.result = calls[i].got])
          BY <1>0, <4>2 DEF FormAnswered, Answered, Creates
        <5> QED
          BY <5>1, <5>2 DEF FormViews, ConfirmNames, OnHome
      <4>3. CASE RotateAnswered(i)
        <5>1. view.page = "detail" /\ view \in DetailViews
          BY <4>0, <4>3, PageTyped DEF RotateAnswered, Answered, PageOf
        <5>2. \/ /\ calls[i].got \in 0 .. MaxLogin
                 /\ view' = [view EXCEPT !.rotated = calls[i].got, !.dialog = "none",
                                         !.due = @ \/ Refetched]
              \/ view' = [view EXCEPT !.dialog = "none"]
          BY <1>0, <3>2, <4>3 DEF RotateAnswered, Answered
        <5>3. (view.due \/ Refetched) \in BOOLEAN
          OBVIOUS
        <5> DEFINE due == view.due \/ Refetched
        <5> HIDE DEF due
        <5>4. due \in BOOLEAN
          BY <5>3 DEF due
        <5>5. \/ /\ calls[i].got \in 0 .. MaxLogin
                 /\ view' = [view EXCEPT !.rotated = calls[i].got, !.dialog = "none",
                                         !.due = due]
              \/ view' = [view EXCEPT !.dialog = "none"]
          BY <5>2 DEF due
        <5> QED
          BY <5>1, <5>4, <5>5 DEF DetailViews, ConfirmNames, OnHome
      <4>4. CASE DeleteHereAnswered(i)
        <5>1. view.page = "detail" /\ view \in DetailViews
          BY <4>0, <4>4, PageTyped DEF DeleteHereAnswered, Answered, PageOf
        <5> QED
          BY <1>4, <4>4, <5>1 DEF Leaves, DeleteHereAnswered, DetailViews, ConfirmNames, OnHome
      <4>5. CASE BranchCreated(i) \/ BranchDeleted(i)
        <5>1. view.page = "branches" /\ view \in BranchViews
          BY <4>0, <4>5, PageTyped DEF BranchCreated, BranchDeleted, Answered, PageOf, OnBranches
        <5> QED
          BY <4>5, <5>1 DEF BranchCreated, BranchDeleted, BranchViews, ConfirmNames, OnHome
      <4> QED
        BY <4>1, <4>2, <4>3, <4>4, <4>5 DEF Answers
    <3> QED
      BY <3>1, <3>2
  <2>3. CallsHere'
    BY <2>1, <2>2, SettleTyped
  <2> QED
    BY <1>1, <1>2, <2>2, <2>3 DEF TypeOK, CallsHere
<1> QED
  BY <1>3, <1>4
-----------------------------------------------------------------------------
\* Every step is of one of these kinds.
LEMMA StepKinds ==
    ASSUME Next
    PROVE  \/ ShowSteps \/ SendSteps \/ MoveSteps
           \/ \E i \in Slots : ServerSteps(i) \/ Answers(i)
<1>1. CASE HomeSteps
  BY <1>1 DEF HomeSteps, ShowSteps, SendSteps, Answers
<1>2. CASE FormSteps
  BY <1>2 DEF FormSteps, ShowSteps, SendSteps, Answers
<1>3. CASE DetailSteps
  BY <1>3 DEF DetailSteps, ShowSteps, SendSteps, MoveSteps, Answers
<1>4. CASE BranchSteps
  BY <1>4 DEF BranchSteps, ShowSteps, SendSteps, MoveSteps, Answers
<1> QED
  BY <1>1, <1>2, <1>3, <1>4 DEF Next, ShowSteps, MoveSteps, ServerSteps

LEMMA InitTypeInv == Init => TypeInv
<1> SUFFICES ASSUME Init
             PROVE  TypeInv
  OBVIOUS
<1>1. calls \in [Slots -> CallRecords] /\ \A i \in Slots : CallOf(calls[i], view.page)
  BY NoCallTyped DEF Init, CallOf, CallTyped
<1>2. view \in HomeViews /\ ConfirmNames
  BY DEF Init, Home, HomeViews, ConfirmNames
<1>3. server \in [born : SUBSET Dbs, live : SUBSET Dbs, login : [Dbs -> 0 .. MaxLogin]]
  BY FirstAssumption, DatabaseAssumption DEF Init
<1> QED
  BY <1>1, <1>2, <1>3, NoDetailTyped, TabAssumption DEF Init, TypeInv, TypeOK, CallsHere

LEMMA NextTypeInv == TypeInv /\ [Next]_vars => TypeInv'
<1> SUFFICES ASSUME TypeInv, [Next]_vars
             PROVE  TypeInv'
  OBVIOUS
<1>1. CASE Next
  BY <1>1, StepKinds, ShowKeepsType, SendKeepsType, MoveKeepsType, ServerKeepsType,
     AnswerKeepsType
<1>2. CASE UNCHANGED vars
  BY <1>2 DEF vars, TypeInv, TypeOK, CallsHere, ConfirmNames, OnHome
<1> QED
  BY <1>1, <1>2

\* Pages, requests and what the API stores stay in their ranges
\* (dashboard/page.tsx, CreateDBForm.tsx, [id]/page.tsx, BranchManager.tsx).
THEOREM TypeCorrect == Spec => []TypeOK
<1>1. TypeInv => TypeOK
  BY DEF TypeInv
<1> QED
  BY <1>1, InitTypeInv, NextTypeInv, PTL DEF Spec
-----------------------------------------------------------------------------
SameCall(c, e) ==
    c.op = e.op /\ c.on = e.on /\ c.stage = e.stage /\ c.got = e.got /\ c.live = e.live

\* What a step that sends does to the requests: one more, the rest as they were.
LEMMA SendAddsOne ==
    ASSUME TypeInv, SendSteps
    PROVE  \E op \in Creates \cup Deletes \cup {"rotate"}, on \in Dbs \cup {None}, s \in Slots :
              /\ calls[s].op = "none"
              /\ calls'[s].op = op /\ calls'[s].on = on
              /\ calls'[s].live /\ calls'[s].stage = "sent"
              /\ \A i \in Slots \ {s} : SameCall(calls'[i], calls[i])
              /\ OnHome => \/ op = "create" /\ UNCHANGED view
                           \/ /\ op = "delete" /\ on \in Dbs
                              /\ view.deleting = None /\ view'.deleting = on
<1> USE PageTyped DEF TypeInv
<1>1. ASSUME NEW op, NEW on, Send(op, on)
      PROVE  \E s \in Slots :
               /\ calls[s].op = "none"
               /\ calls'[s].op = op /\ calls'[s].on = on
               /\ calls'[s].live /\ calls'[s].stage = "sent"
               /\ \A i \in Slots \ {s} : SameCall(calls'[i], calls[i])
  <2>1. FreeSlot \in Slots /\ calls[FreeSlot].op = "none"
    BY <1>1 DEF Send, UnderWay, FreeSlot
  <2>2. /\ calls'[FreeSlot] = [NoCall EXCEPT !.op = op, !.on = on, !.live = TRUE,
                                            !.watched = TRUE]
        /\ \A i \in Slots \ {FreeSlot} :
             calls'[i] = [calls[i] EXCEPT !.watched = @ /\ calls[i].op # op]
    BY <1>1, <2>1 DEF Send
  <2>3. \A i \in Slots \ {FreeSlot} : SameCall(calls'[i], calls[i])
    <3> TAKE i \in Slots \ {FreeSlot}
    <3>1. PICK w : calls'[i] = [calls[i] EXCEPT !.watched = w]
      BY <2>2
    <3> QED
      BY <3>1 DEF SameCall, CallsHere, CallRecords
  <2> QED
    BY <2>1, <2>2, <2>3 DEF NoCall
<1>2. \E op \in Creates \cup Deletes \cup {"rotate"}, on \in Dbs \cup {None} :
        /\ Send(op, on)
        /\ OnHome => \/ op = "create" /\ UNCHANGED view
                     \/ /\ op = "delete" /\ on \in Dbs
                        /\ view.deleting = None /\ view'.deleting = on
  <2>1. CASE handleCreate
    BY <2>1 DEF handleCreate, OnHome, Creates
  <2>2. CASE handleDeleteConfirm
    BY <2>2 DEF handleDeleteConfirm, OnHome, ConfirmNames, Deletes, HomeViews
  <2>3. CASE handleSubmit
    BY <2>3 DEF handleSubmit, OnForm, OnHome, Creates
  <2>4. CASE handleRotate \/ handleDelete
    BY <2>4 DEF handleRotate, handleDelete, OnDetail, OnDetailPage, OnHome, Deletes, DetailViews
  <2>5. CASE CreateBranch \/ \E d \in Dbs : DeleteBranch(d)
    BY <2>5 DEF CreateBranch, DeleteBranch, OnBranches, BranchClick, OnHome, Creates, Deletes
  <2> QED
    BY <2>1, <2>2, <2>3, <2>4, <2>5 DEF SendSteps
<1> QED
  BY <1>1, <1>2

\* A request that the server or the network has dealt with is still the same.
LEMMA ServerKeepsCalls ==
    ASSUME TypeInv, NEW i \in Slots, ServerSteps(i)
    PROVE  /\ calls[i].stage = "sent"
           /\ \A j \in Slots \ {i} : calls'[j] = calls[j]
           /\ calls'[i].op = calls[i].op /\ calls'[i].on = calls[i].on
           /\ calls'[i].live = calls[i].live
<1>1. \/ \E got : calls' = [calls EXCEPT ![i].stage = "ok", ![i].got = got]
      \/ calls' = [calls EXCEPT ![i] = Again(@)]
  BY DEF ServerSteps, Api, ServeCreate, RefuseCreate, ServeDelete, ServeRotate, Fail, Serve,
         Refuse
<1>2. calls[i].stage = "sent" /\ calls[i] \in CallRecords /\ CallOf(calls[i], view.page)
  BY DEF ServerSteps, Api, ServeCreate, RefuseCreate, ServeDelete, ServeRotate, Fail, TypeInv,
         CallsHere
<1>3. calls \in [Slots -> CallRecords]
  BY DEF TypeInv, CallsHere
<1>4. CASE calls' = [calls EXCEPT ![i] = Again(@)]
  BY <1>2, <1>3, <1>4, AgainTyped
<1>5. CASE \E got : calls' = [calls EXCEPT ![i].stage = "ok", ![i].got = got]
  BY <1>2, <1>3, <1>5 DEF CallRecords
<1> QED
  BY <1>1, <1>2, <1>4, <1>5
-----------------------------------------------------------------------------
\* A request whose answer has come and holds the login of d.
Brings(c, d) ==
    /\ c.stage = "ok"
    /\ \/ c.op \in Creates /\ c.got = d /\ server.login[d] = 1
       \/ c.op = "rotate" /\ c.on = d /\ c.got = server.login[d]

\* CredentialsAreComing, and the answer holds the login that is valid.
LoginsCome ==
    \A d \in Dbs : told[d] = "coming" => \E i \in Slots : Brings(calls[i], d)

LEMMA NextLoginsCome ==
    ASSUME TypeInv, TypeInv', LoginsCome, [Next]_vars
    PROVE  LoginsCome'
<1> SUFFICES ASSUME NEW d \in Dbs, (told[d] = "coming")'
             PROVE  (\E i \in Slots : Brings(calls[i], d))'
  BY DEF LoginsCome
<1>0. /\ server.login \in [Dbs -> 0 .. MaxLogin] /\ told \in [Dbs -> {"shown", "coming", "missed"}]
      /\ server = [born |-> server.born, live |-> server.live, login |-> server.login]
      /\ calls \in [Slots -> CallRecords]
  BY DEF TypeInv, TypeOK
<1>2. CASE ShowSteps
  <2>1. UNCHANGED <<calls, server, told>>
    BY <1>2, ShowKeepsType
  <2> QED
    BY <2>1 DEF LoginsCome, Brings
<1>3. CASE SendSteps
  <2>1. UNCHANGED <<server, told>>
    BY <1>3, SendKeepsType
  <2>2. \E s \in Slots : /\ calls[s].op = "none"
                         /\ \A i \in Slots \ {s} : SameCall(calls'[i], calls[i])
    BY <1>3, SendAddsOne
  <2> QED
    BY <2>1, <2>2 DEF LoginsCome, Brings, SameCall, Creates
<1>4. CASE MoveSteps
  <2>1. /\ UNCHANGED server
        /\ calls' = [i \in Slots |-> [calls[i] EXCEPT !.live = FALSE]]
        /\ \/ UNCHANGED told
           \/ told' = [e \in Dbs |-> IF told[e] = "coming" THEN "missed" ELSE told[e]]
    BY <1>4, MoveKeepsType
  <2>2. told[d] = "coming"
    BY <2>1
  <2>3. PICK i \in Slots : Brings(calls[i], d)
    BY <2>2 DEF LoginsCome
  <2>4. calls'[i] = [calls[i] EXCEPT !.live = FALSE]
    BY <2>1
  <2>5. Brings(calls[i], d)'
    BY <1>0, <2>1, <2>3, <2>4 DEF Brings, CallRecords
  <2> QED
    BY <2>5
<1>5. ASSUME NEW i \in Slots, ServerSteps(i)
      PROVE  (\E j \in Slots : Brings(calls[j], d))'
  <2>1. /\ calls[i].stage = "sent"
        /\ \A j \in Slots \ {i} : calls'[j] = calls[j]
        /\ calls'[i].op = calls[i].op /\ calls'[i].on = calls[i].on
    BY <1>5, ServerKeepsCalls
  <2>2. CASE told[d] = "coming" /\ server'.login[d] = server.login[d]
    BY <2>1, <2>2 DEF LoginsCome, Brings
  <2>3. CASE ServeCreate(i)
    <3>1. PICK e \in Dbs \ server.born :
            /\ server' = [server EXCEPT !.born = @ \cup {e}, !.live = @ \cup {e}, !.login[e] = 1]
            /\ Serve(i, e)
            /\ told' = [told EXCEPT ![e] = IF Unheard(i) THEN "missed" ELSE "coming"]
            /\ calls[i].op \in Creates
      BY <2>3 DEF ServeCreate
    <3>2. CASE d = e
      <4>1. calls'[i].stage = "ok" /\ calls[i].op \in Creates
        BY <1>0, <3>1, <3>2 DEF Unheard
      <4>2. server'.login[d] = 1
        BY <1>0, <3>1, <3>2
      <4>3. calls'[i].got = d
        <5>1. CallsHere /\ faults \in 0 .. MaxFaults /\ UNCHANGED view
          BY <1>5, ServerKeepsType DEF TypeInv, TypeOK
        <5> QED
          BY <2>1, <3>1, <3>2, <4>1, <5>1, ServeTyped DEF Creates
      <4> QED
        BY <2>1, <4>1, <4>2, <4>3 DEF Brings
    <3>3. CASE d # e
      BY <1>0, <2>2, <3>1, <3>3
    <3> QED
      BY <3>2, <3>3
  <2>4. CASE ServeDelete(i)
    <3>1. calls[i].on \in Dbs
      BY <2>4 DEF ServeDelete, TypeInv, CallsHere, CallOf, CallTyped
    <3>2. \/ UNCHANGED <<server, told>>
          \/ /\ server' = [server EXCEPT !.live = @ \ {calls[i].on}, !.login[calls[i].on] = 0]
             /\ told' = [told EXCEPT ![calls[i].on] = "shown"]
      BY <2>4 DEF ServeDelete, Refuse
    <3>3. CASE UNCHANGED <<server, told>>
      BY <2>2, <3>3
    <3>4. CASE /\ server' = [server EXCEPT !.live = @ \ {calls[i].on},
                                          !.login[calls[i].on] = 0]
               /\ told' = [told EXCEPT ![calls[i].on] = "shown"]
      <4>1. d # calls[i].on
        BY <1>0, <3>4
      <4>2. server'.login[d] = server.login[d] /\ told[d] = "coming"
        BY <1>0, <3>4, <4>1
      <4> QED
        BY <2>2, <4>2
    <3> QED
      BY <3>2, <3>3, <3>4
  <2>5. CASE ServeRotate(i)
    <3> DEFINE e == calls[i].on
    <3>1. e \in Dbs /\ calls[i].op = "rotate"
      BY <2>5 DEF ServeRotate, TypeInv, CallsHere, CallOf, CallTyped
    <3>2. CASE UNCHANGED server
      BY <2>2, <2>5, <3>2 DEF ServeRotate
    <3>3. CASE server' # server
      <4>1. /\ server' = [server EXCEPT !.login[e] = @ + 1]
            /\ Serve(i, server.login[e] + 1)
            /\ told' = [told EXCEPT ![e] = IF Unheard(i) THEN "missed" ELSE "coming"]
            /\ server.login[e] < MaxLogin
        BY <2>5, <3>3 DEF ServeRotate, Refuse
      <4>2. CASE d = e
        <5>1. calls'[i].stage = "ok"
          BY <1>0, <4>1, <4>2 DEF Unheard
        <5>2. server'.login[d] = server.login[d] + 1
          BY <1>0, <4>1, <4>2
        <5>3. server.login[e] + 1 \in 0 .. MaxLogin
          BY <1>0, <3>1, <4>1, DatabaseAssumption
        <5>4. CallsHere /\ faults \in 0 .. MaxFaults /\ UNCHANGED view
          BY <1>5, ServerKeepsType DEF TypeInv, TypeOK
        <5>5. calls'[i].got = server.login[e] + 1
          BY <2>1, <3>1, <4>1, <5>1, <5>3, <5>4, ServeTyped DEF Creates
        <5> QED
          BY <2>1, <3>1, <4>2, <5>1, <5>2, <5>5 DEF Brings
      <4>3. CASE d # e
        BY <1>0, <2>2, <4>1, <4>3
      <4> QED
        BY <4>2, <4>3
    <3> QED
      BY <3>2, <3>3
  <2>6. CASE RefuseCreate(i) \/ Fail(i)
    BY <2>2, <2>6 DEF RefuseCreate, Fail, Refuse
  <2> QED
    BY <1>5, <2>3, <2>4, <2>5, <2>6 DEF ServerSteps, Api
<1>6. ASSUME NEW i \in Slots, Answers(i)
      PROVE  (\E j \in Slots : Brings(calls[j], d))'
  <2>1. UNCHANGED server
    BY <1>6, AnswerKeepsType
  <2>2. told[d] = "coming"
    BY <1>0, <1>6 DEF Answers, CreateAnswered, DeleteAnswered, FormAnswered, RotateAnswered,
                      DeleteHereAnswered, BranchCreated, BranchDeleted, Tell
  <2>3. PICK j \in Slots : Brings(calls[j], d)
    BY <2>2 DEF LoginsCome
  <2>4. CASE j = i
    <3>1. CASE calls[i].op \in Creates
      <4>1. FormAnswered(i) \/ CreateAnswered(i) \/ BranchCreated(i)
        BY <1>6, <3>1 DEF Answers, DeleteAnswered, RotateAnswered, DeleteHereAnswered,
                          BranchDeleted, Answered, Creates
      <4> QED
        BY <1>0, <2>3, <2>4, <3>1, <4>1 DEF FormAnswered, CreateAnswered, BranchCreated, Tell,
                                            Brings, Creates
    <3>2. CASE calls[i].op = "rotate"
      <4>1. RotateAnswered(i)
        BY <1>6, <3>2 DEF Answers, CreateAnswered, DeleteAnswered, FormAnswered,
                          DeleteHereAnswered, BranchCreated, BranchDeleted, Answered
      <4> QED
        BY <1>0, <2>3, <2>4, <3>2, <4>1 DEF RotateAnswered, Tell, Brings, Creates
    <3> QED
      BY <2>3, <2>4, <3>1, <3>2 DEF Brings, Creates
  <2>5. CASE j # i
    <3>1. calls'[j] = calls[j] \/ calls'[j] = [calls[j] EXCEPT !.live = FALSE]
      <4>1. \/ Settle(i)
            \/ calls' = [k \in Slots |-> IF k = i THEN NoCall
                                         ELSE [calls[k] EXCEPT !.live = FALSE]]
        BY <1>6 DEF Answers, CreateAnswered, DeleteAnswered, FormAnswered, RotateAnswered,
                    DeleteHereAnswered, BranchCreated, BranchDeleted
      <4> QED
        BY <1>0, <2>5, <4>1 DEF Settle
    <3> QED
      BY <1>0, <2>1, <2>3, <3>1 DEF Brings, CallRecords
  <2> QED
    BY <2>4, <2>5
<1>7. CASE UNCHANGED vars
  BY <1>7 DEF vars, LoginsCome, Brings
<1> QED
  BY <1>2, <1>3, <1>4, <1>5, <1>6, <1>7, StepKinds

\* Credentials exist in one answer only.  While nobody was shown the login in
\* force and none of the ways to lose it that the code has was taken (the answer
\* lost, the page left or reloaded, the two dialogs that create and drop it:
\* handleCreate in dashboard/page.tsx and in BranchManager.tsx), the answer that
\* holds it is under way: the handlers of other requests, the dialogs and a second
\* rotation do not take it away.
THEOREM CredentialsCome == Spec => []CredentialsAreComing
<1>1. Init => TypeInv /\ LoginsCome
  BY InitTypeInv DEF Init, LoginsCome
<1>2. TypeInv /\ LoginsCome /\ [Next]_vars => (TypeInv /\ LoginsCome)'
  BY NextTypeInv, NextLoginsCome
<1>3. LoginsCome => CredentialsAreComing
  BY DEF LoginsCome, CredentialsAreComing, Brings
<1> QED
  BY <1>1, <1>2, <1>3, PTL DEF Spec
-----------------------------------------------------------------------------
\* A deletion that the list of databases waits for.
Awaited(c) == c.op = "delete" /\ c.live

\* There is at most one of them, that of the card that says so.
OneDeletion ==
    OnHome => /\ \A i \in Slots : Awaited(calls[i]) => calls[i].on = view.deleting
              /\ \A i, j \in Slots : Awaited(calls[i]) /\ Awaited(calls[j]) => i = j
              /\ view.deleting # None => \E i \in Slots : Awaited(calls[i])

LEMMA NextOneDeletion ==
    ASSUME TypeInv, TypeInv', OneDeletion, [Next]_vars
    PROVE  OneDeletion'
<1>0. /\ calls \in [Slots -> CallRecords]
      /\ \A i \in Slots : Awaited(calls[i]) => OnHome /\ calls[i].on \in Dbs
      /\ OnHome => view \in HomeViews
  BY PageTyped DEF TypeInv, CallsHere, CallOf, CallTyped, Awaited, PageOf, OnHome, Deletes
<1>1. CASE UNCHANGED calls /\ view'.page = view.page /\ (OnHome => view'.deleting = view.deleting)
  BY <1>1 DEF OneDeletion, Awaited, OnHome
<1>2. CASE ShowSteps
  <2>1. UNCHANGED calls /\ view'.page = view.page
    BY <1>2, ShowKeepsType
  <2>2. OnHome => view'.deleting = view.deleting
    BY <1>0, <1>2 DEF ShowSteps, ShowCreate, CloseCreate, CloseConfirm, LeaveCard, AskRotate,
         CloseRotate, FetchDetail, FetchDetailFails, AskDelete, CloseDelete, ShowBranchDialog,
         CloseBranchDialog, Reconnect, handleDeleteRequest, EnterName, OnHome, HomeViews,
         OnForm, OnDetail, OnDetailPage, DetailClick, OnBranches, BranchClick
  <2> QED
    BY <1>1, <2>1, <2>2
<1>3. CASE SendSteps
  <2>1. PICK op \in Creates \cup Deletes \cup {"rotate"}, on \in Dbs \cup {None}, s \in Slots :
          /\ calls[s].op = "none"
          /\ calls'[s].op = op /\ calls'[s].on = on /\ calls'[s].live
          /\ \A i \in Slots \ {s} : SameCall(calls'[i], calls[i])
          /\ OnHome => \/ op = "create" /\ UNCHANGED view
                       \/ /\ op = "delete" /\ on \in Dbs
                          /\ view.deleting = None /\ view'.deleting = on
    BY <1>3, SendAddsOne
  <2>2. view'.page = view.page
    BY <1>3, SendKeepsType
  <2>3. \A i \in Slots \ {s} : Awaited(calls'[i]) = Awaited(calls[i]) /\ calls'[i].on = calls[i].on
    BY <2>1 DEF Awaited, SameCall
  <2>4. CASE OnHome /\ op = "create"
    <3>1. UNCHANGED view /\ ~Awaited(calls'[s]) /\ ~Awaited(calls[s])
      BY <2>1, <2>4 DEF Awaited
    <3> QED
      BY <2>3, <2>4, <3>1 DEF OneDeletion, Awaited, OnHome
  <2>5. CASE OnHome /\ op = "delete"
    <3>1. view.deleting = None /\ view'.deleting = on /\ Awaited(calls'[s])
      BY <2>1, <2>5 DEF Awaited
    <3>2. \A i \in Slots : ~Awaited(calls[i])
      BY <1>0, <2>5, <3>1, DatabaseAssumption DEF OneDeletion
    <3> QED
      BY <2>1, <2>3, <3>1, <3>2 DEF OneDeletion, Awaited
  <2> QED
    BY <2>1, <2>2, <2>4, <2>5 DEF OneDeletion, OnHome
<1>4. CASE MoveSteps
  <2>1. /\ calls' = [i \in Slots |-> [calls[i] EXCEPT !.live = FALSE]]
        /\ view' \in Opened
    BY <1>4, MoveKeepsType
  <2>2. \A i \in Slots : ~Awaited(calls'[i])
    BY <1>0, <2>1 DEF Awaited, CallRecords
  <2>3. OnHome' => view'.deleting = None
    BY <2>1 DEF Opened, OnHome, Home, Form, Detail, Branching
  <2> QED
    BY <2>2, <2>3 DEF OneDeletion, Awaited
<1>5. ASSUME NEW i \in Slots, ServerSteps(i)
      PROVE  OneDeletion'
  <2>1. UNCHANGED view
    BY <1>5, ServerKeepsType
  <2>2. \A j \in Slots : Awaited(calls'[j]) = Awaited(calls[j]) /\ calls'[j].on = calls[j].on
    BY <1>5, ServerKeepsCalls DEF Awaited
  <2> QED
    BY <2>1, <2>2 DEF OneDeletion, Awaited, OnHome
<1>6. ASSUME NEW i \in Slots, Answers(i)
      PROVE  OneDeletion'
  <2>1. CASE Leaves(i)
    <3>1. view' = Home /\ calls' = [j \in Slots |-> IF j = i THEN NoCall
                                                   ELSE [calls[j] EXCEPT !.live = FALSE]]
      BY <2>1 DEF Leaves, DeleteHereAnswered
    <3>2. \A j \in Slots : ~Awaited(calls'[j])
      BY <1>0, <3>1 DEF Awaited, CallRecords, NoCall
    <3> QED
      BY <3>1, <3>2 DEF OneDeletion, Awaited, Home
  <2>2. CASE ~Leaves(i)
    <3>1. Settle(i)
      BY <1>6, <2>2 DEF Leaves, Answers, CreateAnswered, DeleteAnswered, FormAnswered,
                        RotateAnswered, DeleteHereAnswered, BranchCreated, BranchDeleted
    <3>2. ~Awaited(calls'[i]) /\ \A j \in Slots \ {i} : calls'[j] = calls[j]
      BY <1>0, <3>1 DEF Settle, Awaited, NoCall
    <3>3. CASE Awaited(calls[i])
      <4>1. DeleteAnswered(i)
        BY <1>6, <3>3 DEF Awaited, Answers, CreateAnswered, FormAnswered, RotateAnswered,
                          DeleteHereAnswered, BranchCreated, BranchDeleted, Answered
      <4>2. view'.deleting = None
        BY <1>0, <3>3, <4>1 DEF DeleteAnswered, Awaited, HomeViews
      <4>3. \A j \in Slots : ~Awaited(calls'[j])
        BY <1>0, <3>2, <3>3 DEF OneDeletion
      <4> QED
        BY <4>2, <4>3 DEF OneDeletion, Awaited
    <3>4. CASE ~Awaited(calls[i])
      <4>1. OnHome \/ OnHome' => OnHome /\ OnHome' /\ view'.deleting = view.deleting
        <5>1. CASE ~calls[i].live
          <6>1. CASE FormAnswered(i)
            BY <5>1, <6>1 DEF FormAnswered, OnHome
          <6>2. CASE RotateAnswered(i)
            BY <5>1, <6>2 DEF RotateAnswered, OnHome
          <6>3. CASE DeleteHereAnswered(i)
            BY <2>2, <5>1, <6>3 DEF Leaves, DeleteHereAnswered, OnHome
          <6> QED
            BY <1>6, <5>1, <6>1, <6>2, <6>3 DEF Answers, CreateAnswered, DeleteAnswered,
                                                BranchCreated, BranchDeleted, OnHome
        <5>2. CASE calls[i].live /\ CreateAnswered(i)
          <6>1. OnHome
            BY <5>2 DEF CreateAnswered, Answered, TypeInv, CallsHere, CallOf, PageOf, OnHome
          <6> QED
            BY <1>0, <5>2, <6>1 DEF CreateAnswered, HomeViews, OnHome
        <5>3. CASE calls[i].live /\ DeleteAnswered(i)
          BY <3>4, <5>3 DEF DeleteAnswered, Answered, Awaited
        <5>4. CASE calls[i].live /\ ~CreateAnswered(i) /\ ~DeleteAnswered(i)
          <6>1. ~OnHome
            BY <1>6, <5>4 DEF Answers, FormAnswered, RotateAnswered, DeleteHereAnswered,
                 BranchCreated, BranchDeleted, Answered, TypeInv, CallsHere, CallOf, PageOf,
                 OnHome
          <6>2. view'.page = view.page
            <7>1. "page" \in DOMAIN view /\ view = [f \in DOMAIN view |-> view[f]]
              BY DEF TypeInv, TypeOK, HomeViews, FormViews, DetailViews, BranchViews
            <7>2. CASE FormAnswered(i)
              BY <7>1, <7>2 DEF FormAnswered
            <7>3. CASE RotateAnswered(i)
              BY <5>4, <7>1, <7>3 DEF RotateAnswered
            <7>4. CASE DeleteHereAnswered(i)
              BY <2>2, <7>1, <7>4 DEF Leaves, DeleteHereAnswered
            <7>5. CASE BranchCreated(i) \/ BranchDeleted(i)
              BY <7>1, <7>5 DEF BranchCreated, BranchDeleted
            <7> QED
              BY <1>6, <5>4, <7>2, <7>3, <7>4, <7>5 DEF Answers
          <6> QED
            BY <6>1, <6>2 DEF OnHome
        <5> QED
          BY <5>1, <5>2, <5>3, <5>4
      <4> QED
        BY <3>2, <3>4, <4>1 DEF OneDeletion, Awaited
    <3> QED
      BY <3>3, <3>4
  <2> QED
    BY <2>1, <2>2
<1>7. CASE UNCHANGED vars
  BY <1>1, <1>7 DEF vars
<1> QED
  BY <1>2, <1>3, <1>4, <1>5, <1>6, <1>7, StepKinds

\* On the list of databases one deletion is awaited at a time, and it is that
\* of the card that says so (dashboard/page.tsx, deletingId).
THEOREM DeletingTrue == Spec => []DeletingIsTrue
<1>1. Init => TypeInv /\ OneDeletion
  BY InitTypeInv DEF Init, OneDeletion, Awaited, NoCall, Home
<1>2. TypeInv /\ OneDeletion /\ [Next]_vars => (TypeInv /\ OneDeletion)'
  BY NextTypeInv, NextOneDeletion
<1>3. TypeInv /\ OneDeletion => DeletingIsTrue
  <2> SUFFICES ASSUME TypeInv, OneDeletion, OnHome
               PROVE  {calls[i].on : i \in {j \in UnderWay("delete") : calls[j].live}}
                        = {view.deleting} \ {None}
    BY DEF DeletingIsTrue, OnHome
  <2>1. \A i \in Slots : Awaited(calls[i]) => calls[i].on \in Dbs
    BY DEF TypeInv, CallsHere, CallOf, CallTyped, Awaited, Deletes
  <2>2. {j \in UnderWay("delete") : calls[j].live} = {j \in Slots : Awaited(calls[j])}
    BY DEF UnderWay, Awaited
  <2>3. {calls[i].on : i \in {j \in Slots : Awaited(calls[j])}} = {view.deleting} \ {None}
    BY <2>1, DatabaseAssumption DEF OneDeletion
  <2> QED
    BY <2>2, <2>3
<1> QED
  BY <1>1, <1>2, <1>3, PTL DEF Spec
-----------------------------------------------------------------------------
(***************************************************************************)
(* What says that something is under way is never left alone by it: the    *)
(* safety that SpinnersStop rests on, besides fairness.                    *)
(***************************************************************************)

AwaitedBranch(c) == c.op = "deleteBranch" /\ c.live

\* A branch that says it is being deleted has a request under way, although
\* several may be, and the first answer clears the field they share.
BranchWaits ==
    OnBranches /\ view.deleting # None => \E i \in Slots : AwaitedBranch(calls[i])

\* What spins waits for a request of its own kind whose answer will stop it.
SpinsForARequest ==
    SomethingSpins => \E i \in Slots : /\ calls[i].live
                                       /\ calls[i].op \in {"delete", "deleteBranch", "rotate"}

LEMMA NextBranchWaits ==
    ASSUME TypeInv, TypeInv', BranchWaits, [Next]_vars
    PROVE  BranchWaits'
<1>0. /\ calls \in [Slots -> CallRecords]
      /\ OnBranches => view \in BranchViews
  BY PageTyped DEF TypeInv, CallsHere
<1>1. CASE UNCHANGED calls /\ view'.page = view.page
           /\ (OnBranches => view'.deleting = view.deleting)
  BY <1>1 DEF BranchWaits, OnBranches
<1>2. CASE ShowSteps
  <2>1. UNCHANGED calls /\ view'.page = view.page
    BY <1>2, ShowKeepsType
  <2>2. OnBranches => view'.deleting = view.deleting
    BY <1>0, <1>2 DEF ShowSteps, ShowCreate, CloseCreate, CloseConfirm, LeaveCard, AskRotate,
         CloseRotate, FetchDetail, FetchDetailFails, AskDelete, CloseDelete, ShowBranchDialog,
         CloseBranchDialog, Reconnect, handleDeleteRequest, EnterName, OnHome, HomeClick,
         BranchViews, OnForm, OnDetail, OnDetailPage, DetailClick, OnBranches, BranchClick
  <2> QED
    BY <1>1, <2>1, <2>2
<1>3. CASE SendSteps
  <2>1. PICK s \in Slots : /\ calls[s].op = "none" /\ calls'[s].live
                           /\ \A i \in Slots \ {s} : SameCall(calls'[i], calls[i])
    BY <1>3, SendAddsOne
  <2>2. \A i \in Slots : AwaitedBranch(calls[i]) => AwaitedBranch(calls'[i])
    BY <2>1 DEF AwaitedBranch, SameCall
  <2>3. view'.page = view.page
    BY <1>3, SendKeepsType
  <2>4. CASE \E d \in Dbs : DeleteBranch(d)
    <3>1. PICK d \in Dbs : Send("deleteBranch", d)
      BY <2>4 DEF DeleteBranch
    <3>2. FreeSlot \in Slots /\ AwaitedBranch(calls'[FreeSlot])
      BY <3>1 DEF Send, UnderWay, FreeSlot, NoCall, AwaitedBranch
    <3> QED
      BY <3>2 DEF BranchWaits
  <2>5. CASE ~\E d \in Dbs : DeleteBranch(d)
    <3>1. OnBranches => view' = view
      BY <1>3, <2>5 DEF SendSteps, handleCreate, handleDeleteConfirm, handleSubmit,
           handleRotate, handleDelete, CreateBranch, OnHome, OnForm, OnDetail, OnDetailPage,
           OnBranches
    <3> QED
      BY <2>2, <2>3, <3>1 DEF BranchWaits, OnBranches
  <2> QED
    BY <2>4, <2>5
<1>4. CASE MoveSteps
  <2>1. view' \in Opened
    BY <1>4, MoveKeepsType
  <2> QED
    BY <2>1 DEF Opened, BranchWaits, OnBranches, Home, Form, Detail, Branching
<1>5. ASSUME NEW i \in Slots, ServerSteps(i)
      PROVE  BranchWaits'
  <2>1. UNCHANGED view
    BY <1>5, ServerKeepsType
  <2>2. \A j \in Slots : AwaitedBranch(calls'[j]) = AwaitedBranch(calls[j])
    BY <1>5, ServerKeepsCalls DEF AwaitedBranch
  <2> QED
    BY <2>1, <2>2 DEF BranchWaits, OnBranches
<1>6. ASSUME NEW i \in Slots, Answers(i), OnBranches', view'.deleting # None
      PROVE  \E j \in Slots : AwaitedBranch(calls'[j])
  <2>1. ~Leaves(i)
    BY <1>6 DEF Leaves, DeleteHereAnswered, Home, OnBranches
  <2>2. \A j \in Slots \ {i} : calls'[j] = calls[j]
    BY <1>0, <1>6, <2>1 DEF Leaves, Answers, CreateAnswered, DeleteAnswered, FormAnswered,
         RotateAnswered, DeleteHereAnswered, BranchCreated, BranchDeleted, Settle
  <2>3. CASE ~calls[i].live
    <3>1. view' = view
      BY <1>6, <2>1, <2>3 DEF Leaves, Answers, CreateAnswered, DeleteAnswered, FormAnswered,
           RotateAnswered, DeleteHereAnswered, BranchCreated, BranchDeleted
    <3>2. \E j \in Slots : AwaitedBranch(calls[j])
      BY <1>6, <3>1 DEF BranchWaits, OnBranches
    <3> QED
      BY <2>2, <2>3, <3>2 DEF AwaitedBranch
  <2>4. CASE calls[i].live
    <3>1. view'.page = view.page
      <4>1. "page" \in DOMAIN view /\ view = [f \in DOMAIN view |-> view[f]]
        BY DEF TypeInv, TypeOK, HomeViews, FormViews, DetailViews, BranchViews
      <4>2. CASE FormAnswered(i)
        BY <4>1, <4>2 DEF FormAnswered
      <4>3. CASE RotateAnswered(i)
        BY <2>4, <4>1, <4>3 DEF RotateAnswered
      <4>4. CASE DeleteHereAnswered(i)
        BY <2>1, <4>1, <4>4 DEF Leaves, DeleteHereAnswered
      <4>5. CASE CreateAnswered(i) \/ DeleteAnswered(i) \/ BranchCreated(i) \/ BranchDeleted(i)
        BY <4>1, <4>5 DEF CreateAnswered, DeleteAnswered, BranchCreated, BranchDeleted
      <4> QED
        BY <1>6, <4>2, <4>3, <4>4, <4>5 DEF Answers
    <3>2. OnBranches /\ calls[i].op \in {"createBranch", "deleteBranch"}
      BY <1>6, <2>4, <3>1 DEF Answers, CreateAnswered, DeleteAnswered, FormAnswered,
           RotateAnswered, DeleteHereAnswered, BranchCreated, BranchDeleted, Answered,
           TypeInv, CallsHere, CallOf, PageOf, OnBranches
    <3>3. BranchCreated(i) \/ BranchDeleted(i)
      BY <1>6, <3>2 DEF Answers, CreateAnswered, DeleteAnswered, FormAnswered,
           RotateAnswered, DeleteHereAnswered, Answered
    <3>4. ~BranchDeleted(i)
      BY <1>0, <1>6, <2>4, <3>2 DEF BranchDeleted, BranchViews
    <3>5. calls[i].op = "createBranch" /\ view'.deleting = view.deleting
      BY <1>0, <3>2, <3>3, <3>4 DEF BranchCreated, Answered, BranchViews
    <3>6. PICK j \in Slots : AwaitedBranch(calls[j])
      BY <1>6, <3>2, <3>5 DEF BranchWaits
    <3> QED
      BY <2>2, <3>5, <3>6 DEF AwaitedBranch
  <2> QED
    BY <2>3, <2>4
<1>7. CASE UNCHANGED vars
  BY <1>1, <1>7 DEF vars
<1> QED
  BY <1>2, <1>3, <1>4, <1>5, <1>6, <1>7, StepKinds DEF BranchWaits

\* Nothing spins without a request of that page under way whose answer, whatever
\* it is, stops it: neither a card or a branch that is being deleted, however
\* the user goes on clicking, nor the button that rotates (deletingId in
\* dashboard/page.tsx, BranchManager.tsx).  SpinnersStop adds that the answer
\* comes.
THEOREM NothingSpinsAlone == Spec => []SpinsForARequest
<1>1. Init => OneDeletion /\ BranchWaits
  BY DEF Init, OneDeletion, Awaited, NoCall, Home, BranchWaits, OnBranches
<1>2. TypeInv /\ OneDeletion /\ BranchWaits /\ [Next]_vars
        => TypeInv' /\ OneDeletion' /\ BranchWaits'
  BY NextTypeInv, NextOneDeletion, NextBranchWaits
<1>3. OneDeletion /\ BranchWaits => SpinsForARequest
  BY DEF OneDeletion, BranchWaits, SpinsForARequest, SomethingSpins, OnHome, OnBranches,
         Awaited, AwaitedBranch, Busy, UnderWay
<1> QED
  BY <1>1, <1>2, <1>3, InitTypeInv, PTL DEF Spec
=============================================================================
