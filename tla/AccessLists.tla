---------------------------- MODULE AccessLists -----------------------------
(***************************************************************************)
(* Who may reach a database: the secret db-<id>-creds of one database,     *)
(* which holds its login and, under another key, its IP whitelist, and the *)
(* secret ipwl-<user> with the list of the user who owns it.               *)
(*                                                                         *)
(* The whitelist of the database is read once, and the secret read again   *)
(* and written with the version of that second reading (SaveIPWhitelist).  *)
(* Rotating the credentials and saving the user's list write objects made  *)
(* from nothing, which replace whatever is there.                          *)
(***************************************************************************)
EXTENDS Naturals, FiniteSets

CONSTANTS
    Handlers,    \* slots for requests that run at the same time
    Cidrs,       \* ranges for the database's whitelist
    Ips,         \* addresses for the user's list
    None,        \* neither a range nor an address
    Faulty,      \* what may go wrong: "call", "answer", "crash"
    MaxFaults,   \* bound on failures
    MaxLogins    \* bound on rotations

ASSUME BoundAssumption ==
    /\ Faulty \subseteq {"call", "answer", "crash"}
    /\ MaxFaults \in Nat
    /\ MaxLogins \in Nat

VARIABLES
    secret,    \* the database's secret: is it there, its login and its list
    fresh,     \* handlers that hold the current version of that secret
    userList,  \* the user's secret: is it there, and its addresses
    handler,   \* what each request is doing
    logins,    \* logins generated so far
    faults,    \* failures left
    latest,    \* history: the login that the last rotation stored
    added,     \* history: ranges acknowledged since that rotation
    wanted,    \* history: addresses acknowledged and not removed
    calm       \* history: no request of a list met a failure or another one

vars == <<secret, fresh, userList, handler, logins, faults, latest, added,
          wanted, calm>>

Ops   == {"none", "add", "remove", "rotate", "delete", "addIP", "removeIP"}
Steps == {"idle", "read", "get", "update", "rotate", "drop", "save", "make"}

Secrets == [there: BOOLEAN, login: Nat, list: SUBSET Cidrs]

\* "list" and "ips" are what was read, "login" what the secret held when it was read again.
Idle == [op |-> "none", step |-> "idle", arg |-> None, login |-> 0,
         list |-> {}, ips |-> {}]

HandlerStates ==
    [op: Ops, step: Steps, arg: Cidrs \cup Ips \cup {None}, login: Nat,
     list: SUBSET Cidrs, ips: SUBSET Ips]

TypeOK ==
    /\ secret \in Secrets
    /\ fresh \subseteq Handlers
    /\ userList \in [there: BOOLEAN, ips: SUBSET Ips]
    /\ handler \in [Handlers -> HandlerStates]
    /\ logins \in Nat
    /\ faults \in Nat
    /\ latest \in Nat
    /\ added \subseteq Cidrs
    /\ wanted \subseteq Ips
    /\ calm \in BOOLEAN

At(h, step) == handler[h].step = step

Return(h) == handler' = [handler EXCEPT ![h] = Idle]

\* The request of a list that fails is not a calm one any more.
Fails(what) ==
    /\ what \in Faulty
    /\ faults > 0
    /\ faults' = faults - 1
    /\ calm' = FALSE

Works == UNCHANGED <<faults, calm>>

Init ==
    /\ secret = [there |-> TRUE, login |-> 0, list |-> {}]
    /\ fresh = {}
    /\ userList = [there |-> FALSE, ips |-> {}]
    /\ handler = [h \in Handlers |-> Idle]
    /\ logins = 0
    /\ faults = MaxFaults
    /\ latest = 0
    /\ added = {}
    /\ wanted = {}
    /\ calm = TRUE
-----------------------------------------------------------------------------
(***************************************************************************)
(* Requests.  Those about the database find its owner first                *)
(* (verifyDatabaseOwnership); one that finds no secret changes nothing.    *)
(***************************************************************************)
Others(h, ops) == {g \in Handlers \ {h} : handler[g].op \in ops}

Start(h, op, step, arg) ==
    /\ handler[h] = Idle
    /\ handler' = [handler EXCEPT ![h] = [Idle EXCEPT !.op = op, !.step = step,
                                                      !.arg = arg]]

StartWhitelist(h, op, c) ==
    /\ op \in {"add", "remove"}
    /\ secret.there
    /\ Start(h, op, "read", c)
    /\ calm' = (calm /\ Others(h, {"add", "rotate", "delete"}) = {})
    /\ UNCHANGED <<secret, fresh, userList, logins, faults, latest, added, wanted>>

StartRotate(h) ==
    /\ secret.there
    /\ logins < MaxLogins
    /\ Start(h, "rotate", "rotate", None)
    /\ calm' = (calm /\ Others(h, {"add", "rotate", "delete"}) = {})
    /\ UNCHANGED <<secret, fresh, userList, logins, faults, latest, added, wanted>>

StartDelete(h) ==
    /\ secret.there
    /\ Start(h, "delete", "drop", None)
    /\ calm' = (calm /\ Others(h, {"add", "rotate", "delete"}) = {})
    /\ UNCHANGED <<secret, fresh, userList, logins, faults, latest, added, wanted>>

StartIP(h, op, ip) ==
    /\ op \in {"addIP", "removeIP"}
    /\ Start(h, op, "read", ip)
    /\ calm' = (calm /\ Others(h, {"addIP", "removeIP"}) = {})
    /\ UNCHANGED <<secret, fresh, userList, logins, faults, latest, added, wanted>>
-----------------------------------------------------------------------------
(***************************************************************************)
(* The database's whitelist.                                               *)
(***************************************************************************)

\* GetIPWhitelist.  A range that is already listed is not added again.  A
\* range to be removed is taken out of the list that was read, which is not
\* saved: the request ends here, and the secret keeps the range.
ReadWhitelist(h) ==
    /\ At(h, "read")
    /\ handler[h].op \in {"add", "remove"}
    /\ \/ /\ secret.there
          /\ handler[h].op = "add" /\ handler[h].arg \notin secret.list
          /\ handler' = [handler EXCEPT ![h].step = "get",
                                        ![h].list = secret.list]
          /\ Works
       \/ /\ \/ ~secret.there
             \/ handler[h].op = "remove"
             \/ handler[h].arg \in secret.list
          /\ Return(h)
          /\ Works
       \/ Return(h) /\ Fails("call")
    /\ UNCHANGED <<secret, fresh, userList, logins, latest, added, wanted>>

\* SaveIPWhitelist reads the secret "to preserve other fields".
GetSecret(h) ==
    /\ At(h, "get")
    /\ \/ /\ secret.there
          /\ handler' = [handler EXCEPT ![h].step = "update",
                                        ![h].login = secret.login]
          /\ fresh' = fresh \cup {h}
          /\ Works
       \/ /\ \/ ~secret.there /\ Works
             \/ Fails("call")
          /\ Return(h)
          /\ UNCHANGED fresh
    /\ UNCHANGED <<secret, userList, logins, latest, added, wanted>>

\* Mutant: the list is not read before, only the new range is saved.
ExtendedByNothing(h) == {handler[h].arg}

Extended(h) == handler[h].list \cup {handler[h].arg}

\* Mutant: the secret that was read is written without its version.
UpdateSecretUnversioned(h) ==
    /\ At(h, "update")
    /\ secret.there
    /\ secret' = [secret EXCEPT !.login = handler[h].login, !.list = Extended(h)]
    /\ fresh' = {}
    /\ Return(h)
    /\ added' = added \cup {handler[h].arg}
    /\ Works
    /\ UNCHANGED <<userList, logins, latest, wanted>>

UpdateSecret(h) ==
    /\ At(h, "update")
    /\ h \in fresh
    /\ secret' = [secret EXCEPT !.login = handler[h].login, !.list = Extended(h)]
    /\ fresh' = {}
    /\ Return(h)
    /\ \/ added' = added \cup {handler[h].arg} /\ Works
       \/ UNCHANGED added /\ Fails("answer")
    /\ UNCHANGED <<userList, logins, latest, wanted>>

\* A conflict, a secret that was deleted, or another failure.
RejectSecret(h) ==
    /\ At(h, "update")
    /\ (h \notin fresh /\ Works) \/ Fails("call")
    /\ Return(h)
    /\ fresh' = fresh \ {h}
    /\ UNCHANGED <<secret, userList, logins, latest, added, wanted>>
-----------------------------------------------------------------------------
\* Mutant: a secret that is gone is created again.
Present == TRUE

\* UpdateCredentials replaces a secret that is there.
Replaceable == secret.there

\* A login is generated and replaces the secret as a whole: the whitelist is
\* not among the fields that are carried over.
Rotate(h) ==
    /\ At(h, "rotate")
    /\ \/ /\ Replaceable
          /\ secret' = [there |-> TRUE, login |-> logins + 1, list |-> {}]
          /\ logins' = logins + 1
          /\ fresh' = {}
          /\ latest' = logins + 1
          /\ added' = {}
          /\ Works \/ Fails("answer")
       \/ /\ (~Replaceable /\ Works) \/ Fails("call")
          /\ UNCHANGED <<secret, logins, fresh, latest, added>>
    /\ Return(h)
    /\ UNCHANGED <<userList, wanted>>

\* DeleteDatabase, which goes on when the secret cannot be deleted.
DropSecret(h) ==
    /\ At(h, "drop")
    /\ \/ /\ secret' = [secret EXCEPT !.there = FALSE]
          /\ fresh' = {}
          /\ Works \/ Fails("answer")
       \/ UNCHANGED <<secret, fresh>> /\ Fails("call")
    /\ Return(h)
    /\ UNCHANGED <<userList, logins, latest, added, wanted>>
-----------------------------------------------------------------------------
(***************************************************************************)
(* The user's list (package ipwhitelist).                                  *)
(***************************************************************************)

\* What the request makes of a list.
Edited(h, ips) ==
    IF handler[h].op = "addIP" THEN ips \cup {handler[h].arg}
                               ELSE ips \ {handler[h].arg}

\* GetIPs reads any failure as a list that is not there.  Adding what is
\* listed, and removing what is not, is refused.
ReadIPs(h) ==
    /\ At(h, "read")
    /\ handler[h].op \in {"addIP", "removeIP"}
    /\ \E ips \in SUBSET Ips :
          /\ (ips = userList.ips /\ Works) \/ (ips = {} /\ Fails("call"))
          /\ IF Edited(h, ips) = ips
               THEN Return(h)
               ELSE handler' = [handler EXCEPT ![h].step = "save",
                                               ![h].ips = ips]
    /\ UNCHANGED <<secret, fresh, userList, logins, latest, added, wanted>>

\* Mutant: a list that is there is taken to be saved.
SaveIPsCreateOnly(h) ==
    /\ At(h, "save")
    /\ IF userList.there
         THEN Return(h) /\ wanted' = Edited(h, wanted)
         ELSE handler' = [handler EXCEPT ![h].step = "make"] /\ UNCHANGED wanted
    /\ Works
    /\ UNCHANGED <<secret, fresh, userList, logins, latest, added>>

\* saveIPs tries to replace the secret, and creates it when that fails.
SaveIPs(h) ==
    /\ At(h, "save")
    /\ \/ /\ userList.there
          /\ userList' = [userList EXCEPT !.ips = Edited(h, handler[h].ips)]
          /\ \/ /\ Return(h)
                /\ wanted' = Edited(h, wanted)
                /\ Works
             \/ /\ handler' = [handler EXCEPT ![h].step = "make"]
                /\ UNCHANGED wanted
                /\ Fails("answer")
       \/ /\ (~userList.there /\ Works) \/ Fails("call")
          /\ handler' = [handler EXCEPT ![h].step = "make"]
          /\ UNCHANGED <<userList, wanted>>
    /\ UNCHANGED <<secret, fresh, logins, latest, added>>

MakeIPs(h) ==
    /\ At(h, "make")
    /\ \/ /\ ~userList.there
          /\ userList' = [there |-> TRUE, ips |-> Edited(h, handler[h].ips)]
          /\ \/ wanted' = Edited(h, wanted) /\ Works
             \/ UNCHANGED wanted /\ Fails("answer")
       \/ /\ (userList.there /\ Works) \/ Fails("call")
          /\ UNCHANGED <<userList, wanted>>
    /\ Return(h)
    /\ UNCHANGED <<secret, fresh, logins, latest, added>>
-----------------------------------------------------------------------------
\* A replica goes down in the middle of a request.
Crash(h) ==
    /\ handler[h] # Idle
    /\ Fails("crash")
    /\ Return(h)
    /\ fresh' = fresh \ {h}
    /\ UNCHANGED <<secret, userList, logins, latest, added, wanted>>

Request(h) ==
    \/ \E c \in Cidrs : \E op \in Ops : StartWhitelist(h, op, c)
    \/ \E ip \in Ips : \E op \in Ops : StartIP(h, op, ip)
    \/ StartRotate(h)
    \/ StartDelete(h)

Step(h) ==
    \/ ReadWhitelist(h) \/ GetSecret(h) \/ UpdateSecret(h) \/ RejectSecret(h)
    \/ Rotate(h)
    \/ DropSecret(h)
    \/ ReadIPs(h) \/ SaveIPs(h) \/ MakeIPs(h)
    \/ Crash(h)

Next == \E h \in Handlers : Request(h) \/ Step(h)

Spec == Init /\ [][Next]_vars
-----------------------------------------------------------------------------
(***************************************************************************)
(* Properties.                                                             *)
(***************************************************************************)

\* A change of the whitelist never brings back the login that a rotation has
\* replaced, although it writes the whole secret it has read.
LoginIsLatest == secret.there => secret.login = latest

\* A rotation or a change of the whitelist that overlaps the deletion of the
\* database never brings the secret back.
GoneForGood == [][ secret'.there => secret.there ]_vars

\* As long as no request meets a failure or another request of the same list,
\* a range that was acknowledged stays until the next rotation, which drops
\* them all (RotateCredentials, AddIPWhitelistEntry).
RangesKept ==
    calm /\ secret.there => added \subseteq secret.list

\* Under the same condition the user's list is what the user was told, although
\* it is read in one call and replaced or created in others (AddIP, RemoveIP).
ListIsTheUsers ==
    calm => userList.ips = wanted
=============================================================================
