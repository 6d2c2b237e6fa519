------------------------------ MODULE MySQLProxy -----------------------------
(***************************************************************************)
(* The proxy in front of vtgate (api/cmd/mysql-proxy).  Every accepted     *)
(* connection has a goroutine that dials vtgate, passes vtgate's greeting  *)
(* on, reads the client's answer, finds the owner of the username in it,   *)
(* checks the owner's IP whitelist and only then sends the answer to       *)
(* vtgate and relays both ways with two more goroutines.  The secrets that *)
(* it reads change at any moment; either peer may hang up at any moment.   *)
(*                                                                         *)
(* main accepts connections until a signal arrives.  The signal is read    *)
(* from the channel "stop" by whoever asks first: the goroutine that       *)
(* closes the listener, or main after an error of Accept.                  *)
(***************************************************************************)
EXTENDS Naturals, FiniteSets

CONSTANTS
    Conns,       \* slots for connections that are open at the same time
    Users,       \* owners of databases
    Logins,      \* usernames that clients send
    OwnerOf,     \* the owner of the database that a username belongs to
    Addresses,   \* where clients connect from
    None,        \* no address and no login
    MaxSignals   \* bound on SIGTERM and SIGINT

ASSUME OwnerAssumption == OwnerOf \in [Logins -> Users]
ASSUME NoneAssumption  == None \notin Logins \cup Addresses
ASSUME BoundAssumption == MaxSignals \in Nat

VARIABLES
    known,     \* usernames in the secrets of databases
    list,      \* the whitelist of each user
    conn,      \* each connection: its goroutines and both peers
    main,      \* what main does
    listener,  \* is the listener open
    stop,      \* signals in the channel, which has room for one
    watcher,   \* the goroutine that waits for a signal
    signals    \* signals sent so far

secrets == <<known, list>>
server  == <<main, listener, stop, watcher, signals>>
vars    == <<known, list, conn, main, listener, stop, watcher, signals>>

\* "seen" and "met" are history: since the client answered, its address has
\* been in the owner's list, its username in a secret.
Free == [step |-> "free", addr |-> None, login |-> None,
         client |-> "open", vtgate |-> "none",
         up |-> "none", down |-> "none", done |-> 0,
         seen |-> FALSE, met |-> FALSE]

Steps  == {"free", "dial", "greet", "answer", "lookup", "check", "forward",
           "relay", "gone"}
Copies == {"none", "copying", "writing", "ended", "reported"}

ConnStates ==
    [step: Steps, addr: Addresses \cup {None}, login: Logins \cup {None},
     client: {"open", "shut"}, vtgate: {"none", "open", "shut"},
     up: Copies, down: Copies, done: 0..2, seen: BOOLEAN, met: BOOLEAN]

TypeOK ==
    /\ known \subseteq Logins
    /\ list \in [Users -> SUBSET Addresses]
    /\ conn \in [Conns -> ConnStates]
    /\ main \in {"accept", "select", "ended"}
    /\ listener \in BOOLEAN
    /\ stop \in 0..1
    /\ watcher \in {"wait", "close", "ended"}
    /\ signals \in Nat

At(c, step) == conn[c].step = step

\* handleConnection returns before it relays: the deferred calls close both sockets.
Leave(c) == conn' = [conn EXCEPT ![c] = Free]

Init ==
    /\ known \in SUBSET Logins
    /\ list = [u \in Users |-> {}]
    /\ conn = [c \in Conns |-> Free]
    /\ main = "accept"
    /\ listener = TRUE
    /\ stop = 0
    /\ watcher = "wait"
    /\ signals = 0
-----------------------------------------------------------------------------
(***************************************************************************)
(* The secrets, which the API writes.                                      *)
(***************************************************************************)

\* What has been true since the answer, when the secrets become k and l.
Witness(k, l) ==
    conn' = [c \in Conns |->
        IF conn[c].login = None THEN conn[c]
        ELSE [conn[c] EXCEPT
                !.met  = @ \/ conn[c].login \in k,
                !.seen = @ \/ conn[c].addr \in l[OwnerOf[conn[c].login]]]]

\* A database is created, or its credentials are rotated, and its login is new.
AddLogin(l) ==
    /\ l \notin known
    /\ known' = known \cup {l}
    /\ Witness(known', list)
    /\ UNCHANGED <<list, server>>

\* A database is deleted, or its credentials are rotated.
DropLogin(l) ==
    /\ l \in known
    /\ known' = known \ {l}
    /\ UNCHANGED <<list, conn, server>>

AddIP(u, a) ==
    /\ a \notin list[u]
    /\ list' = [list EXCEPT ![u] = @ \cup {a}]
    /\ Witness(known, list')
    /\ UNCHANGED <<known, server>>

RemoveIP(u, a) ==
    /\ a \in list[u]
    /\ list' = [list EXCEPT ![u] = @ \ {a}]
    /\ UNCHANGED <<known, conn, server>>
-----------------------------------------------------------------------------
(***************************************************************************)
(* A connection before it is relayed.                                      *)
(***************************************************************************)
Accept(c, a) ==
    /\ main = "accept"
    /\ listener
    /\ At(c, "free")
    /\ conn' = [conn EXCEPT ![c] = [Free EXCEPT !.step = "dial", !.addr = a]]
    /\ UNCHANGED <<secrets, server>>

Dial(c) ==
    /\ At(c, "dial")
    /\ \/ conn' = [conn EXCEPT ![c].step = "greet", ![c].vtgate = "open"]
       \/ Leave(c)
    /\ UNCHANGED <<secrets, server>>

\* Writing to a client that has hung up may still succeed.
Greet(c) ==
    /\ At(c, "greet")
    /\ \/ /\ conn[c].vtgate = "open"
          /\ conn' = [conn EXCEPT ![c].step = "answer"]
       \/ /\ conn[c].vtgate = "shut" \/ conn[c].client = "shut"
          /\ Leave(c)
    /\ UNCHANGED <<secrets, server>>

\* The client answers with a username; from here on "seen" and "met" count.
ReadAnswer(c, l) ==
    /\ At(c, "answer")
    /\ conn' = [conn EXCEPT
          ![c].step = "lookup", ![c].login = l,
          ![c].met  = l \in known,
          ![c].seen = conn[c].addr \in list[OwnerOf[l]]]
    /\ UNCHANGED <<secrets, server>>

\* The answer has no username in it, or the client has hung up.
NoAnswer(c) ==
    /\ At(c, "answer")
    /\ Leave(c)
    /\ UNCHANGED <<secrets, server>>

\* lookupDatabaseByUsername lists the secrets: a username that none of them
\* holds is refused, and so is any when they cannot be listed.
Lookup(c) ==
    /\ At(c, "lookup")
    /\ \/ /\ conn[c].login \in known
          /\ conn' = [conn EXCEPT ![c].step = "check"]
       \/ Leave(c)
    /\ UNCHANGED <<secrets, server>>

\* Mutant: a list that is empty, or cannot be read, allows everybody.
AllowedUnlessListed(c, ips) == ips = {} \/ conn[c].addr \in ips

\* IsAllowed: a list that is empty, or cannot be read, allows nobody.
Allowed(c, ips) == conn[c].addr \in ips

\* A list that cannot be read is read as an empty one.
Check(c) ==
    /\ At(c, "check")
    /\ \E ips \in {list[OwnerOf[conn[c].login]], {}} :
          IF Allowed(c, ips)
            THEN conn' = [conn EXCEPT ![c].step = "forward"]
            ELSE Leave(c)
    /\ UNCHANGED <<secrets, server>>

\* The answer goes to vtgate and both copies start.
Forward(c) ==
    /\ At(c, "forward")
    /\ \/ conn' = [conn EXCEPT ![c].step = "relay", ![c].up = "copying",
                               ![c].down = "copying"]
       \/ conn[c].vtgate = "shut" /\ Leave(c)
    /\ UNCHANGED <<secrets, server>>
-----------------------------------------------------------------------------
(***************************************************************************)
(* The relay.  "up" copies what the client sends, "down" what vtgate       *)
(* sends.  A copy reads one socket ("copying") or is blocked in a Write to *)
(* the other ("writing"), whose peer does not read; no call has a deadline.*)
(* It ends when what it waits for is shut by the peer or closed here, or   *)
(* when it has something to write and the other socket is not there.       *)
(***************************************************************************)
EndUp(c) ==
    /\ \/ conn[c].up = "copying" /\ (conn[c].client = "shut" \/ At(c, "gone"))
       \/ conn[c].up = "writing" /\ (conn[c].vtgate = "shut" \/ At(c, "gone"))
    /\ conn' = [conn EXCEPT ![c].up = "ended"]
    /\ UNCHANGED <<secrets, server>>

EndDown(c) ==
    /\ \/ conn[c].down = "copying" /\ (conn[c].vtgate = "shut" \/ At(c, "gone"))
       \/ conn[c].down = "writing" /\ (conn[c].client = "shut" \/ At(c, "gone"))
    /\ conn' = [conn EXCEPT ![c].down = "ended"]
    /\ UNCHANGED <<secrets, server>>

BreakUp(c) ==
    /\ conn[c].up = "copying"
    /\ conn[c].vtgate = "shut"
    /\ conn' = [conn EXCEPT ![c].up = "ended"]
    /\ UNCHANGED <<secrets, server>>

BreakDown(c) ==
    /\ conn[c].down = "copying"
    /\ conn[c].client = "shut"
    /\ conn' = [conn EXCEPT ![c].down = "ended"]
    /\ UNCHANGED <<secrets, server>>

\* The client sends more than vtgate reads.  What a peer had sent before it hung
\* up is copied first, so that it counts as shut only afterwards.
BlockUp(c) ==
    /\ At(c, "relay") /\ conn[c].up = "copying"
    /\ conn[c].client = "open" /\ conn[c].vtgate = "open"
    /\ conn' = [conn EXCEPT ![c].up = "writing"]
    /\ UNCHANGED <<secrets, server>>

BlockDown(c) ==
    /\ At(c, "relay") /\ conn[c].down = "copying"
    /\ conn[c].client = "open" /\ conn[c].vtgate = "open"
    /\ conn' = [conn EXCEPT ![c].down = "writing"]
    /\ UNCHANGED <<secrets, server>>

VtgateReads(c) ==
    /\ conn[c].up = "writing" /\ conn[c].vtgate = "open"
    /\ conn' = [conn EXCEPT ![c].up = "copying"]
    /\ UNCHANGED <<secrets, server>>

ClientReads(c) ==
    /\ conn[c].down = "writing" /\ conn[c].client = "open"
    /\ conn' = [conn EXCEPT ![c].down = "copying"]
    /\ UNCHANGED <<secrets, server>>

\* Mutant: the channel has no room, so a copy waits until somebody receives.
NoRoom(c) == At(c, "relay")

\* The channel has room for what both copies send.
Room(c) == conn[c].done < 2

ReportUp(c) ==
    /\ conn[c].up = "ended"
    /\ Room(c)
    /\ conn' = [conn EXCEPT ![c].up = "reported", ![c].done = @ + 1]
    /\ UNCHANGED <<secrets, server>>

ReportDown(c) ==
    /\ conn[c].down = "ended"
    /\ Room(c)
    /\ conn' = [conn EXCEPT ![c].down = "reported", ![c].done = @ + 1]
    /\ UNCHANGED <<secrets, server>>

\* The first report lets handleConnection return, which closes both sockets.
Return(c) ==
    /\ At(c, "relay")
    /\ conn[c].done > 0
    /\ conn' = [conn EXCEPT ![c].step = "gone", ![c].done = @ - 1]
    /\ UNCHANGED <<secrets, server>>

\* Nothing is left of a connection when both copies have ended.
Forget(c) ==
    /\ At(c, "gone")
    /\ conn[c].up = "reported"
    /\ conn[c].down = "reported"
    /\ conn' = [conn EXCEPT ![c] = Free]
    /\ UNCHANGED <<secrets, server>>

ClientShuts(c) ==
    /\ conn[c].step \notin {"free", "gone"}
    /\ conn[c].client = "open"
    /\ conn' = [conn EXCEPT ![c].client = "shut"]
    /\ UNCHANGED <<secrets, server>>

VtgateShuts(c) ==
    /\ conn[c].step # "gone"
    /\ conn[c].vtgate = "open"
    /\ conn' = [conn EXCEPT ![c].vtgate = "shut"]
    /\ UNCHANGED <<secrets, server>>
-----------------------------------------------------------------------------
(***************************************************************************)
(* main and the end of the process.                                        *)
(***************************************************************************)

\* signal.Notify does not wait: a signal that finds the channel full is lost.
Signal ==
    /\ main # "ended"
    /\ signals < MaxSignals
    /\ signals' = signals + 1
    /\ stop' = 1
    /\ UNCHANGED <<secrets, conn, main, listener, watcher>>

WatchStop ==
    /\ main # "ended"
    /\ watcher = "wait"
    /\ stop = 1
    /\ stop' = 0
    /\ watcher' = "close"
    /\ UNCHANGED <<secrets, conn, main, listener, signals>>

CloseListener ==
    /\ main # "ended"
    /\ watcher = "close"
    /\ listener' = FALSE
    /\ watcher' = "ended"
    /\ UNCHANGED <<secrets, conn, main, stop, signals>>

\* Mutant: main looks into the channel only while the listener is open.
StopMainListening ==
    /\ main = "select"
    /\ listener
    /\ stop = 1
    /\ stop' = 0
    /\ main' = "ended"
    /\ listener' = FALSE
    /\ conn' = [c \in Conns |-> Free]
    /\ UNCHANGED <<secrets, watcher, signals>>

\* Accept fails on a closed listener, and may fail on an open one.
AcceptFails ==
    /\ main = "accept"
    /\ main' = "select"
    /\ UNCHANGED <<secrets, conn, listener, stop, watcher, signals>>

\* When main returns, the process ends with all its connections.
StopMain ==
    /\ main = "select"
    /\ stop = 1
    /\ stop' = 0
    /\ main' = "ended"
    /\ listener' = FALSE
    /\ conn' = [c \in Conns |-> Free]
    /\ UNCHANGED <<secrets, watcher, signals>>

AcceptAgain ==
    /\ main = "select"
    /\ stop = 0
    /\ main' = "accept"
    /\ UNCHANGED <<secrets, conn, listener, stop, watcher, signals>>

Secrets ==
    \/ \E l \in Logins : AddLogin(l) \/ DropLogin(l)
    \/ \E u \in Users, a \in Addresses : AddIP(u, a) \/ RemoveIP(u, a)

Handshake(c) ==
    \/ Dial(c) \/ Greet(c) \/ NoAnswer(c) \/ Lookup(c) \/ Check(c) \/ Forward(c)
    \/ \E l \in Logins : ReadAnswer(c, l)

Copying(c) ==
    \/ EndUp(c) \/ EndDown(c)
    \/ ReportUp(c) \/ ReportDown(c)
    \/ Return(c) \/ Forget(c)

Peers(c) ==
    \/ ClientShuts(c) \/ VtgateShuts(c)
    \/ BreakUp(c) \/ BreakDown(c)
    \/ BlockUp(c) \/ BlockDown(c) \/ VtgateReads(c) \/ ClientReads(c)

Main == AcceptFails \/ StopMain \/ AcceptAgain

Next ==
    \/ Secrets
    \/ \E c \in Conns : \/ \E a \in Addresses : Accept(c, a)
                        \/ Handshake(c) \/ Copying(c) \/ Peers(c)
    \/ Signal \/ WatchStop \/ CloseListener \/ Main

Spec == Init /\ [][Next]_vars

\* Goroutines that can go on do.  Nothing is assumed of clients, of vtgate or
\* of the API server: they may be silent, and leave unread what they are sent,
\* for ever.
FairSpec ==
    /\ Spec
    /\ \A c \in Conns : /\ WF_vars(EndUp(c)) /\ WF_vars(EndDown(c))
                        /\ WF_vars(ReportUp(c)) /\ WF_vars(ReportDown(c))
                        /\ WF_vars(Return(c)) /\ WF_vars(Forget(c))
    /\ WF_vars(WatchStop) /\ WF_vars(CloseListener)
    /\ WF_vars(AcceptFails /\ ~listener)
    /\ WF_vars(StopMain) /\ WF_vars(AcceptAgain)
-----------------------------------------------------------------------------
(***************************************************************************)
(* Properties.                                                             *)
(***************************************************************************)

\* vtgate hears nothing of a client before both the client's username was found
\* in a secret and its address in the list of the owner, each at a moment after
\* the client answered: whatever changes or fails meanwhile, no connection lives
\* on a verdict that was never right (handleConnection, IsAllowed).
RelayedWasListed ==
    \A c \in Conns :
        conn[c].step \in {"forward", "relay", "gone"} => conn[c].seen /\ conn[c].met

\* One peer has hung up, and the copy that would notice is blocked in a Write
\* to the other, which is there and does not read.
Blocked(c) ==
    \/ conn[c].up = "writing" /\ conn[c].client = "shut" /\ conn[c].vtgate = "open"
    \/ conn[c].down = "writing" /\ conn[c].vtgate = "shut" /\ conn[c].client = "open"

\* When either peer of a relayed connection hangs up, the proxy closes the other
\* side too and both copying goroutines end, even if the other peer never says
\* a word again (handleConnection: "When either side closes, the other io.Copy
\* unblocks and we clean up").  A copy that is blocked in a Write holds this up
\* until the peer reads on, and no longer.
RelayEnds ==
    \A c \in Conns :
        (/\ At(c, "relay") /\ ~Blocked(c)
         /\ conn[c].client = "shut" \/ conn[c].vtgate = "shut") ~> At(c, "free")

\* A signal that comes once the listener is closed ends the process ("Graceful
\* shutdown on SIGTERM / SIGINT", main).  The signal that had it closed does not:
\* the goroutine took it out of the channel that main looks into.
SecondSignalEnds == (stop = 1 /\ ~listener) ~> main = "ended"
=============================================================================
