-------------------------- MODULE MySQLProxyProofs ---------------------------
(***************************************************************************)
(* Theorems about MySQLProxy, for any connections, users and addresses.    *)
(*                                                                         *)
(* RelayedWasListed is not inductive: that a connection which passes the   *)
(* lookup was met, and one that passes the check was seen, follows from    *)
(* what has been recorded of the secrets since the client answered.        *)
(* Recorded says that the record is complete, Sound what each step of      *)
(* handleConnection has established.                                       *)
(***************************************************************************)
EXTENDS MySQLProxy, TLAPS

Steady == {"forward", "relay", "gone"}

\* Whatever holds of connection r in the secrets k and l is in its record.
Recorded(r, k, l) ==
    r.login \in Logins =>
        /\ r.login \in k => r.met
        /\ r.addr \in l[OwnerOf[r.login]] => r.seen

\* What connection r has established by the step it is at.
Sound(r) ==
    /\ r.step \in {"lookup", "check"} \cup Steady => r.login \in Logins
    /\ r.step \in {"check"} \cup Steady => r.met
    /\ r.step \in Steady => r.seen

Good(r, k, l) == r \in ConnStates /\ Recorded(r, k, l) /\ Sound(r)

Progress == \A c \in Conns : Good(conn[c], known, list)

Inv == TypeOK /\ Progress

\* Free is a connection, and there is nothing to say of it.
LEMMA FreeIsGood == ASSUME NEW k, NEW l PROVE Good(Free, k, l)
BY NoneAssumption
   DEF Free, ConnStates, Good, Recorded, Sound, Steps, Copies, Steady

\* A step that replaces one connection by a good one, and leaves the secrets
\* and the process alone, keeps the invariant.
LEMMA OneConnection ==
    ASSUME Inv, NEW c \in Conns, NEW r, Good(r, known, list),
           conn' = [conn EXCEPT ![c] = r], UNCHANGED <<secrets, server>>
    PROVE  Inv'
<1>1. conn' \in [Conns -> ConnStates]
  BY DEF Inv, TypeOK, Good
<1>2. TypeOK'
  BY <1>1 DEF Inv, TypeOK, secrets, server
<1>3. Progress'
  <2> SUFFICES ASSUME NEW d \in Conns PROVE Good(conn'[d], known, list)
    BY DEF Progress, secrets
  <2>1. conn'[d] = r \/ conn'[d] = conn[d]
    BY DEF Inv, TypeOK
  <2> QED
    BY <2>1 DEF Inv, Progress
<1> QED
  BY <1>2, <1>3 DEF Inv

LEMMA Leaving ==
    ASSUME Inv, NEW c \in Conns, Leave(c), UNCHANGED <<secrets, server>>
    PROVE  Inv'
<1>1. Good(Free, known, list) /\ conn' = [conn EXCEPT ![c] = Free]
  BY FreeIsGood DEF Leave
<1> QED
  BY <1>1, OneConnection

\* Recording what new secrets say completes the record for them.
LEMMA Witnessing ==
    ASSUME Inv, NEW k, NEW l, Witness(k, l)
    PROVE  /\ conn' \in [Conns -> ConnStates]
           /\ \A c \in Conns : Good(conn'[c], k, l)
<1> DEFINE new(c) ==
        IF conn[c].login = None THEN conn[c]
        ELSE [conn[c] EXCEPT
                !.met  = @ \/ conn[c].login \in k,
                !.seen = @ \/ conn[c].addr \in l[OwnerOf[conn[c].login]]]
<1>1. ASSUME NEW c \in Conns PROVE Good(new(c), k, l)
  <2>1. conn[c] \in ConnStates /\ Sound(conn[c])
    BY DEF Inv, Progress, Good
  <2>2. CASE conn[c].login = None
    BY <2>1, <2>2, NoneAssumption DEF Good, Recorded
  <2>3. CASE conn[c].login # None
    <3> DEFINE m == conn[c].met \/ conn[c].login \in k
               s == conn[c].seen \/ conn[c].addr \in l[OwnerOf[conn[c].login]]
    <3>1. m \in BOOLEAN /\ s \in BOOLEAN /\ (conn[c].met => m) /\ (conn[c].seen => s)
      OBVIOUS
    <3>2. /\ conn[c].login \in k => m
          /\ conn[c].addr \in l[OwnerOf[conn[c].login]] => s
      OBVIOUS
    <3>3. new(c) = [conn[c] EXCEPT !.met = m, !.seen = s]
      BY <2>3
    <3> HIDE DEF m, s, new
    <3>4. new(c) \in ConnStates
      BY <2>1, <3>1, <3>3 DEF ConnStates
    <3>5. /\ new(c).step = conn[c].step /\ new(c).login = conn[c].login
          /\ new(c).addr = conn[c].addr /\ new(c).met = m /\ new(c).seen = s
      BY <2>1, <3>3 DEF ConnStates
    <3> QED
      BY <2>1, <3>1, <3>2, <3>4, <3>5 DEF Good, Recorded, Sound
  <2> QED
    BY <2>2, <2>3
<1>2. conn' = [c \in Conns |-> new(c)]
  BY DEF Witness
<1> HIDE DEF new
<1> QED
  BY <1>1, <1>2 DEF Good

\* A connection stays good when secrets lose something.
LEMMA Losing ==
    ASSUME NEW r, NEW k, NEW l, Good(r, k, l),
           NEW kk \in SUBSET k, NEW ll,
           r.login \in Logins => ll[OwnerOf[r.login]] \subseteq l[OwnerOf[r.login]]
    PROVE  Good(r, kk, ll)
BY DEF Good, Recorded

LEMMA InitInv == Init => Inv
<1> SUFFICES ASSUME Init PROVE Inv
  OBVIOUS
<1>1. \A c \in Conns : conn[c] = Free /\ Good(Free, known, list)
  BY FreeIsGood DEF Init
<1>2. Free \in ConnStates
  BY FreeIsGood DEF Good
<1>3. TypeOK
  BY <1>2 DEF Init, TypeOK
<1> QED
  BY <1>1, <1>3 DEF Inv, Progress

LEMMA SecretsInv == Inv /\ Secrets => Inv'
<1> SUFFICES ASSUME Inv, Secrets PROVE Inv'
  OBVIOUS
<1>1. ASSUME NEW l \in Logins, AddLogin(l) PROVE Inv'
  <2>1. conn' \in [Conns -> ConnStates] /\ \A c \in Conns : Good(conn'[c], known', list)
    BY <1>1, Witnessing DEF AddLogin
  <2>2. known' \subseteq Logins /\ UNCHANGED <<list, server>>
    BY <1>1 DEF AddLogin, Inv, TypeOK
  <2> QED
    BY <2>1, <2>2 DEF Inv, TypeOK, Progress, server
<1>2. ASSUME NEW l \in Logins, DropLogin(l) PROVE Inv'
  <2>1. known' \in SUBSET known /\ UNCHANGED <<list, conn, server>>
    BY <1>2 DEF DropLogin
  <2>2. \A c \in Conns : Good(conn[c], known', list)
    BY <2>1, Losing DEF Inv, Progress
  <2> QED
    BY <2>1, <2>2 DEF Inv, TypeOK, Progress, server
<1>3. ASSUME NEW u \in Users, NEW a \in Addresses, AddIP(u, a) PROVE Inv'
  <2>1. conn' \in [Conns -> ConnStates] /\ \A c \in Conns : Good(conn'[c], known, list')
    BY <1>3, Witnessing DEF AddIP
  <2>2. list' \in [Users -> SUBSET Addresses] /\ UNCHANGED <<known, server>>
    BY <1>3 DEF AddIP, Inv, TypeOK
  <2> QED
    BY <2>1, <2>2 DEF Inv, TypeOK, Progress, server
<1>4. ASSUME NEW u \in Users, NEW a \in Addresses, RemoveIP(u, a) PROVE Inv'
  <2>1. list' \in [Users -> SUBSET Addresses] /\ UNCHANGED <<known, conn, server>>
    BY <1>4 DEF RemoveIP, Inv, TypeOK
  <2>2. \A v \in Users : list'[v] \subseteq list[v]
    BY <1>4 DEF RemoveIP, Inv, TypeOK
  <2>3. \A c \in Conns : Good(conn[c], known, list')
    BY <2>2, Losing, OwnerAssumption DEF Inv, Progress
  <2> QED
    BY <2>1, <2>3 DEF Inv, TypeOK, Progress, server
<1> QED
  BY <1>1, <1>2, <1>3, <1>4 DEF Secrets

\* A connection that is let in is good.
LEMMA AcceptInv ==
    ASSUME Inv, NEW c \in Conns, NEW a \in Addresses, Accept(c, a)
    PROVE  Inv'
<1> DEFINE r == [Free EXCEPT !.step = "dial", !.addr = a]
<1>1. Free \in ConnStates /\ Free.login = None
  BY FreeIsGood DEF Free, Good
<1>2. r \in ConnStates /\ r.login = None /\ r.step = "dial"
  BY <1>1 DEF ConnStates, Steps
<1>3. conn' = [conn EXCEPT ![c] = r] /\ UNCHANGED <<secrets, server>>
  BY DEF Accept
<1> HIDE DEF r
<1>4. Good(r, known, list)
  BY <1>2, NoneAssumption DEF Good, Recorded, Sound, Steady
<1> QED
  BY <1>3, <1>4, OneConnection

\* A step of connection c that leaves its record and its peer's name alone
\* keeps the invariant when the step that it comes to is justified.
LEMMA Moving ==
    ASSUME Inv, NEW c \in Conns, NEW r \in ConnStates, Sound(r),
           r.login = conn[c].login, r.addr = conn[c].addr,
           r.met = conn[c].met, r.seen = conn[c].seen,
           conn' = [conn EXCEPT ![c] = r], UNCHANGED <<secrets, server>>
    PROVE  Inv'
<1>1. Good(conn[c], known, list)
  BY DEF Inv, Progress
<1>2. Good(r, known, list)
  BY <1>1 DEF Good, Recorded
<1> QED
  BY <1>2, OneConnection

\* The steps before the relay.
LEMMA HandshakeInv ==
    ASSUME Inv, NEW c \in Conns, Handshake(c)
    PROVE  Inv'
<1>0. /\ conn \in [Conns -> ConnStates] /\ conn[c] \in ConnStates
      /\ Sound(conn[c]) /\ Recorded(conn[c], known, list)
  BY DEF Inv, TypeOK, Progress, Good
<1>1. CASE Dial(c)
  <2>1. CASE Leave(c)
    BY <1>1, <2>1, Leaving DEF Dial
  <2>2. CASE conn' = [conn EXCEPT ![c].step = "greet", ![c].vtgate = "open"]
    <3> DEFINE r == [conn[c] EXCEPT !.step = "greet", !.vtgate = "open"]
    <3>1. r \in ConnStates
      BY <1>0 DEF ConnStates, Steps, Copies
    <3>2. /\ r.login = conn[c].login /\ r.addr = conn[c].addr
        /\ r.met = conn[c].met /\ r.seen = conn[c].seen
      BY <1>0 DEF ConnStates
    <3>3. conn' = [conn EXCEPT ![c] = r] /\ UNCHANGED <<secrets, server>>
      BY <1>0, <1>1, <2>2 DEF Dial
    <3>4. Sound(r)
      BY <1>0, <1>1, <2>2 DEF Dial, Sound, Steady, ConnStates, At
    <3> HIDE DEF r
    <3> QED
      BY <3>1, <3>2, <3>3, <3>4, Moving
  <2> QED
    BY <1>1, <2>1, <2>2 DEF Dial
<1>2. CASE Greet(c)
  <2>1. CASE Leave(c)
    BY <1>2, <2>1, Leaving DEF Greet
  <2>2. CASE conn' = [conn EXCEPT ![c].step = "answer"]
    <3> DEFINE r == [conn[c] EXCEPT !.step = "answer"]
    <3>1. r \in ConnStates
      BY <1>0 DEF ConnStates, Steps, Copies
    <3>2. /\ r.login = conn[c].login /\ r.addr = conn[c].addr
        /\ r.met = conn[c].met /\ r.seen = conn[c].seen
      BY <1>0 DEF ConnStates
    <3>3. conn' = [conn EXCEPT ![c] = r] /\ UNCHANGED <<secrets, server>>
      BY <1>0, <1>2, <2>2 DEF Greet
    <3>4. Sound(r)
      BY <1>0, <1>2, <2>2 DEF Greet, Sound, Steady, ConnStates, At
    <3> HIDE DEF r
    <3> QED
      BY <3>1, <3>2, <3>3, <3>4, Moving
  <2> QED
    BY <1>2, <2>1, <2>2 DEF Greet
<1>3. CASE NoAnswer(c)
  BY <1>3, Leaving DEF NoAnswer
<1>4. CASE Lookup(c)
  <2>1. CASE Leave(c)
    BY <1>4, <2>1, Leaving DEF Lookup
  <2>2. CASE conn[c].login \in known /\ conn' = [conn EXCEPT ![c].step = "check"]
    <3> DEFINE r == [conn[c] EXCEPT !.step = "check"]
    <3>1. r \in ConnStates
      BY <1>0 DEF ConnStates, Steps, Copies
    <3>2. /\ r.login = conn[c].login /\ r.addr = conn[c].addr
        /\ r.met = conn[c].met /\ r.seen = conn[c].seen
      BY <1>0 DEF ConnStates
    <3>3. conn' = [conn EXCEPT ![c] = r] /\ UNCHANGED <<secrets, server>>
      BY <1>0, <1>4, <2>2 DEF Lookup
    <3>4. Sound(r)
      BY <1>0, <1>4, <2>2 DEF Lookup, Recorded, Sound, Steady, ConnStates, At
    <3> HIDE DEF r
    <3> QED
      BY <3>1, <3>2, <3>3, <3>4, Moving
  <2> QED
    BY <1>4, <2>1, <2>2 DEF Lookup
<1>5. CASE Check(c)
  <2>1. CASE Leave(c)
    BY <1>5, <2>1, Leaving DEF Check
  <2>2. CASE /\ conn[c].addr \in list[OwnerOf[conn[c].login]]
              /\ conn' = [conn EXCEPT ![c].step = "forward"]
    <3> DEFINE r == [conn[c] EXCEPT !.step = "forward"]
    <3>1. r \in ConnStates
      BY <1>0 DEF ConnStates, Steps, Copies
    <3>2. /\ r.login = conn[c].login /\ r.addr = conn[c].addr
        /\ r.met = conn[c].met /\ r.seen = conn[c].seen
      BY <1>0 DEF ConnStates
    <3>3. conn' = [conn EXCEPT ![c] = r] /\ UNCHANGED <<secrets, server>>
      BY <1>0, <1>5, <2>2 DEF Check
    <3>4. Sound(r)
      BY <1>0, <1>5, <2>2 DEF Check, Recorded, Sound, Steady, ConnStates, At
    <3> HIDE DEF r
    <3> QED
      BY <3>1, <3>2, <3>3, <3>4, Moving
  <2> QED
    BY <1>5, <2>1, <2>2 DEF Check, Allowed
<1>6. CASE Forward(c)
  <2>1. CASE Leave(c)
    BY <1>6, <2>1, Leaving DEF Forward
  <2>2. CASE conn' = [conn EXCEPT ![c].step = "relay", ![c].up = "copying", ![c].down = "copying"]
    <3> DEFINE r == [conn[c] EXCEPT !.step = "relay", !.up = "copying", !.down = "copying"]
    <3>1. r \in ConnStates
      BY <1>0 DEF ConnStates, Steps, Copies
    <3>2. /\ r.login = conn[c].login /\ r.addr = conn[c].addr
        /\ r.met = conn[c].met /\ r.seen = conn[c].seen
      BY <1>0 DEF ConnStates
    <3>3. conn' = [conn EXCEPT ![c] = r] /\ UNCHANGED <<secrets, server>>
      BY <1>0, <1>6, <2>2 DEF Forward
    <3>4. Sound(r)
      BY <1>0, <1>6, <2>2 DEF Forward, Sound, Steady, ConnStates, At
    <3> HIDE DEF r
    <3> QED
      BY <3>1, <3>2, <3>3, <3>4, Moving
  <2> QED
    BY <1>6, <2>1, <2>2 DEF Forward
<1>7. ASSUME NEW l \in Logins, ReadAnswer(c, l) PROVE Inv'
  <2> DEFINE m == l \in known
             s == conn[c].addr \in list[OwnerOf[l]]
             r == [conn[c] EXCEPT !.step = "lookup", !.login = l,
                                  !.met = m, !.seen = s]
  <2>1. m \in BOOLEAN /\ s \in BOOLEAN
    OBVIOUS
  <2>2. conn' = [conn EXCEPT ![c] = r] /\ UNCHANGED <<secrets, server>>
    BY <1>0, <1>7 DEF ReadAnswer
  <2>3. (l \in known => m) /\ (conn[c].addr \in list[OwnerOf[l]] => s)
    OBVIOUS
  <2> HIDE DEF m, s
  <2>4. r \in ConnStates
    BY <1>0, <2>1 DEF ConnStates, Steps
  <2>5. /\ r.step = "lookup" /\ r.login = l /\ r.addr = conn[c].addr
        /\ r.met = m /\ r.seen = s
    BY <1>0 DEF ConnStates
  <2> HIDE DEF r
  <2>6. Good(r, known, list)
    BY <2>3, <2>4, <2>5 DEF Good, Recorded, Sound, Steady
  <2> QED
    BY <2>2, <2>6, OneConnection
<1> QED
  BY <1>1, <1>2, <1>3, <1>4, <1>5, <1>6, <1>7 DEF Handshake

\* The relay and its two copies.
LEMMA CopyingInv ==
    ASSUME Inv, NEW c \in Conns, Copying(c)
    PROVE  Inv'
<1>0. /\ conn \in [Conns -> ConnStates] /\ conn[c] \in ConnStates
      /\ Sound(conn[c]) /\ Recorded(conn[c], known, list)
  BY DEF Inv, TypeOK, Progress, Good
<1>1. CASE EndUp(c)
  <2> DEFINE r == [conn[c] EXCEPT !.up = "ended"]
  <2>1. r \in ConnStates
    BY <1>0 DEF ConnStates, Steps, Copies
  <2>2. /\ r.login = conn[c].login /\ r.addr = conn[c].addr
      /\ r.met = conn[c].met /\ r.seen = conn[c].seen
    BY <1>0 DEF ConnStates
  <2>3. conn' = [conn EXCEPT ![c] = r] /\ UNCHANGED <<secrets, server>>
    BY <1>0, <1>1 DEF EndUp
  <2>4. Sound(r)
    BY <1>0, <1>1 DEF EndUp, Sound, Steady, ConnStates, At
  <2> HIDE DEF r
  <2> QED
    BY <2>1, <2>2, <2>3, <2>4, Moving
<1>2. CASE EndDown(c)
  <2> DEFINE r == [conn[c] EXCEPT !.down = "ended"]
  <2>1. r \in ConnStates
    BY <1>0 DEF ConnStates, Steps, Copies
  <2>2. /\ r.login = conn[c].login /\ r.addr = conn[c].addr
      /\ r.met = conn[c].met /\ r.seen = conn[c].seen
    BY <1>0 DEF ConnStates
  <2>3. conn' = [conn EXCEPT ![c] = r] /\ UNCHANGED <<secrets, server>>
    BY <1>0, <1>2 DEF EndDown
  <2>4. Sound(r)
    BY <1>0, <1>2 DEF EndDown, Sound, Steady, ConnStates, At
  <2> HIDE DEF r
  <2> QED
    BY <2>1, <2>2, <2>3, <2>4, Moving
<1>3. CASE ReportUp(c)
  <2> DEFINE r == [conn[c] EXCEPT !.up = "reported", !.done = @ + 1]
  <2>0. conn[c].done + 1 \in 0..2
    BY <1>0, <1>3 DEF ConnStates, ReportUp, Room
  <2>1. r \in ConnStates
    BY <1>0, <2>0 DEF ConnStates, Steps, Copies
  <2>2. /\ r.login = conn[c].login /\ r.addr = conn[c].addr
      /\ r.met = conn[c].met /\ r.seen = conn[c].seen
    BY <1>0 DEF ConnStates
  <2>3. conn' = [conn EXCEPT ![c] = r] /\ UNCHANGED <<secrets, server>>
    BY <1>0, <1>3 DEF ReportUp
  <2>4. Sound(r)
    BY <1>0, <1>3 DEF ReportUp, Sound, Steady, ConnStates, At
  <2> HIDE DEF r
  <2> QED
    BY <2>1, <2>2, <2>3, <2>4, Moving
<1>4. CASE ReportDown(c)
  <2> DEFINE r == [conn[c] EXCEPT !.down = "reported", !.done = @ + 1]
  <2>0. conn[c].done + 1 \in 0..2
    BY <1>0, <1>4 DEF ConnStates, ReportDown, Room
  <2>1. r \in ConnStates
    BY <1>0, <2>0 DEF ConnStates, Steps, Copies
  <2>2. /\ r.login = conn[c].login /\ r.addr = conn[c].addr
      /\ r.met = conn[c].met /\ r.seen = conn[c].seen
    BY <1>0 DEF ConnStates
  <2>3. conn' = [conn EXCEPT ![c] = r] /\ UNCHANGED <<secrets, server>>
    BY <1>0, <1>4 DEF ReportDown
  <2>4. Sound(r)
    BY <1>0, <1>4 DEF ReportDown, Sound, Steady, ConnStates, At
  <2> HIDE DEF r
  <2> QED
    BY <2>1, <2>2, <2>3, <2>4, Moving
<1>5. CASE Return(c)
  <2> DEFINE r == [conn[c] EXCEPT !.step = "gone", !.done = @ - 1]
  <2>0. conn[c].done - 1 \in 0..2
    BY <1>0, <1>5 DEF ConnStates, Return, Room
  <2>1. r \in ConnStates
    BY <1>0, <2>0 DEF ConnStates, Steps, Copies
  <2>2. /\ r.login = conn[c].login /\ r.addr = conn[c].addr
      /\ r.met = conn[c].met /\ r.seen = conn[c].seen
    BY <1>0 DEF ConnStates
  <2>3. conn' = [conn EXCEPT ![c] = r] /\ UNCHANGED <<secrets, server>>
    BY <1>0, <1>5 DEF Return
  <2>4. Sound(r)
    BY <1>0, <1>5 DEF Return, Sound, Steady, ConnStates, At
  <2> HIDE DEF r
  <2> QED
    BY <2>1, <2>2, <2>3, <2>4, Moving
<1>6. CASE Forget(c)
  BY <1>6, Leaving DEF Forget, Leave
<1> QED
  BY <1>1, <1>2, <1>3, <1>4, <1>5, <1>6 DEF Copying

\* What the peers do.
LEMMA PeersInv ==
    ASSUME Inv, NEW c \in Conns, Peers(c)
    PROVE  Inv'
<1>0. /\ conn \in [Conns -> ConnStates] /\ conn[c] \in ConnStates
      /\ Sound(conn[c]) /\ Recorded(conn[c], known, list)
  BY DEF Inv, TypeOK, Progress, Good
<1>1. CASE ClientShuts(c)
  <2> DEFINE r == [conn[c] EXCEPT !.client = "shut"]
  <2>1. r \in ConnStates
    BY <1>0 DEF ConnStates, Steps, Copies
  <2>2. /\ r.login = conn[c].login /\ r.addr = conn[c].addr
      /\ r.met = conn[c].met /\ r.seen = conn[c].seen
    BY <1>0 DEF ConnStates
  <2>3. conn' = [conn EXCEPT ![c] = r] /\ UNCHANGED <<secrets, server>>
    BY <1>0, <1>1 DEF ClientShuts
  <2>4. Sound(r)
    BY <1>0, <1>1 DEF ClientShuts, Sound, Steady, ConnStates, At
  <2> HIDE DEF r
  <2> QED
    BY <2>1, <2>2, <2>3, <2>4, Moving
<1>2. CASE VtgateShuts(c)
  <2> DEFINE r == [conn[c] EXCEPT !.vtgate = "shut"]
  <2>1. r \in ConnStates
    BY <1>0 DEF ConnStates, Steps, Copies
  <2>2. /\ r.login = conn[c].login /\ r.addr = conn[c].addr
      /\ r.met = conn[c].met /\ r.seen = conn[c].seen
    BY <1>0 DEF ConnStates
  <2>3. conn' = [conn EXCEPT ![c] = r] /\ UNCHANGED <<secrets, server>>
    BY <1>0, <1>2 DEF VtgateShuts
  <2>4. Sound(r)
    BY <1>0, <1>2 DEF VtgateShuts, Sound, Steady, ConnStates, At
  <2> HIDE DEF r
  <2> QED
    BY <2>1, <2>2, <2>3, <2>4, Moving
<1>3. CASE BreakUp(c)
  <2> DEFINE r == [conn[c] EXCEPT !.up = "ended"]
  <2>1. r \in ConnStates
    BY <1>0 DEF ConnStates, Steps, Copies
  <2>2. /\ r.login = conn[c].login /\ r.addr = conn[c].addr
      /\ r.met = conn[c].met /\ r.seen = conn[c].seen
    BY <1>0 DEF ConnStates
  <2>3. conn' = [conn EXCEPT ![c] = r] /\ UNCHANGED <<secrets, server>>
    BY <1>0, <1>3 DEF BreakUp
  <2>4. Sound(r)
    BY <1>0, <1>3 DEF BreakUp, Sound, Steady, ConnStates, At
  <2> HIDE DEF r
  <2> QED
    BY <2>1, <2>2, <2>3, <2>4, Moving
<1>4. CASE BreakDown(c)
  <2> DEFINE r == [conn[c] EXCEPT !.down = "ended"]
  <2>1. r \in ConnStates
    BY <1>0 DEF ConnStates, Steps, Copies
  <2>2. /\ r.login = conn[c].login /\ r.addr = conn[c].addr
      /\ r.met = conn[c].met /\ r.seen = conn[c].seen
    BY <1>0 DEF ConnStates
  <2>3. conn' = [conn EXCEPT ![c] = r] /\ UNCHANGED <<secrets, server>>
    BY <1>0, <1>4 DEF BreakDown
  <2>4. Sound(r)
    BY <1>0, <1>4 DEF BreakDown, Sound, Steady, ConnStates, At
  <2> HIDE DEF r
  <2> QED
    BY <2>1, <2>2, <2>3, <2>4, Moving
<1>5. CASE BlockUp(c)
  <2> DEFINE r == [conn[c] EXCEPT !.up = "writing"]
  <2>1. r \in ConnStates
    BY <1>0 DEF ConnStates, Steps, Copies
  <2>2. /\ r.login = conn[c].login /\ r.addr = conn[c].addr
      /\ r.met = conn[c].met /\ r.seen = conn[c].seen
    BY <1>0 DEF ConnStates
  <2>3. conn' = [conn EXCEPT ![c] = r] /\ UNCHANGED <<secrets, server>>
    BY <1>0, <1>5 DEF BlockUp
  <2>4. Sound(r)
    BY <1>0, <1>5 DEF BlockUp, Sound, Steady, ConnStates, At
  <2> HIDE DEF r
  <2> QED
    BY <2>1, <2>2, <2>3, <2>4, Moving
<1>6. CASE BlockDown(c)
  <2> DEFINE r == [conn[c] EXCEPT !.down = "writing"]
  <2>1. r \in ConnStates
    BY <1>0 DEF ConnStates, Steps, Copies
  <2>2. /\ r.login = conn[c].login /\ r.addr = conn[c].addr
      /\ r.met = conn[c].met /\ r.seen = conn[c].seen
    BY <1>0 DEF ConnStates
  <2>3. conn' = [conn EXCEPT ![c] = r] /\ UNCHANGED <<secrets, server>>
    BY <1>0, <1>6 DEF BlockDown
  <2>4. Sound(r)
    BY <1>0, <1>6 DEF BlockDown, Sound, Steady, ConnStates, At
  <2> HIDE DEF r
  <2> QED
    BY <2>1, <2>2, <2>3, <2>4, Moving
<1>7. CASE VtgateReads(c)
  <2> DEFINE r == [conn[c] EXCEPT !.up = "copying"]
  <2>1. r \in ConnStates
    BY <1>0 DEF ConnStates, Steps, Copies
  <2>2. /\ r.login = conn[c].login /\ r.addr = conn[c].addr
      /\ r.met = conn[c].met /\ r.seen = conn[c].seen
    BY <1>0 DEF ConnStates
  <2>3. conn' = [conn EXCEPT ![c] = r] /\ UNCHANGED <<secrets, server>>
    BY <1>0, <1>7 DEF VtgateReads
  <2>4. Sound(r)
    BY <1>0, <1>7 DEF VtgateReads, Sound, Steady, ConnStates, At
  <2> HIDE DEF r
  <2> QED
    BY <2>1, <2>2, <2>3, <2>4, Moving
<1>8. CASE ClientReads(c)
  <2> DEFINE r == [conn[c] EXCEPT !.down = "copying"]
  <2>1. r \in ConnStates
    BY <1>0 DEF ConnStates, Steps, Copies
  <2>2. /\ r.login = conn[c].login /\ r.addr = conn[c].addr
      /\ r.met = conn[c].met /\ r.seen = conn[c].seen
    BY <1>0 DEF ConnStates
  <2>3. conn' = [conn EXCEPT ![c] = r] /\ UNCHANGED <<secrets, server>>
    BY <1>0, <1>8 DEF ClientReads
  <2>4. Sound(r)
    BY <1>0, <1>8 DEF ClientReads, Sound, Steady, ConnStates, At
  <2> HIDE DEF r
  <2> QED
    BY <2>1, <2>2, <2>3, <2>4, Moving
<1> QED
  BY <1>1, <1>2, <1>3, <1>4, <1>5, <1>6, <1>7, <1>8 DEF Peers

\* Signals, the listener and main.
LEMMA ProcessInv ==
    ASSUME Inv, Signal \/ WatchStop \/ CloseListener \/ Main
    PROVE  Inv'
<1>1. CASE StopMain
  <2>1. \A c \in Conns : conn'[c] = Free /\ Good(Free, known, list)
    BY <1>1, FreeIsGood DEF StopMain
  <2>2. Free \in ConnStates
    BY FreeIsGood DEF Good
  <2>3. /\ conn' \in [Conns -> ConnStates]
        /\ main' = "ended" /\ stop' \in 0..1
        /\ UNCHANGED <<known, list, watcher, signals>>
    BY <1>1, <2>2 DEF StopMain, secrets
  <2>4. listener' \in BOOLEAN
    BY <1>1 DEF StopMain
  <2>5. TypeOK'
    BY <2>3, <2>4 DEF Inv, TypeOK
  <2> QED
    BY <2>1, <2>3, <2>5 DEF Inv, Progress
<1>2. ASSUME Signal \/ WatchStop \/ CloseListener \/ AcceptFails \/ AcceptAgain
      PROVE  Inv'
  <2>1. UNCHANGED <<secrets, conn>>
    BY <1>2 DEF Signal, WatchStop, CloseListener, AcceptFails, AcceptAgain
  <2>2. /\ main' \in {"accept", "select", "ended"}
        /\ watcher' \in {"wait", "close", "ended"}
        /\ stop' \in 0..1
    BY <1>2 DEF Signal, WatchStop, CloseListener, AcceptFails, AcceptAgain,
                Inv, TypeOK
  <2>3. signals' \in Nat
    BY <1>2 DEF Signal, WatchStop, CloseListener, AcceptFails, AcceptAgain,
                Inv, TypeOK
  <2>4. listener' \in BOOLEAN
    BY <1>2 DEF Signal, WatchStop, CloseListener, AcceptFails, AcceptAgain,
                Inv, TypeOK
  <2>5. TypeOK'
    BY <2>1, <2>2, <2>3, <2>4 DEF Inv, TypeOK, secrets
  <2> QED
    BY <2>1, <2>5 DEF Inv, Progress, secrets
<1> QED
  BY <1>1, <1>2 DEF Main

LEMMA NextInv == Inv /\ [Next]_vars => Inv'
<1> SUFFICES ASSUME Inv, [Next]_vars PROVE Inv'
  OBVIOUS
<1>1. CASE UNCHANGED vars
  BY <1>1 DEF vars, Inv, TypeOK, Progress
<1>2. CASE Next
  BY <1>2, SecretsInv, AcceptInv, HandshakeInv, CopyingInv, PeersInv, ProcessInv
     DEF Next
<1> QED
  BY <1>1, <1>2

\* Connections, secrets and the process keep their types: in particular at most
\* two reports and one signal ever wait (main, handleConnection).
THEOREM TypeCorrect == Spec => []TypeOK
<1>1. Inv => TypeOK
  BY DEF Inv
<1> QED
  BY InitInv, NextInv, <1>1, PTL DEF Spec

\* However many connections there are and however the secrets change, vtgate is
\* sent the answer of no client whose username and address were not both found
\* since it answered (handleConnection, lookupDatabaseByUsername, IsAllowed).
THEOREM RelayedWasListedAlways == Spec => []RelayedWasListed
<1>1. Inv => RelayedWasListed
  BY DEF Inv, Progress, Good, Sound, Steady, RelayedWasListed
<1> QED
  BY InitInv, NextInv, <1>1, PTL DEF Spec
(***************************************************************************)
(* What keeps the goroutines of a relay and of the shutdown from waiting   *)
(* for something that will not come: the safety that RelayEnds and         *)
(* SecondSignalEnds rest on, besides fairness.                             *)
(***************************************************************************)

\* The copies of r that have reported.
Reports(r) == (IF r.up = "reported" THEN 1 ELSE 0) + (IF r.down = "reported" THEN 1 ELSE 0)

\* A copy runs from the relay on, and what has been reported is in the channel,
\* but for the one report that handleConnection has taken.
Counted(r) ==
    IF r.step \in {"relay", "gone"}
      THEN /\ r.up # "none" /\ r.down # "none"
           /\ Reports(r) = r.done + (IF r.step = "gone" THEN 1 ELSE 0)
      ELSE r.up = "none" /\ r.down = "none" /\ r.done = 0

\* Whoever waits in a relay waits for somebody who goes on: handleConnection for
\* a report that is there or that a copy has yet to make, and a copy that has
\* ended for nothing, as there is room in the channel.  (A copy may be blocked in a
\* Write, for as long as the peer it writes to reads nothing.)
RelayGoesOn ==
    \A c \in Conns :
        /\ At(c, "relay") => \/ conn[c].done > 0
                             \/ conn[c].up \in {"copying", "writing", "ended"}
                             \/ conn[c].down \in {"copying", "writing", "ended"}
        /\ "ended" \in {conn[c].up, conn[c].down} => Room(c)

\* Once the listener is closed, main alone reads the channel of signals.
SignalsAreMains == main = "ended" \/ listener \/ watcher = "ended"

LEMMA FreeIsCounted == Counted(Free)
BY DEF Counted, Free

\* A step that replaces one connection by one whose reports are counted.
LEMMA OneCounted ==
    ASSUME Inv, \A d \in Conns : Counted(conn[d]), NEW c \in Conns, NEW r, Counted(r),
           conn' = [conn EXCEPT ![c] = r]
    PROVE  \A d \in Conns : Counted(conn'[d])
BY DEF Inv, TypeOK

\* The same for a connection that leaves its reports alone, and neither begins
\* nor ends its relay.
LEMMA SameCount ==
    ASSUME Inv, \A d \in Conns : Counted(conn[d]), NEW c \in Conns, NEW r,
           r.up = conn[c].up, r.down = conn[c].down, r.done = conn[c].done,
           \/ r.step = conn[c].step
           \/ r.step \notin {"relay", "gone"} /\ conn[c].step \notin {"relay", "gone"},
           conn' = [conn EXCEPT ![c] = r]
    PROVE  \A d \in Conns : Counted(conn'[d])
<1>1. Counted(conn[c])
  OBVIOUS
<1>2. Reports(r) = Reports(conn[c])
  BY DEF Reports
<1>3. Counted(r)
  BY <1>1, <1>2 DEF Counted
<1> QED
  BY <1>3, OneCounted

LEMMA HandshakeCounted ==
    ASSUME Inv, \A d \in Conns : Counted(conn[d]), NEW c \in Conns,
           Handshake(c) \/ \E a \in Addresses : Accept(c, a)
    PROVE  \A d \in Conns : Counted(conn'[d])
<1>1. conn \in [Conns -> ConnStates] /\ conn[c] \in ConnStates /\ Counted(conn[c])
  BY DEF Inv, TypeOK
<1>2. CASE Leave(c)
  BY <1>2, FreeIsCounted, OneCounted DEF Leave
<1>3. ASSUME NEW a \in Addresses, Accept(c, a)
      PROVE  \A d \in Conns : Counted(conn'[d])
  <2> DEFINE r == [Free EXCEPT !.step = "dial", !.addr = a]
  <2>1. Counted(r)
    BY DEF Counted, Free
  <2>2. conn' = [conn EXCEPT ![c] = r]
    BY <1>3 DEF Accept
  <2> HIDE DEF r
  <2> QED
    BY <2>1, <2>2, OneCounted
<1>4. CASE Forward(c) /\ ~Leave(c)
  <2> DEFINE r == [conn[c] EXCEPT !.step = "relay", !.up = "copying", !.down = "copying"]
  <2>1. conn' = [conn EXCEPT ![c] = r] /\ conn[c].step = "forward"
    BY <1>1, <1>4 DEF Forward, At
  <2>2. r.step = "relay" /\ r.up = "copying" /\ r.down = "copying" /\ r.done = conn[c].done
    BY <1>1 DEF ConnStates
  <2>3. conn[c].done = 0
    BY <1>1, <2>1 DEF Counted
  <2> HIDE DEF r
  <2>4. Counted(r)
    BY <2>2, <2>3 DEF Counted, Reports
  <2> QED
    BY <2>1, <2>4, OneCounted
<1>5. CASE Dial(c) /\ ~Leave(c)
  <2> DEFINE r == [conn[c] EXCEPT !.step = "greet", !.vtgate = "open"]
  <2>1. conn' = [conn EXCEPT ![c] = r] /\ conn[c].step = "dial"
    BY <1>1, <1>5 DEF Dial, At
  <2>2. /\ r.up = conn[c].up /\ r.down = conn[c].down /\ r.done = conn[c].done
        /\ r.step = "greet"
    BY <1>1 DEF ConnStates
  <2> HIDE DEF r
  <2> QED
    BY <2>1, <2>2, SameCount
<1>6. CASE Greet(c) /\ ~Leave(c)
  <2> DEFINE r == [conn[c] EXCEPT !.step = "answer"]
  <2>1. conn' = [conn EXCEPT ![c] = r] /\ conn[c].step = "greet"
    BY <1>1, <1>6 DEF Greet, At
  <2>2. /\ r.up = conn[c].up /\ r.down = conn[c].down /\ r.done = conn[c].done
        /\ r.step = "answer"
    BY <1>1 DEF ConnStates
  <2> HIDE DEF r
  <2> QED
    BY <2>1, <2>2, SameCount
<1>7. CASE Lookup(c) /\ ~Leave(c)
  <2> DEFINE r == [conn[c] EXCEPT !.step = "check"]
  <2>1. conn' = [conn EXCEPT ![c] = r] /\ conn[c].step = "lookup"
    BY <1>1, <1>7 DEF Lookup, At
  <2>2. /\ r.up = conn[c].up /\ r.down = conn[c].down /\ r.done = conn[c].done
        /\ r.step = "check"
    BY <1>1 DEF ConnStates
  <2> HIDE DEF r
  <2> QED
    BY <2>1, <2>2, SameCount
<1>8. CASE Check(c) /\ ~Leave(c)
  <2> DEFINE r == [conn[c] EXCEPT !.step = "forward"]
  <2>1. conn' = [conn EXCEPT ![c] = r] /\ conn[c].step = "check"
    BY <1>1, <1>8 DEF Check, At
  <2>2. /\ r.up = conn[c].up /\ r.down = conn[c].down /\ r.done = conn[c].done
        /\ r.step = "forward"
    BY <1>1 DEF ConnStates
  <2> HIDE DEF r
  <2> QED
    BY <2>1, <2>2, SameCount
<1>9. ASSUME NEW l \in Logins, ReadAnswer(c, l)
      PROVE  \A d \in Conns : Counted(conn'[d])
  <2> DEFINE r == [conn[c] EXCEPT !.step = "lookup", !.login = l, !.met = l \in known,
                                  !.seen = conn[c].addr \in list[OwnerOf[l]]]
  <2>1. conn' = [conn EXCEPT ![c] = r] /\ conn[c].step = "answer"
    BY <1>1, <1>9 DEF ReadAnswer, At
  <2>2. /\ r.up = conn[c].up /\ r.down = conn[c].down /\ r.done = conn[c].done
        /\ r.step = "lookup"
    BY <1>1 DEF ConnStates
  <2> HIDE DEF r
  <2> QED
    BY <2>1, <2>2, SameCount
<1> QED
  BY <1>2, <1>3, <1>4, <1>5, <1>6, <1>7, <1>8, <1>9 DEF Handshake, NoAnswer

LEMMA CopyingCounted ==
    ASSUME Inv, \A d \in Conns : Counted(conn[d]), NEW c \in Conns, Copying(c) \/ Peers(c)
    PROVE  \A d \in Conns : Counted(conn'[d])
<1>1. conn \in [Conns -> ConnStates] /\ conn[c] \in ConnStates /\ Counted(conn[c])
  BY DEF Inv, TypeOK
<1>2. CASE Forget(c)
  BY <1>2, FreeIsCounted, OneCounted DEF Forget
<1>3. conn[c].done \in 0..2
  BY <1>1 DEF ConnStates
<1>4. CASE EndUp(c) \/ BreakUp(c)
  <2> DEFINE r == [conn[c] EXCEPT !.up = "ended"]
  <2>1. conn' = [conn EXCEPT ![c] = r] /\ conn[c].up \in {"copying", "writing"}
    BY <1>1, <1>4 DEF EndUp, BreakUp, At
  <2>2. /\ r.up = "ended" /\ r.down = conn[c].down
        /\ r.done = conn[c].done /\ r.step = conn[c].step
    BY <1>1 DEF ConnStates
  <2> HIDE DEF r
  <2>3. Counted(r)
    BY <1>1, <1>3, <2>1, <2>2 DEF Counted, Reports
  <2> QED
    BY <2>1, <2>3, OneCounted
<1>5. CASE ReportUp(c)
  <2> DEFINE r == [conn[c] EXCEPT !.up = "reported", !.done = conn[c].done + 1]
  <2>1. conn' = [conn EXCEPT ![c] = r] /\ conn[c].up = "ended"
    BY <1>1, <1>5 DEF ReportUp, At
  <2>2. /\ r.up = "reported" /\ r.down = conn[c].down
        /\ r.done = conn[c].done + 1 /\ r.step = conn[c].step
    BY <1>1 DEF ConnStates
  <2> HIDE DEF r
  <2>3. Counted(r)
    BY <1>1, <1>3, <2>1, <2>2 DEF Counted, Reports
  <2> QED
    BY <2>1, <2>3, OneCounted
<1>6. CASE EndDown(c) \/ BreakDown(c)
  <2> DEFINE r == [conn[c] EXCEPT !.down = "ended"]
  <2>1. conn' = [conn EXCEPT ![c] = r] /\ conn[c].down \in {"copying", "writing"}
    BY <1>1, <1>6 DEF EndDown, BreakDown, At
  <2>2. /\ r.down = "ended" /\ r.up = conn[c].up
        /\ r.done = conn[c].done /\ r.step = conn[c].step
    BY <1>1 DEF ConnStates
  <2> HIDE DEF r
  <2>3. Counted(r)
    BY <1>1, <1>3, <2>1, <2>2 DEF Counted, Reports
  <2> QED
    BY <2>1, <2>3, OneCounted
<1>7. CASE ReportDown(c)
  <2> DEFINE r == [conn[c] EXCEPT !.down = "reported", !.done = conn[c].done + 1]
  <2>1. conn' = [conn EXCEPT ![c] = r] /\ conn[c].down = "ended"
    BY <1>1, <1>7 DEF ReportDown, At
  <2>2. /\ r.down = "reported" /\ r.up = conn[c].up
        /\ r.done = conn[c].done + 1 /\ r.step = conn[c].step
    BY <1>1 DEF ConnStates
  <2> HIDE DEF r
  <2>3. Counted(r)
    BY <1>1, <1>3, <2>1, <2>2 DEF Counted, Reports
  <2> QED
    BY <2>1, <2>3, OneCounted
<1>8. CASE Return(c)
  <2> DEFINE r == [conn[c] EXCEPT !.step = "gone", !.done = conn[c].done - 1]
  <2>1. conn' = [conn EXCEPT ![c] = r] /\ conn[c].step = "relay"
    BY <1>1, <1>8 DEF Return, At
  <2>2. /\ r.up = conn[c].up /\ r.down = conn[c].down
        /\ r.done = conn[c].done - 1 /\ r.step = "gone"
    BY <1>1 DEF ConnStates
  <2> HIDE DEF r
  <2>3. Counted(r)
    BY <1>1, <1>3, <2>1, <2>2 DEF Counted, Reports
  <2> QED
    BY <2>1, <2>3, OneCounted
<1>9. CASE ClientShuts(c)
  <2> DEFINE r == [conn[c] EXCEPT !.client = "shut"]
  <2>1. conn' = [conn EXCEPT ![c] = r]
    BY <1>1, <1>9 DEF ClientShuts
  <2>2. /\ r.up = conn[c].up /\ r.down = conn[c].down /\ r.done = conn[c].done
        /\ r.step = conn[c].step
    BY <1>1 DEF ConnStates
  <2> HIDE DEF r
  <2> QED
    BY <2>1, <2>2, SameCount
<1>10. CASE VtgateShuts(c)
  <2> DEFINE r == [conn[c] EXCEPT !.vtgate = "shut"]
  <2>1. conn' = [conn EXCEPT ![c] = r]
    BY <1>1, <1>10 DEF VtgateShuts
  <2>2. /\ r.up = conn[c].up /\ r.down = conn[c].down /\ r.done = conn[c].done
        /\ r.step = conn[c].step
    BY <1>1 DEF ConnStates
  <2> HIDE DEF r
  <2> QED
    BY <2>1, <2>2, SameCount
<1>11. CASE BlockUp(c) \/ VtgateReads(c)
  <2> PICK v \in {"copying", "writing"} : conn' = [conn EXCEPT ![c].up = v]
    BY <1>11 DEF BlockUp, VtgateReads
  <2> DEFINE r == [conn[c] EXCEPT !.up = v]
  <2>1. conn' = [conn EXCEPT ![c] = r] /\ conn[c].up \in {"copying", "writing"}
    BY <1>1, <1>11 DEF BlockUp, VtgateReads
  <2>2. /\ r.up = v /\ r.down = conn[c].down
        /\ r.done = conn[c].done /\ r.step = conn[c].step
    BY <1>1 DEF ConnStates
  <2> HIDE DEF r
  <2>3. Counted(r)
    BY <1>1, <1>3, <2>1, <2>2 DEF Counted, Reports
  <2> QED
    BY <2>1, <2>3, OneCounted
<1>12. CASE BlockDown(c) \/ ClientReads(c)
  <2> PICK v \in {"copying", "writing"} : conn' = [conn EXCEPT ![c].down = v]
    BY <1>12 DEF BlockDown, ClientReads
  <2> DEFINE r == [conn[c] EXCEPT !.down = v]
  <2>1. conn' = [conn EXCEPT ![c] = r] /\ conn[c].down \in {"copying", "writing"}
    BY <1>1, <1>12 DEF BlockDown, ClientReads
  <2>2. /\ r.down = v /\ r.up = conn[c].up
        /\ r.done = conn[c].done /\ r.step = conn[c].step
    BY <1>1 DEF ConnStates
  <2> HIDE DEF r
  <2>3. Counted(r)
    BY <1>1, <1>3, <2>1, <2>2 DEF Counted, Reports
  <2> QED
    BY <2>1, <2>3, OneCounted
<1> QED
  BY <1>2, <1>4, <1>5, <1>6, <1>7, <1>8, <1>9, <1>10, <1>11, <1>12
  DEF Copying, Peers

LEMMA NextCounted ==
    ASSUME Inv, \A d \in Conns : Counted(conn[d]), [Next]_vars
    PROVE  \A d \in Conns : Counted(conn'[d])
<1>1. ASSUME NEW k, NEW l, Witness(k, l)
      PROVE  \A d \in Conns : Counted(conn'[d])
  <2> SUFFICES ASSUME NEW d \in Conns PROVE Counted(conn'[d])
    OBVIOUS
  <2>1. conn[d] \in ConnStates /\ Counted(conn[d])
    BY DEF Inv, TypeOK
  <2>2. /\ conn'[d].up = conn[d].up /\ conn'[d].down = conn[d].down
        /\ conn'[d].done = conn[d].done /\ conn'[d].step = conn[d].step
    BY <1>1, <2>1 DEF Witness, ConnStates
  <2> QED
    BY <2>1, <2>2 DEF Counted, Reports
<1>2. CASE Secrets
  BY <1>1, <1>2 DEF Secrets, AddLogin, DropLogin, AddIP, RemoveIP
<1>3. CASE Signal \/ WatchStop \/ CloseListener \/ AcceptFails \/ AcceptAgain \/ UNCHANGED vars
  BY <1>3 DEF Signal, WatchStop, CloseListener, AcceptFails, AcceptAgain, vars
<1>4. CASE StopMain
  BY <1>4, FreeIsCounted DEF StopMain
<1> QED
  BY <1>2, <1>3, <1>4, HandshakeCounted, CopyingCounted DEF Next, Main

\* In a relay nobody waits in vain (handleConnection: "done := make(chan struct{},
\* 2)"): as long as it waits for a report, one is there or a copy is still to
\* make one, and a copy that has ended finds room to report although nobody
\* receives any more.  RelayEnds adds that all of them do go on, but for a copy
\* that is blocked in a Write to a peer that does not read.
THEOREM RelayNeverStuck == Spec => []RelayGoesOn
<1> DEFINE I == \A d \in Conns : Counted(conn[d])
<1>1. Init => I
  BY FreeIsCounted DEF Init
<1>2. Inv /\ I /\ [Next]_vars => I'
  BY NextCounted
<1>3. Inv /\ I => RelayGoesOn
  <2> SUFFICES ASSUME Inv, I, NEW c \in Conns
               PROVE  /\ At(c, "relay") => \/ conn[c].done > 0
                                           \/ conn[c].up \in {"copying", "writing", "ended"}
                                           \/ conn[c].down \in {"copying", "writing", "ended"}
                      /\ "ended" \in {conn[c].up, conn[c].down} => Room(c)
    BY DEF RelayGoesOn
  <2>1. /\ Counted(conn[c]) /\ conn[c].up \in Copies /\ conn[c].down \in Copies
        /\ conn[c].done \in 0..2
    BY DEF Inv, TypeOK, ConnStates
  <2> QED
    BY <2>1 DEF Counted, Reports, Copies, At, Room
<1> QED
  BY <1>1, <1>2, <1>3, InitInv, NextInv, PTL DEF Spec

\* A signal that comes once the listener is closed is left to main: the other
\* goroutine has had its one (main: "<-stop").  SecondSignalEnds adds that main
\* looks.
THEOREM LaterSignalsAreMains == Spec => []SignalsAreMains
<1>1. Init => SignalsAreMains
  BY DEF Init, SignalsAreMains
<1>2. SignalsAreMains /\ [Next]_vars => SignalsAreMains'
  <2> SUFFICES ASSUME SignalsAreMains, [Next]_vars PROVE SignalsAreMains'
    OBVIOUS
  <2>1. CASE Signal \/ WatchStop \/ CloseListener \/ Main
    BY <2>1 DEF SignalsAreMains, Signal, WatchStop, CloseListener, Main, AcceptFails,
                StopMain, AcceptAgain
  <2>2. CASE UNCHANGED server
    BY <2>2 DEF SignalsAreMains, server
  <2>3. CASE UNCHANGED vars
    BY <2>3 DEF SignalsAreMains, vars
  <2>4. CASE Secrets
    BY <2>2, <2>4 DEF Secrets, AddLogin, DropLogin, AddIP, RemoveIP
  <2>5. ASSUME NEW c \in Conns,
               \/ \E a \in Addresses : Accept(c, a)
               \/ Handshake(c) \/ Copying(c) \/ Peers(c)
        PROVE  UNCHANGED server
    BY <2>5 DEF Accept, Handshake, Dial, Greet, NoAnswer, ReadAnswer, Lookup, Check,
                Forward, Copying, EndUp, EndDown, ReportUp, ReportDown, Return, Forget,
                Peers, ClientShuts, VtgateShuts, BreakUp, BreakDown,
                BlockUp, BlockDown, VtgateReads, ClientReads
  <2> QED
    BY <2>1, <2>2, <2>3, <2>4, <2>5 DEF Next
<1> QED
  BY <1>1, <1>2, PTL DEF Spec
=============================================================================
