--------------------------- MODULE SessionsProofs ---------------------------
(***************************************************************************)
(* What Sessions keeps for any clients, connections and addresses: its     *)
(* types, that the default session is registered and every registered      *)
(* session watched, and, when a remote address is not used again while the *)
(* server remembers it, that every live session is registered.             *)
(***************************************************************************)
EXTENDS Sessions, TLAPS

\* What the goroutines of a connection know at each of their steps.
ConnKnows ==
    \A s \in Conns :
        /\ conn[s].hb # "none" => conn[s].addr \in Addrs
        /\ conn[s].hb = "probe" => conn[s].fail \in 0..2
        /\ conn[s].alert => conn[s].hb = "none"

TypeInv == TypeOK /\ ConnKnows

\* A slot without a connection is a well-typed one.
LEMMA FreeConnType ==
  /\ FreeConn \in ConnType
  /\ FreeConn.hb = "none" /\ FreeConn.link = "dead" /\ ~FreeConn.alert
BY DEF FreeConn, ConnType

\* A client without a connection is a well-typed one.
LEMMA WithoutType ==
  ASSUME NEW pc \in {"dial", "backoff", "up", "gone"}
  PROVE  Without(pc) \in ClientType
BY DEF Without, ClientType

\* The initial states are well typed.
LEMMA TypeInvInit == Init => TypeInv
<1> SUFFICES ASSUME Init PROVE TypeInv
  OBVIOUS
<1>1. closing \in Nat
  BY DEF Init
<1>2. TypeOK
  BY <1>1, FreeConnType, WithoutType DEF Init, TypeOK
<1>3. ConnKnows
  BY DEF Init, ConnKnows, FreeConn, Without
<1>4. QED
  BY <1>2, <1>3 DEF TypeInv

-----------------------------------------------------------------------------
(* What a step does to the connections.                                     *)

\* A connection is accepted in slot s from address a.
Accepted(s, a) ==
    /\ conn[s] = FreeConn
    /\ AddrFree(a)
    /\ conn' \in [Conns -> ConnType]
    /\ \A t \in Conns \ {s} : conn'[t] = conn[t]
    /\ conn'[s].addr = a /\ conn'[s].hb = "probe" /\ conn'[s].fail = 0 /\ ~conn'[s].alert
    /\ sessions' = [sessions EXCEPT ![a] = s]
    /\ defaultID' = a

\* No goroutine of a connection moves: links may die.
LinksOnly ==
    /\ conn' \in [Conns -> ConnType]
    /\ \A t \in Conns :
          /\ conn'[t].addr = conn[t].addr /\ conn'[t].hb = conn[t].hb
          /\ conn'[t].fail = conn[t].fail /\ conn'[t].alert = conn[t].alert
          /\ conn'[t].link = "up" => conn[t].link = "up"
    /\ UNCHANGED <<sessions, defaultID>>

\* Accept registers one connection from an address nobody else has.
LEMMA AcceptIs ==
  ASSUME TypeInv, NEW s \in Conns, NEW link \in {"up", "dead"}, Accept(s, link)
  PROVE  \E a \in Addrs : Accepted(s, a)
<1>1. PICK a \in Addrs :
         /\ AddrFree(a)
         /\ conn' = [conn EXCEPT ![s] = [FreeConn EXCEPT !.addr = a, !.link = link,
                                                         !.hb = "probe"]]
         /\ sessions' = [sessions EXCEPT ![a] = s]
         /\ defaultID' = a
  BY DEF Accept
<1> DEFINE x == [FreeConn EXCEPT !.addr = a, !.link = link, !.hb = "probe"]
<1>2. x \in ConnType /\ x.addr = a /\ x.hb = "probe" /\ x.fail = 0 /\ ~x.alert
  <2>1. x \in ConnType
    <3>1. ASSUME NEW v \in ConnType
          PROVE  [v EXCEPT !.addr = a, !.link = link, !.hb = "probe"] \in ConnType
      BY DEF ConnType
    <3>2. QED
      BY <3>1, FreeConnType
  <2>2. x.addr = a /\ x.hb = "probe" /\ x.fail = 0
    BY DEF FreeConn
  <2>3. ~x.alert
    BY DEF FreeConn
  <2>4. QED
    BY <2>1, <2>2, <2>3
<1>3. conn' = [conn EXCEPT ![s] = x]
  BY <1>1
<1> HIDE DEF x
<1>4. conn[s] = FreeConn
  BY DEF Accept, Free
<1>5. Accepted(s, a)
  BY <1>1, <1>2, <1>3, <1>4 DEF Accepted, TypeInv, TypeOK
<1>6. QED
  BY <1>5

\* An accepted connection keeps the types.
LEMMA AcceptedType ==
  ASSUME TypeInv, NEW s \in Conns, NEW a \in Addrs, Accepted(s, a)
  PROVE  /\ conn' \in [Conns -> ConnType] /\ ConnKnows'
         /\ sessions' \in [Addrs -> Conns \cup {Nil}]
         /\ defaultID' \in Addrs \cup {Nil}
BY DEF Accepted, TypeInv, TypeOK, ConnKnows

\* A dying link keeps the types.
LEMMA LinksOnlyType ==
  ASSUME TypeInv, LinksOnly
  PROVE  /\ conn' \in [Conns -> ConnType] /\ ConnKnows'
         /\ sessions' \in [Addrs -> Conns \cup {Nil}]
         /\ defaultID' \in Addrs \cup {Nil}
BY DEF LinksOnly, TypeInv, TypeOK, ConnKnows

\* What a client, the service or the network does to the connections.
LEMMA OutsideIs ==
  ASSUME TypeInv,
         \/ SvcStart \/ SvcStop \/ CloseControlPort \/ CloseDefault
         \/ \E c \in Clients : ClientStep(c)
         \/ Environment
  PROVE  LinksOnly \/ \E s \in Conns, a \in Addrs : Accepted(s, a)
<1> USE DEF TypeInv
<1>1. ASSUME UNCHANGED <<conn, sessions, defaultID>>
      PROVE  LinksOnly
  BY <1>1 DEF LinksOnly, TypeOK
<1>2. ASSUME NEW D \in SUBSET Conns, UNCHANGED <<sessions, defaultID>>,
             conn' = [s \in Conns |-> IF s \in D THEN [conn[s] EXCEPT !.link = "dead"]
                                      ELSE conn[s]]
      PROVE  LinksOnly
  <2>1. ASSUME NEW s \in Conns
        PROVE  /\ [conn[s] EXCEPT !.link = "dead"] \in ConnType
               /\ [conn[s] EXCEPT !.link = "dead"].addr = conn[s].addr
               /\ [conn[s] EXCEPT !.link = "dead"].hb = conn[s].hb
               /\ [conn[s] EXCEPT !.link = "dead"].fail = conn[s].fail
               /\ [conn[s] EXCEPT !.link = "dead"].alert = conn[s].alert
               /\ [conn[s] EXCEPT !.link = "dead"].link = "dead"
    BY DEF TypeOK, ConnType
  <2>2. QED
    BY <1>2, <2>1 DEF LinksOnly, TypeOK
<1>3. CASE SvcStart \/ SvcStop \/ CloseControlPort
  BY <1>1, <1>3 DEF SvcStart, SvcStop, CloseControlPort
<1>4. CASE CloseDefault
  <2> DEFINE D == {s \in Conns : s = DefaultSession}
  <2>1. conn' = [s \in Conns |-> IF s \in D THEN [conn[s] EXCEPT !.link = "dead"]
                                 ELSE conn[s]]
    BY <1>4 DEF CloseDefault
  <2>2. QED
    BY <1>2, <1>4, <2>1 DEF CloseDefault
<1>5. ASSUME NEW c \in Clients, ClientStep(c)
      PROVE  LinksOnly \/ \E s \in Conns, a \in Addrs : Accepted(s, a)
  <2>1. CASE DialOK(c)
    BY <2>1, AcceptIs DEF DialOK
  <2>2. CASE DialFail(c)
    BY <2>2, <1>1, AcceptIs DEF DialFail
  <2>3. CASE Backoff(c) \/ Redial(c)
    BY <2>3, <1>1 DEF Backoff, Redial
  <2>4. QED
    BY <1>5, <2>1, <2>2, <2>3 DEF ClientStep
<1>6. ASSUME NEW s \in Conns, LinkDies(s)
      PROVE  LinksOnly
  <2>1. conn' = [t \in Conns |-> IF t \in {s} THEN [conn[t] EXCEPT !.link = "dead"]
                                 ELSE conn[t]]
    BY <1>6 DEF LinkDies, TypeOK
  <2>2. QED
    BY <1>2, <1>6, <2>1 DEF LinkDies
<1>7. ASSUME NEW c \in Clients, ClientEnds(c)
      PROVE  LinksOnly
  <2> DEFINE D == {s \in Conns : s = client[c].conn}
  <2>1. conn' = [s \in Conns |-> IF s \in D THEN [conn[s] EXCEPT !.link = "dead"]
                                 ELSE conn[s]]
    BY <1>7 DEF ClientEnds
  <2>2. QED
    BY <1>2, <1>7, <2>1 DEF ClientEnds
<1>8. CASE Stabilise \/ \E c \in Clients : ClientStarts(c)
  BY <1>1, <1>8 DEF Stabilise, ClientStarts
<1>9. QED
  BY <1>3, <1>4, <1>5, <1>6, <1>7, <1>8 DEF Environment

-----------------------------------------------------------------------------
(* Types.                                                                   *)

\* Every step keeps the clients well typed.
LEMMA ClientTypeStep ==
  ASSUME TypeInv, [Next]_vars
  PROVE  client' \in [Clients -> ClientType]
<1> USE DEF TypeInv, TypeOK
<1>1. ASSUME UNCHANGED client
      PROVE  client' \in [Clients -> ClientType]
  BY <1>1
<1>2. ASSUME NEW c \in Clients, ClientStep(c) \/ ClientEnds(c) \/ ClientStarts(c)
      PROVE  client' \in [Clients -> ClientType]
  <2>1. CASE DialOK(c)
    <3>1. PICK s \in Conns : client' = [client EXCEPT ![c] = [pc |-> "up", conn |-> s]]
      BY <2>1 DEF DialOK
    <3>2. [pc |-> "up", conn |-> s] \in ClientType
      BY DEF ClientType
    <3>3. QED
      BY <3>1, <3>2
  <2>2. CASE DialFail(c)
    <3>1. [client[c] EXCEPT !.pc = "backoff"] \in ClientType
      BY DEF ClientType
    <3>2. client' = [client EXCEPT ![c] = [client[c] EXCEPT !.pc = "backoff"]]
      BY <2>2 DEF DialFail
    <3>3. QED
      BY <3>1, <3>2
  <2>3. CASE Backoff(c) \/ Redial(c) \/ ClientEnds(c) \/ ClientStarts(c)
    BY <2>3, WithoutType DEF Backoff, Redial, ClientEnds, ClientStarts
  <2>4. QED
    BY <1>2, <2>1, <2>2, <2>3 DEF ClientStep
<1>3. CASE SvcStart \/ SvcStop \/ CloseControlPort \/ CloseDefault \/ Stabilise
  BY <1>1, <1>3 DEF SvcStart, SvcStop, CloseControlPort, CloseDefault, Stabilise
<1>4. CASE \E s \in Conns : Heartbeat(s) \/ Alert(s) \/ LinkDies(s)
  BY <1>1, <1>4 DEF Heartbeat, ProbeOK, ProbeFail, RemoveSession, CloseSession,
                    PublishDisconnected, Alert, LinkDies
<1>5. CASE UNCHANGED vars
  BY <1>1, <1>5 DEF vars
<1>6. QED
  BY <1>2, <1>3, <1>4, <1>5 DEF Next, Environment

\* Every step keeps the flags Boolean.
LEMMA FlagsType ==
  ASSUME TypeInv, [Next]_vars
  PROVE  isRun' \in BOOLEAN /\ ctlOpen' \in BOOLEAN /\ closing' \in Nat
           /\ stable' \in BOOLEAN
<1> DEFINE Same == UNCHANGED <<isRun, ctlOpen, closing, stable>>
<1>1. isRun \in BOOLEAN /\ ctlOpen \in BOOLEAN /\ closing \in Nat /\ stable \in BOOLEAN
  BY DEF TypeInv, TypeOK
<1>2. CASE SvcStart \/ SvcStop \/ CloseControlPort \/ CloseDefault \/ Stabilise
  <2>1. closing' \in Nat
    BY <1>1, <1>2, SMT DEF SvcStart, SvcStop, CloseControlPort, CloseDefault, Stabilise
  <2>2. isRun' \in BOOLEAN /\ ctlOpen' \in BOOLEAN /\ stable' \in BOOLEAN
    BY <1>1, <1>2, Zenon DEF SvcStart, SvcStop, CloseControlPort, CloseDefault, Stabilise
  <2>3. QED
    BY <2>1, <2>2
<1>3. ASSUME NEW c \in Clients, ClientStep(c) \/ ClientEnds(c) \/ ClientStarts(c)
      PROVE  Same
  BY <1>3 DEF ClientStep, DialOK, DialFail, Backoff, Redial, ClientEnds, ClientStarts
<1>4. ASSUME NEW s \in Conns, Heartbeat(s) \/ Alert(s) \/ LinkDies(s)
      PROVE  Same
  BY <1>4 DEF Heartbeat, ProbeOK, ProbeFail, RemoveSession, CloseSession,
              PublishDisconnected, Alert, LinkDies
<1>5. CASE UNCHANGED vars
  BY <1>1, <1>5 DEF vars
<1>6. QED
  BY <1>1, <1>2, <1>3, <1>4, <1>5 DEF Next, Environment

\* What the goroutines of connection s do to it, by cases of where it stands.
Probed(s) ==
    /\ conn[s].hb = "probe" /\ conn'[s].addr = conn[s].addr /\ ~conn'[s].alert
    /\ conn'[s].link = conn[s].link
    /\ \/ conn'[s].hb = "probe" /\ conn'[s].fail \in 0..2
       \/ conn'[s].hb = "remove"
    /\ UNCHANGED <<sessions, defaultID>>

Removed(s) ==
    /\ conn[s].hb = "remove" /\ conn'[s].hb = "close"
    /\ conn'[s].addr = conn[s].addr /\ ~conn'[s].alert
    /\ sessions' = [sessions EXCEPT ![conn[s].addr] = Nil]
    /\ defaultID' = IF defaultID = conn[s].addr THEN Nil ELSE defaultID

Ended(s) ==
    /\ conn[s].hb \in {"close", "publish"} \/ conn[s].alert
    /\ conn'[s].hb \in {"none", "publish"}
    /\ conn'[s].hb = "publish" => conn'[s].addr = conn[s].addr /\ conn[s].hb = "close"
    /\ conn'[s].alert => conn'[s].hb = "none"
    /\ UNCHANGED <<sessions, defaultID>>

\* A goroutine of a connection touches that connection only, in one of three ways.
LEMMA HeartbeatIs ==
  ASSUME TypeInv, NEW s \in Conns, Heartbeat(s) \/ Alert(s)
  PROVE  /\ conn' \in [Conns -> ConnType]
         /\ \A t \in Conns \ {s} : conn'[t] = conn[t]
         /\ Probed(s) \/ Removed(s) \/ Ended(s)
<1> USE DEF TypeInv
<1>1. ASSUME NEW x \in ConnType, conn' = [conn EXCEPT ![s] = x]
      PROVE  /\ conn' \in [Conns -> ConnType]
             /\ \A t \in Conns \ {s} : conn'[t] = conn[t]
             /\ conn'[s] = x
  BY <1>1 DEF TypeOK
<1>2. conn[s] \in ConnType /\ (conn[s].alert => conn[s].hb = "none")
  BY DEF TypeOK, ConnKnows
<1>3. CASE ProbeOK(s)
  <2> DEFINE x == [conn[s] EXCEPT !.fail = 0]
  <2>1. x \in ConnType /\ x.addr = conn[s].addr /\ x.hb = conn[s].hb /\ x.fail = 0
          /\ x.link = conn[s].link /\ x.alert = conn[s].alert
    BY <1>2 DEF ConnType
  <2>2. conn' = [conn EXCEPT ![s] = x]
    BY <1>3 DEF ProbeOK
  <2> HIDE DEF x
  <2>3. conn'[s] = x /\ ~x.alert
    BY <1>1, <1>2, <1>3, <2>1, <2>2 DEF ProbeOK
  <2>4. conn'[s].fail \in 0..2
    BY <2>1, <2>3
  <2>5. Probed(s)
    BY <1>3, <2>1, <2>3, <2>4 DEF ProbeOK, Probed
  <2>6. QED
    BY <1>1, <2>1, <2>2, <2>5
<1>4. CASE ProbeFail(s)
  <2> DEFINE n == conn[s].fail + 1
             x == [conn[s] EXCEPT !.fail = n, !.hb = IF n >= 3 THEN "remove" ELSE "probe"]
  <2>1. n \in 1..3
    BY <1>4 DEF ProbeFail, ConnKnows
  <2>2. /\ x \in ConnType /\ x.addr = conn[s].addr /\ x.fail = n
        /\ x.hb = (IF n >= 3 THEN "remove" ELSE "probe")
        /\ x.link = conn[s].link /\ x.alert = conn[s].alert
    <3> DEFINE h == IF n >= 3 THEN "remove" ELSE "probe"
    <3>1. n \in 0..3 /\ h \in {"remove", "probe"}
      BY <2>1
    <3> HIDE DEF n, h
    <3>2. [conn[s] EXCEPT !.fail = n, !.hb = h] \in ConnType
      BY <1>2, <3>1 DEF ConnType
    <3>3. /\ x = [conn[s] EXCEPT !.fail = n, !.hb = h]
          /\ h = IF n >= 3 THEN "remove" ELSE "probe"
      BY DEF h
    <3>4. QED
      BY <1>2, <3>2, <3>3 DEF ConnType
  <2>3. conn' = [conn EXCEPT ![s] = x]
    BY <1>4 DEF ProbeFail, TypeOK
  <2> HIDE DEF x, n
  <2>4. conn'[s] = x /\ ~x.alert
    BY <1>1, <1>2, <1>4, <2>2, <2>3 DEF ProbeFail
  <2>5. (conn'[s].hb = "probe" /\ conn'[s].fail \in 0..2) \/ conn'[s].hb = "remove"
    BY <2>1, <2>2, <2>4
  <2>6. Probed(s)
    BY <1>4, <2>2, <2>4, <2>5 DEF ProbeFail, Probed
  <2>7. QED
    BY <1>1, <2>2, <2>3, <2>6
<1>5. CASE RemoveSession(s)
  <2> DEFINE x == [conn[s] EXCEPT !.hb = "close"]
  <2>1. x \in ConnType /\ x.addr = conn[s].addr /\ x.hb = "close" /\ x.alert = conn[s].alert
    BY <1>2 DEF ConnType
  <2>2. conn' = [conn EXCEPT ![s] = x]
    BY <1>5 DEF RemoveSession
  <2> HIDE DEF x
  <2>3. QED
    BY <1>1, <1>2, <1>5, <2>1, <2>2 DEF RemoveSession, Removed
<1>6. CASE CloseSession(s)
  <2> DEFINE x == [conn[s] EXCEPT !.link = "dead", !.hb = "publish"]
  <2>1. x \in ConnType /\ x.addr = conn[s].addr /\ x.hb = "publish" /\ x.alert = conn[s].alert
    BY <1>2 DEF ConnType
  <2>2. conn' = [conn EXCEPT ![s] = x]
    BY <1>6 DEF CloseSession, TypeOK
  <2> HIDE DEF x
  <2>3. QED
    BY <1>1, <1>2, <1>6, <2>1, <2>2 DEF CloseSession, Ended
<1>7. CASE PublishDisconnected(s)
  <2> DEFINE x == [conn[s] EXCEPT !.hb = "none", !.alert = TRUE]
  <2>1. x \in ConnType /\ x.hb = "none"
    BY <1>2 DEF ConnType
  <2>2. conn' = [conn EXCEPT ![s] = x]
    BY <1>7 DEF PublishDisconnected, TypeOK
  <2> HIDE DEF x
  <2>3. QED
    BY <1>1, <1>7, <2>1, <2>2 DEF PublishDisconnected, Ended
<1>8. CASE Alert(s)
  <2> DEFINE x == [FreeConn EXCEPT !.link = conn[s].link]
  <2>1. x \in ConnType /\ x.hb = "none"
    <3>1. ASSUME NEW v \in ConnType
          PROVE  /\ [v EXCEPT !.link = conn[s].link] \in ConnType
                 /\ [v EXCEPT !.link = conn[s].link].hb = v.hb
      BY <1>2 DEF ConnType
    <3>2. QED
      BY <3>1, FreeConnType
  <2>2. conn' = [conn EXCEPT ![s] = x]
    BY <1>8 DEF Alert
  <2> HIDE DEF x
  <2>3. QED
    BY <1>1, <1>8, <2>1, <2>2 DEF Alert, Ended
<1>9. QED
  BY <1>3, <1>4, <1>5, <1>6, <1>7, <1>8 DEF Heartbeat

\* Every step keeps the types.
LEMMA TypeInvStep == TypeInv /\ [Next]_vars => TypeInv'
<1> SUFFICES ASSUME TypeInv, [Next]_vars PROVE TypeInv'
  OBVIOUS
<1>1. /\ conn' \in [Conns -> ConnType] /\ ConnKnows'
      /\ sessions' \in [Addrs -> Conns \cup {Nil}]
      /\ defaultID' \in Addrs \cup {Nil}
  <2>1. CASE UNCHANGED vars
    BY <2>1 DEF vars, TypeInv, TypeOK, ConnKnows
  <2>2. ASSUME NEW s \in Conns, Heartbeat(s) \/ Alert(s)
        PROVE  /\ conn' \in [Conns -> ConnType] /\ ConnKnows'
               /\ sessions' \in [Addrs -> Conns \cup {Nil}]
               /\ defaultID' \in Addrs \cup {Nil}
    <3>1. ConnKnows'
      BY <2>2, HeartbeatIs DEF TypeInv, ConnKnows, Probed, Removed, Ended
    <3>2. /\ sessions' \in [Addrs -> Conns \cup {Nil}]
          /\ defaultID' \in Addrs \cup {Nil}
      BY <2>2, HeartbeatIs DEF TypeInv, TypeOK, Probed, Removed, Ended
    <3>3. QED
      BY <2>2, <3>1, <3>2, HeartbeatIs
  <2>3. QED
    BY <2>1, <2>2, OutsideIs, LinksOnlyType, AcceptedType DEF Next
<1>2. QED
  BY <1>1, ClientTypeStep, FlagsType DEF TypeInv, TypeOK

\* Every variable keeps its type: a heartbeat counts three failures at most,
\* and no goroutine of a connection works without its address.
THEOREM TypeCorrect == Spec => []TypeOK
<1>1. TypeInv => TypeOK
  BY DEF TypeInv
<1>2. QED
  BY TypeInvInit, TypeInvStep, <1>1, PTL DEF Spec

-----------------------------------------------------------------------------
(* The table of sessions.                                                   *)

TableInv == TypeInv /\ DefaultIsRegistered /\ RegisteredIsWatched

\* The table is empty before the first connection.
LEMMA TableInvInit == Init => TableInv
BY TypeInvInit DEF Init, TableInv, DefaultIsRegistered, RegisteredIsWatched

\* Every step keeps the default registered and the registered watched.
LEMMA TableInvStep == TableInv /\ [Next]_vars => TableInv'
<1> SUFFICES ASSUME TableInv, [Next]_vars PROVE TableInv'
  OBVIOUS
<1> USE DEF TableInv
<1>1. TypeInv'
  BY TypeInvStep
<1>2. DefaultIsRegistered' /\ RegisteredIsWatched'
  <2>1. CASE UNCHANGED vars
    BY <2>1 DEF vars, DefaultIsRegistered, RegisteredIsWatched
  <2>2. CASE LinksOnly
    BY <2>2 DEF LinksOnly, DefaultIsRegistered, RegisteredIsWatched, TypeInv, TypeOK
  <2>3. ASSUME NEW s \in Conns, NEW a \in Addrs, Accepted(s, a)
        PROVE  DefaultIsRegistered' /\ RegisteredIsWatched'
    <3>1. conn[s].hb = "none" /\ s # Nil
      BY <2>3, FreeConnType, NilAssumption DEF Accepted
    <3>2. \A b \in Addrs : sessions'[b] = IF b = a THEN s ELSE sessions[b]
      BY <2>3 DEF Accepted, TypeInv, TypeOK
    <3>3. \A b \in Addrs : sessions[b] # s
      BY <3>1 DEF RegisteredIsWatched
    <3>4. DefaultIsRegistered'
      BY <2>3, <3>1, <3>2 DEF Accepted, DefaultIsRegistered
    <3>5. RegisteredIsWatched'
      BY <2>3, <3>2, <3>3 DEF Accepted, RegisteredIsWatched, TypeInv, TypeOK
    <3>6. QED
      BY <3>4, <3>5
  <2>4. ASSUME NEW s \in Conns, Heartbeat(s) \/ Alert(s)
        PROVE  DefaultIsRegistered' /\ RegisteredIsWatched'
    <3>1. CASE Probed(s)
      BY <2>4, <3>1, HeartbeatIs
         DEF Probed, DefaultIsRegistered, RegisteredIsWatched, TypeInv, TypeOK
    <3>2. CASE Removed(s)
      <4>1. conn[s].addr \in Addrs
        BY <3>2 DEF Removed, TypeInv, ConnKnows
      <4>2. \A b \in Addrs : sessions'[b] = IF b = conn[s].addr THEN Nil ELSE sessions[b]
        BY <3>2, <4>1 DEF Removed, TypeInv, TypeOK
      <4>3. DefaultIsRegistered'
        BY <3>2, <4>1, <4>2 DEF Removed, DefaultIsRegistered, TypeInv, TypeOK
      <4>4. RegisteredIsWatched'
        BY <2>4, <4>1, <4>2, HeartbeatIs DEF RegisteredIsWatched, TypeInv, TypeOK
      <4>5. QED
        BY <4>3, <4>4
    <3>3. CASE Ended(s)
      <4>1. \A b \in Addrs : sessions[b] # s
        <5>1. conn[s].hb \notin {"probe", "remove"}
          BY <3>3 DEF Ended, TypeInv, ConnKnows
        <5>2. s # Nil
          BY NilAssumption
        <5>3. QED
          BY <5>1, <5>2 DEF RegisteredIsWatched
      <4>2. QED
        BY <2>4, <3>3, <4>1, HeartbeatIs
           DEF Ended, DefaultIsRegistered, RegisteredIsWatched, TypeInv, TypeOK
    <3>4. QED
      BY <2>4, <3>1, <3>2, <3>3, HeartbeatIs
  <2>5. QED
    BY <2>1, <2>2, <2>3, <2>4, OutsideIs DEF Next
<1>3. QED
  BY <1>1, <1>2

\* Public connections are never sent to a session that the server has given
\* up, even when a remote address is used again.
THEOREM DefaultRegistered == Spec => []DefaultIsRegistered
<1>1. TableInv => DefaultIsRegistered
  BY DEF TableInv
<1>2. QED
  BY TableInvInit, TableInvStep, <1>1, PTL DEF Spec

\* Every registered session is watched by its own heartbeat.
THEOREM RegisteredWatched == Spec => []RegisteredIsWatched
<1>1. TableInv => RegisteredIsWatched
  BY DEF TableInv
<1>2. QED
  BY TableInvInit, TableInvStep, <1>1, PTL DEF Spec

-----------------------------------------------------------------------------
(* A live session stays registered if no address is used twice.             *)

WatchedIsRegistered ==
    \A s \in Conns : conn[s].hb \in {"probe", "remove"} => sessions[conn[s].addr] = s

\* A watched session loses its entry to nobody, if no address is used twice.
LEMMA WatchedIsRegisteredStep ==
  ASSUME AddrReuse = FALSE, TableInv, WatchedIsRegistered, [Next]_vars
  PROVE  WatchedIsRegistered'
<1> USE DEF TableInv
<1>1. CASE UNCHANGED vars
  BY <1>1 DEF vars, WatchedIsRegistered
<1>2. CASE LinksOnly
  BY <1>2 DEF LinksOnly, WatchedIsRegistered
<1>3. ASSUME NEW s \in Conns, NEW a \in Addrs, Accepted(s, a)
      PROVE  WatchedIsRegistered'
  <2>1. \A b \in Addrs : sessions'[b] = IF b = a THEN s ELSE sessions[b]
    BY <1>3 DEF Accepted, TypeInv, TypeOK
  <2>2. \A t \in Conns : conn[t].addr # a
    BY <1>3 DEF Accepted, AddrFree
  <2>3. \A t \in Conns \ {s} :
           /\ conn'[t] = conn[t]
           /\ conn[t].hb # "none" => conn[t].addr \in Addrs \ {a}
    BY <1>3, <2>2 DEF Accepted, TypeInv, ConnKnows
  <2>4. conn'[s].addr = a
    BY <1>3 DEF Accepted
  <2>5. QED
    BY <2>1, <2>3, <2>4 DEF WatchedIsRegistered
<1>4. ASSUME NEW s \in Conns, Heartbeat(s) \/ Alert(s)
      PROVE  WatchedIsRegistered'
  <2>1. \A t \in Conns \ {s} : conn'[t] = conn[t]
    BY <1>4, HeartbeatIs
  <2>2. CASE Probed(s)
    BY <2>1, <2>2 DEF Probed, WatchedIsRegistered
  <2>3. CASE Removed(s)
    <3>1. sessions[conn[s].addr] = s /\ conn[s].addr \in Addrs
      BY <2>3 DEF Removed, WatchedIsRegistered, TypeInv, ConnKnows
    <3>2. \A b \in Addrs \ {conn[s].addr} : sessions'[b] = sessions[b]
      BY <2>3 DEF Removed, TypeInv, TypeOK
    <3>3. ASSUME NEW t \in Conns \ {s}, conn[t].hb \in {"probe", "remove"}
          PROVE  sessions'[conn[t].addr] = t
      <4>1. sessions[conn[t].addr] = t /\ conn[t].addr \in Addrs
        BY <3>3 DEF WatchedIsRegistered, TypeInv, ConnKnows
      <4>2. conn[t].addr # conn[s].addr
        BY <3>1, <4>1
      <4>3. QED
        BY <3>2, <4>1, <4>2
    <3>4. QED
      BY <2>1, <2>3, <3>3 DEF Removed, WatchedIsRegistered
  <2>4. CASE Ended(s)
    BY <2>1, <2>4 DEF Ended, WatchedIsRegistered
  <2>5. QED
    BY <1>4, <2>2, <2>3, <2>4, HeartbeatIs
<1>5. QED
  BY <1>1, <1>2, <1>3, <1>4, OutsideIs DEF Next

\* A connected client whose heartbeat has not given up is registered, if no
\* connection comes from an address the server still remembers.
THEOREM ConnectedRegistered ==
  ASSUME AddrReuse = FALSE
  PROVE  Spec => []ConnectedIsRegistered
<1>1. Init => TableInv /\ WatchedIsRegistered
  BY TableInvInit, FreeConnType DEF Init, WatchedIsRegistered
<1>2. TableInv /\ WatchedIsRegistered /\ [Next]_vars => (TableInv /\ WatchedIsRegistered)'
  BY TableInvStep, WatchedIsRegisteredStep
<1>3. TableInv /\ WatchedIsRegistered => ConnectedIsRegistered
  BY DEF WatchedIsRegistered, ConnectedIsRegistered
<1>4. QED
  BY <1>1, <1>2, <1>3, PTL DEF Spec
=============================================================================
