------------------------------ MODULE Sessions ------------------------------
(***************************************************************************)
(* The control side of the tunnel: clients dial the control port, back off *)
(* and redial (client.Start); the server registers a smux session for each *)
(* connection it accepts, makes the latest one the default that carries    *)
(* all public traffic, and probes each with a heartbeat goroutine that     *)
(* removes it after three failures in a row (waitControlConn,              *)
(* startHeartbeat).                                                        *)
(*                                                                         *)
(* A session is registered as soon as its TCP connection is accepted: the  *)
(* TLS handshake runs afterwards, so a connection whose handshake fails is *)
(* registered too.  The state of the link is one for both ends; each end   *)
(* finds out in a step of its own.  Certificates and the data streams are  *)
(* left out, and so is the length of a client's backoff, on which no step  *)
(* depends.  A start is taken at its Listen, which finds the old control   *)
(* port closed (otherwise it panics: Service); the old Controller may have *)
(* its default session still to close, and closes the new one's then.      *)
(*                                                                         *)
(* While `stable` is FALSE the network may drop links, delay answers and   *)
(* refuse connections, and clients may be restarted or leave; it becomes   *)
(* TRUE at most once and stays so.                                         *)
(*                                                                         *)
(* Bounds: Conns and Addrs are slots, reused when nothing refers to them;  *)
(* Controllers is how many are started before the oldest is done.          *)
(***************************************************************************)
EXTENDS Naturals

CONSTANTS
    Clients,
    Conns,      \* connections, with their sessions and heartbeats (slots)
    Addrs,      \* remote addresses: a session's ClientID
    Controllers,
    AddrReuse,  \* a new connection may come from the address of a dead one
    Nil

ASSUME NilAssumption == Nil \notin Conns \cup Addrs
ASSUME ControllersAssumption == Controllers \in Nat \ {0}
ASSUME AddrReuseAssumption == AddrReuse \in BOOLEAN

VARIABLES
    conn,       \* conn[s]: a connection and the goroutines that serve it
    client,     \* client[c]: the loop of a client
    sessions,   \* Manager.sessions: address -> connection
    defaultID,  \* Manager.defaultID, Nil: ""
    isRun,      \* the service is running
    ctlOpen,    \* the control port is open
    closing,    \* how many Controller.Start are about to close the default session
    stable

vars == <<conn, client, sessions, defaultID, isRun, ctlOpen, closing, stable>>

FreeConn == [addr |-> Nil, link |-> "dead", hb |-> "none", fail |-> 0, alert |-> FALSE]
Without(pc) == [pc |-> pc, conn |-> Nil]    \* a client without a connection

ConnType == [addr : Addrs \cup {Nil}, link : {"up", "dead"},
             hb : {"none", "probe", "remove", "close", "publish"},
             fail : 0..3, alert : BOOLEAN]
ClientType == [pc : {"dial", "backoff", "up", "gone"}, conn : Conns \cup {Nil}]

TypeOK ==
    /\ conn \in [Conns -> ConnType]
    /\ client \in [Clients -> ClientType]
    /\ sessions \in [Addrs -> Conns \cup {Nil}]
    /\ defaultID \in Addrs \cup {Nil}
    /\ isRun \in BOOLEAN
    /\ ctlOpen \in BOOLEAN
    /\ closing \in Nat
    /\ stable \in BOOLEAN

Init ==
    /\ conn = [s \in Conns |-> FreeConn]
    /\ client \in [Clients -> {Without("dial"), Without("gone")}]
    /\ sessions = [a \in Addrs |-> Nil]
    /\ defaultID = Nil
    /\ isRun = FALSE
    /\ ctlOpen = FALSE
    /\ closing = 0
    /\ stable = FALSE

-----------------------------------------------------------------------------
(* The service.                                                             *)

SvcStart ==
    /\ ~isRun /\ ~ctlOpen /\ closing < Controllers
    /\ isRun' = TRUE
    /\ ctlOpen' = TRUE
    /\ UNCHANGED <<conn, client, sessions, defaultID, closing, stable>>

\* Cancelling the context wakes the goroutine that closes the control port
\* and Controller.Start, which closes the default session.
SvcStop ==
    /\ isRun
    /\ isRun' = FALSE
    /\ closing' = closing + 1
    /\ UNCHANGED <<conn, client, sessions, defaultID, ctlOpen, stable>>

CloseControlPort ==
    /\ ~isRun /\ ctlOpen
    /\ ctlOpen' = FALSE
    /\ UNCHANGED <<conn, client, sessions, defaultID, isRun, closing, stable>>

DefaultSession == IF defaultID = Nil THEN Nil ELSE sessions[defaultID]

\* The session stays registered; its heartbeat finds it closed.  By then it may
\* be one that the next Controller has accepted.
CloseDefault ==
    /\ closing > 0
    /\ closing' = closing - 1
    /\ conn' = [s \in Conns |-> IF s = DefaultSession THEN [conn[s] EXCEPT !.link = "dead"]
                                ELSE conn[s]]
    /\ UNCHANGED <<client, sessions, defaultID, isRun, ctlOpen, stable>>

-----------------------------------------------------------------------------
(* A connection is accepted: SetSession, then the heartbeat goroutine.      *)

Free(s) == conn[s] = FreeConn /\ \A c \in Clients : client[c].conn # s

AddrFree(a) ==
    \A s \in Conns : conn[s].addr = a => AddrReuse /\ conn[s].link = "dead"

\* Variant: the first session stays the default one.
Accept_KeepDefault(s, link) ==
    /\ ctlOpen
    /\ Free(s)
    /\ \E a \in Addrs :
          /\ AddrFree(a)
          /\ conn' = [conn EXCEPT ![s] = [FreeConn EXCEPT !.addr = a, !.link = link,
                                                          !.hb = "probe"]]
          /\ sessions' = [sessions EXCEPT ![a] = s]
          /\ defaultID' = IF defaultID = Nil THEN a ELSE defaultID

Accept(s, link) ==
    /\ ctlOpen
    /\ Free(s)
    /\ \E a \in Addrs :
          /\ AddrFree(a)
          /\ conn' = [conn EXCEPT ![s] = [FreeConn EXCEPT !.addr = a, !.link = link,
                                                          !.hb = "probe"]]
          /\ sessions' = [sessions EXCEPT ![a] = s]
          /\ defaultID' = a

-----------------------------------------------------------------------------
(* The client's loop.                                                       *)

DialOK(c) ==
    /\ client[c].pc = "dial"
    /\ \E s \in Conns :
          /\ Accept(s, "up")
          /\ client' = [client EXCEPT ![c] = [pc |-> "up", conn |-> s]]
    /\ UNCHANGED <<isRun, ctlOpen, closing, stable>>

\* The connection is refused or lost; before the handshake completes the
\* server may have accepted and registered it.
DialFail(c) ==
    /\ client[c].pc = "dial"
    /\ \/ /\ ~(ctlOpen /\ stable)
          /\ UNCHANGED <<conn, sessions, defaultID>>
       \/ /\ ~stable
          /\ \E s \in Conns : Accept(s, "dead")
    /\ client' = [client EXCEPT ![c].pc = "backoff"]
    /\ UNCHANGED <<isRun, ctlOpen, closing, stable>>

\* The sleep ends, however long it was.
Backoff(c) ==
    /\ client[c].pc = "backoff"
    /\ client' = [client EXCEPT ![c] = Without("dial")]
    /\ UNCHANGED <<conn, sessions, defaultID, isRun, ctlOpen, closing, stable>>

\* AcceptStream fails: the client redials at once.
Redial(c) ==
    /\ client[c].pc = "up"
    /\ conn[client[c].conn].link = "dead"
    /\ client' = [client EXCEPT ![c] = Without("dial")]
    /\ UNCHANGED <<conn, sessions, defaultID, isRun, ctlOpen, closing, stable>>

-----------------------------------------------------------------------------
(* The heartbeat of a session.                                              *)

\* OpenStream, PING, PONG.
ProbeOK(s) ==
    /\ conn[s].hb = "probe"
    /\ conn[s].link = "up"
    /\ conn' = [conn EXCEPT ![s].fail = 0]
    /\ UNCHANGED <<client, sessions, defaultID, isRun, ctlOpen, closing, stable>>

\* Variant: the session is given up after the fourth failure.
ProbeFail_OffByOne(s) ==
    /\ conn[s].hb = "probe"
    /\ conn[s].link = "dead" \/ ~stable
    /\ conn' = [conn EXCEPT ![s].fail = @ + 1,
                            ![s].hb = IF conn[s].fail + 1 > 3 THEN "remove" ELSE "probe"]
    /\ UNCHANGED <<client, sessions, defaultID, isRun, ctlOpen, closing, stable>>

\* Any of the three fails, or the answer is late.
ProbeFail(s) ==
    /\ conn[s].hb = "probe"
    /\ conn[s].link = "dead" \/ ~stable
    /\ conn' = [conn EXCEPT ![s].fail = @ + 1,
                            ![s].hb = IF conn[s].fail + 1 >= 3 THEN "remove" ELSE "probe"]
    /\ UNCHANGED <<client, sessions, defaultID, isRun, ctlOpen, closing, stable>>

\* Variant: the default stays what it was.
RemoveSession_KeepDefault(s) ==
    /\ conn[s].hb = "remove"
    /\ sessions' = [sessions EXCEPT ![conn[s].addr] = Nil]
    /\ conn' = [conn EXCEPT ![s].hb = "close"]
    /\ UNCHANGED <<client, defaultID, isRun, ctlOpen, closing, stable>>

\* Variant: the default session is removed, whichever one it is.
RemoveSession_Default(s) ==
    /\ conn[s].hb = "remove"
    /\ sessions' = [a \in Addrs |-> IF a = defaultID THEN Nil ELSE sessions[a]]
    /\ defaultID' = Nil
    /\ conn' = [conn EXCEPT ![s].hb = "close"]
    /\ UNCHANGED <<client, isRun, ctlOpen, closing, stable>>

\* Whatever session has the address is removed; no other becomes the default.
RemoveSession(s) ==
    /\ conn[s].hb = "remove"
    /\ sessions' = [sessions EXCEPT ![conn[s].addr] = Nil]
    /\ defaultID' = IF defaultID = conn[s].addr THEN Nil ELSE defaultID
    /\ conn' = [conn EXCEPT ![s].hb = "close"]
    /\ UNCHANGED <<client, isRun, ctlOpen, closing, stable>>

\* Variant: the session is not closed, so the client never learns.
CloseSession_Skipped(s) ==
    /\ conn[s].hb = "close"
    /\ conn' = [conn EXCEPT ![s].hb = "publish"]
    /\ UNCHANGED <<client, sessions, defaultID, isRun, ctlOpen, closing, stable>>

CloseSession(s) ==
    /\ conn[s].hb = "close"
    /\ conn' = [conn EXCEPT ![s].link = "dead", ![s].hb = "publish"]
    /\ UNCHANGED <<client, sessions, defaultID, isRun, ctlOpen, closing, stable>>

\* Variant: the goroutine returns without publishing the event.
PublishDisconnected_Skipped(s) ==
    /\ conn[s].hb = "publish"
    /\ conn' = [conn EXCEPT ![s] = [FreeConn EXCEPT !.link = conn[s].link]]
    /\ UNCHANGED <<client, sessions, defaultID, isRun, ctlOpen, closing, stable>>

\* Publish runs each subscriber in a goroutine of its own.
PublishDisconnected(s) ==
    /\ conn[s].hb = "publish"
    /\ conn' = [conn EXCEPT ![s].hb = "none", ![s].alert = TRUE]
    /\ UNCHANGED <<client, sessions, defaultID, isRun, ctlOpen, closing, stable>>

\* The alert router mails, or has no address to mail to, and nothing on the
\* server refers to the connection any more.
Alert(s) ==
    /\ conn[s].alert
    /\ conn' = [conn EXCEPT ![s] = [FreeConn EXCEPT !.link = conn[s].link]]
    /\ UNCHANGED <<client, sessions, defaultID, isRun, ctlOpen, closing, stable>>

-----------------------------------------------------------------------------
(* The environment.                                                         *)

LinkDies(s) ==
    /\ ~stable
    /\ conn[s].link = "up"
    /\ conn' = [conn EXCEPT ![s].link = "dead"]
    /\ UNCHANGED <<client, sessions, defaultID, isRun, ctlOpen, closing, stable>>

\* The client's process ends, for good or to be started again.
ClientEnds(c) ==
    /\ ~stable
    /\ client[c].pc # "gone"
    /\ conn' = [s \in Conns |-> IF s = client[c].conn THEN [conn[s] EXCEPT !.link = "dead"]
                                ELSE conn[s]]
    /\ client' = [client EXCEPT ![c] = Without("gone")]
    /\ UNCHANGED <<sessions, defaultID, isRun, ctlOpen, closing, stable>>

ClientStarts(c) ==
    /\ ~stable
    /\ client[c].pc = "gone"
    /\ client' = [client EXCEPT ![c] = Without("dial")]
    /\ UNCHANGED <<conn, sessions, defaultID, isRun, ctlOpen, closing, stable>>

Stabilise ==
    /\ ~stable
    /\ stable' = TRUE
    /\ UNCHANGED <<conn, client, sessions, defaultID, isRun, ctlOpen, closing>>

-----------------------------------------------------------------------------
ClientStep(c) == DialOK(c) \/ DialFail(c) \/ Backoff(c) \/ Redial(c)

Heartbeat(s) ==
    \/ ProbeOK(s) \/ ProbeFail(s)
    \/ RemoveSession(s) \/ CloseSession(s) \/ PublishDisconnected(s)

Environment ==
    \/ \E s \in Conns : LinkDies(s)
    \/ \E c \in Clients : ClientEnds(c) \/ ClientStarts(c)
    \/ Stabilise

Next ==
    \/ SvcStart \/ SvcStop \/ CloseControlPort \/ CloseDefault
    \/ \E c \in Clients : ClientStep(c)
    \/ \E s \in Conns : Heartbeat(s) \/ Alert(s)
    \/ Environment

\* Goroutines and client loops run; nobody has to stop or start the service.
Fairness ==
    /\ WF_vars(CloseControlPort) /\ WF_vars(CloseDefault)
    /\ \A c \in Clients : WF_vars(ClientStep(c))
    /\ \A s \in Conns : WF_vars(Heartbeat(s)) /\ WF_vars(Alert(s))

Spec == Init /\ [][Next]_vars
FairSpec == Spec /\ Fairness

-----------------------------------------------------------------------------
Registered(s) == \E a \in Addrs : sessions[a] = s

\* The default session, while there is one, is a registered one: public
\* connections are never sent to a session the server has given up
\* (manager.go:163-172,183-199).
DefaultIsRegistered == defaultID # Nil => sessions[defaultID] # Nil

\* Every registered session is watched by its own heartbeat, which will remove
\* it: no session stays in the table after its client is gone for good
\* (controller.go:101-107,166-168).
RegisteredIsWatched ==
    \A a \in Addrs : sessions[a] # Nil =>
        conn[sessions[a]].addr = a /\ conn[sessions[a]].hb \in {"probe", "remove"}

\* A connected client that its own heartbeat has not given up is registered:
\* only a session's own heartbeat removes it (controller.go:97-101,168).
ConnectedIsRegistered ==
    \A s \in Conns :
        conn[s].hb = "probe" /\ conn[s].link = "up" => sessions[conn[s].addr] = s

\* A client that has lost its session redials without being told to: it never
\* takes a session for alive that the server has dropped (client.go:73-85,
\* controller.go:168-169).
NoForgottenClient ==
    \A c \in Clients :
        (client[c].pc = "up" /\ ~Registered(client[c].conn)) ~> client[c].pc # "up"

\* The death of a session is found out and announced once its heartbeat has
\* failed three times (controller.go:166-175).
DeathIsAnnounced ==
    \A s \in Conns : (conn[s].hb = "probe" /\ conn[s].link = "dead") ~> conn[s].alert

Served ==
    \E c \in Clients :
        /\ client[c].pc = "up"
        /\ client[c].conn = DefaultSession
        /\ conn[client[c].conn].link = "up"

\* Once the network is stable and every client there has ever been is back, a
\* service that keeps running ends up sending its public traffic to one of them
\* for good, whatever old sessions are still to be found dead
\* (client.go:37-85, controller.go:97-107,166-175).
ReturningClientsAreServed ==
    \A P \in (SUBSET Clients) \ {{}} :
        /\ []\A c \in Clients \ P : client[c].pc = "gone"
        /\ <>[](stable /\ isRun /\ \A c \in P : client[c].pc # "gone")
        => <>[]Served

\* The server supports several clients at a time (REQUIREMENTS.md:128): while
\* one of them is there, public traffic ends up with a connected client
\* (client.go:37-69, controller.go:97-107).
ClientIsServed ==
    <>[](stable /\ isRun /\ \E c \in Clients : client[c].pc # "gone") => <>[]Served
=============================================================================
