-------------------------------- MODULE Pipes --------------------------------
(***************************************************************************)
(* One public connection of a rule, from Accept until nothing of it is     *)
(* left.  Three links carry it: user - pub (TCP), srv - cli (a stream of   *)
(* the client's session), loc - svc (TCP).  The server copies between pub  *)
(* and srv in two goroutines under a rate limiter and the context the rule *)
(* had when they were launched; the client copies between cli and loc in   *)
(* two more.  A goroutine that ends closes both of its ends.               *)
(*                                                                         *)
(* The client's buffered reader takes the header and no more: a read of a  *)
(* stream returns data of one frame.                                       *)
(*                                                                         *)
(* Data are units; inbox[e] holds those that have reached the end e and    *)
(* are not read.  Closing a TCP end that has, or is still sent, units to   *)
(* read resets the link, and what its peer has not read may be lost; a     *)
(* closed stream delivers what was written before.  A pipe closes its two  *)
(* ends in one step, and a session that is cut is noticed at both sides.   *)
(* Connections of a rule share its limiter, which makes them wait longer;  *)
(* its listener is in Listener, the counting in Traffic.                   *)
(*                                                                         *)
(* Bounds: UnitsIn and UnitsOut are sent, Cap units fit into an inbox.     *)
(***************************************************************************)
EXTENDS Naturals

CONSTANTS
    UnitsIn,    \* units the user sends over one connection
    UnitsOut,   \* units the service sends over it
    Buf,        \* the buffer of rateLimitedProxy
    Cap,        \* what an inbox holds
    Limits      \* the rate limits a rule may be started with

ASSUME SizesAssumption == {UnitsIn, UnitsOut, Buf, Cap} \subseteq Nat \ {0} /\ Buf <= Cap
ASSUME LimitsAssumption == Limits \subseteq Nat /\ Limits # {}

VARIABLES
    on,         \* the rule is started: its context is not cancelled
    limit,      \* the limit of its limiter
    stage,      \* how far the accept loop has come with the connection
    lim,        \* the limit of the limiter the connection was given
    end,        \* the six ends
    inbox,      \* inbox[e]: units that have reached e
    pipe,       \* the four copying goroutines
    cut,        \* the session has died under the stream
    sent,       \* sent["in"], sent["out"]: units sent by the user, by the service
    owed,       \* sent, and not received at the other side
    after,      \* sent after the context of the pipe was cancelled
    spoiled     \* something has happened that excuses a loss

rule == <<on, limit>>
vars == <<on, limit, stage, lim, end, inbox, pipe, cut, sent, owed, after, spoiled>>

Ends == {"user", "pub", "srv", "cli", "loc", "svc"}
Held == {"pub", "srv", "cli", "loc"}
Pair == [user |-> "pub", pub |-> "user", srv |-> "cli", cli |-> "srv", loc |-> "svc", svc |-> "loc"]
Tcp(e) == e \notin {"srv", "cli"}

Server == {"in", "out"}
Pipes == Server \cup {"cin", "cout"}
Src == [in |-> "pub", out |-> "srv", cin |-> "cli", cout |-> "loc"]
Dst == [in |-> "srv", out |-> "pub", cin |-> "loc", cout |-> "cli"]

Units == [in |-> UnitsIn, out |-> UnitsOut]

NoPipe == [pc |-> "none", n |-> 0, live |-> FALSE]

TypeOK ==
    /\ {on, cut, spoiled} \subseteq BOOLEAN
    /\ {limit, lim} \subseteq Limits
    /\ stage \in {"free", "accepted", "opened", "headed", "half", "piped", "ended"}
    /\ end \in [Ends -> {"none", "open", "fin", "closed"}]
    /\ inbox \in [Ends -> 0..Cap]
    /\ pipe \in [Pipes -> [pc : {"none", "check", "read", "limit", "wait", "write", "done"},
                           n : 0..Buf, live : BOOLEAN]]
    /\ \A d \in Server : {sent[d], owed[d], after[d]} \subseteq 0..Units[d]

Unused == [e \in Ends |-> "none"]
NoUnits == [e \in Ends |-> 0]
NoPipes == [d \in Pipes |-> NoPipe]
Zero == [d \in Server |-> 0]

Init ==
    /\ on = FALSE
    /\ limit \in Limits /\ lim = limit
    /\ stage = "free" /\ end = Unused /\ inbox = NoUnits /\ pipe = NoPipes
    /\ cut = FALSE /\ spoiled = FALSE
    /\ sent = Zero /\ owed = Zero /\ after = Zero

-----------------------------------------------------------------------------
(* The links.                                                               *)

\* What closing the ends S leaves in the inboxes.
Shut(S) ==
    /\ end' = [e \in Ends |-> IF e \in S /\ end[e] # "none" THEN "closed" ELSE end[e]]
    /\ \E lost \in SUBSET {Pair[e] : e \in {s \in S : Tcp(s) /\ inbox[s] > 0}} :
          inbox' = [e \in Ends |-> IF e \in S \cup lost THEN 0 ELSE inbox[e]]

AtEof(e) == inbox[e] = 0 /\ (end[Pair[e]] \in {"fin", "closed"} \/ (~Tcp(e) /\ cut))

\* n units are written to the end e.  The peer of a closed end is told late.
Put(e, n) ==
    /\ UNCHANGED end
    /\ \/ /\ end[Pair[e]] # "closed"
          /\ inbox[Pair[e]] + n <= Cap
          /\ inbox' = [inbox EXCEPT ![Pair[e]] = @ + n]
       \/ /\ end[Pair[e]] = "closed"
          /\ \/ UNCHANGED inbox
             \/ Tcp(e) /\ inbox' = [inbox EXCEPT ![e] = 0]

-----------------------------------------------------------------------------
(* The rule.                                                                *)

Start ==
    /\ ~on
    /\ on' = TRUE
    /\ limit' \in Limits
    /\ UNCHANGED <<stage, lim, end, inbox, pipe, cut, sent, owed, after, spoiled>>

\* The contexts of its pipes are cancelled; nothing else happens to them.
Stop ==
    /\ on
    /\ on' = FALSE
    /\ pipe' = [d \in Pipes |-> IF d \in Server THEN [pipe[d] EXCEPT !.live = FALSE] ELSE pipe[d]]
    /\ spoiled' = (stage # "free")
    /\ UNCHANGED <<limit, stage, lim, end, inbox, cut, sent, owed, after>>

-----------------------------------------------------------------------------
(* The accept loop.                                                         *)

Accept ==
    /\ stage = "free" /\ on
    /\ stage' = "accepted"
    /\ lim' = limit
    /\ end' = [end EXCEPT !["user"] = "open", !["pub"] = "open"]
    /\ UNCHANGED <<rule, inbox, pipe, cut, sent, owed, after, spoiled>>

Refused ==
    /\ stage' = "ended"
    /\ spoiled' = TRUE
    /\ UNCHANGED <<rule, lim, pipe, cut, sent, owed, after>>

\* There is no session, or it does not open a stream.
NoStream == stage = "accepted" /\ Shut({"pub"}) /\ Refused

OpenStream ==
    /\ stage = "accepted"
    /\ stage' = "opened"
    /\ end' = [end EXCEPT !["srv"] = "open", !["cli"] = "open"]
    /\ UNCHANGED <<rule, lim, inbox, pipe, cut, sent, owed, after, spoiled>>

\* Variant: the stream stays open.
NoHeader_KeepsStream == stage = "opened" /\ cut /\ Shut({"pub"}) /\ Refused

NoHeader == stage = "opened" /\ cut /\ Shut({"pub", "srv"}) /\ Refused

Header ==
    /\ stage = "opened" /\ ~cut
    /\ stage' = "headed"
    /\ UNCHANGED <<rule, lim, end, inbox, pipe, cut, sent, owed, after, spoiled>>

\* mapping.Ctx is read anew for each of the two goroutines.
Launch(from, d, to) ==
    /\ stage = from
    /\ stage' = to
    /\ pipe' = [pipe EXCEPT ![d] = [pc |-> "check", n |-> 0, live |-> on]]
    /\ UNCHANGED <<rule, lim, end, inbox, cut, sent, owed, after, spoiled>>

AcceptLoop ==
    \/ NoStream \/ OpenStream \/ NoHeader \/ Header
    \/ Launch("headed", "out", "half") \/ Launch("half", "in", "piped")

-----------------------------------------------------------------------------
(* The client.                                                              *)

HeaderWritten == stage \in {"headed", "half", "piped"}

Dial ==
    /\ end["cli"] = "open" /\ pipe["cin"] = NoPipe
    /\ HeaderWritten
    /\ end' = [end EXCEPT !["loc"] = "open", !["svc"] = "open"]
    /\ pipe' = [pipe EXCEPT !["cin"].pc = "read", !["cout"].pc = "read"]
    /\ UNCHANGED <<rule, stage, lim, inbox, cut, sent, owed, after, spoiled>>

\* The header does not arrive or the local service does not answer.
DialFails ==
    /\ end["cli"] = "open" /\ pipe["cin"] = NoPipe
    /\ HeaderWritten \/ AtEof("cli")
    /\ Shut({"cli"})
    /\ spoiled' = TRUE
    /\ UNCHANGED <<rule, stage, lim, pipe, cut, sent, owed, after>>

-----------------------------------------------------------------------------
(* rateLimitedProxy, and proxy, which has no check and no limiter.          *)

Goes(d, pc) == pipe' = [pipe EXCEPT ![d].pc = pc]
Again(d) == pipe' = [pipe EXCEPT ![d].pc = IF d \in Server THEN "check" ELSE "read", ![d].n = 0]
Done(d) == pipe' = [pipe EXCEPT ![d].pc = "done", ![d].n = 0]

Finish(d) ==
    /\ Done(d)
    /\ Shut({Src[d], Dst[d]})

Rest == <<rule, stage, lim, cut, sent, owed, after>>

Check(d) ==
    /\ pipe[d].pc = "check"
    /\ IF pipe[d].live THEN Goes(d, "read") /\ UNCHANGED <<end, inbox>> ELSE Finish(d)
    /\ UNCHANGED <<Rest, spoiled>>

\* Variant: the end of the other side is noticed before what it has sent.
Read_EndFirst(d) ==
    /\ pipe[d].pc = "read"
    /\ IF end[Src[d]] = "closed" \/ end[Pair[Src[d]]] = "closed" \/ AtEof(Src[d]) THEN Finish(d)
       ELSE \E n \in 1..Buf :
              /\ n <= inbox[Src[d]]
              /\ inbox' = [inbox EXCEPT ![Src[d]] = @ - n]
              /\ pipe' = [pipe EXCEPT ![d].pc = IF d \in Server THEN "limit" ELSE "write",
                                      ![d].n = n]
              /\ UNCHANGED end
    /\ UNCHANGED <<Rest, spoiled>>

Read(d) ==
    /\ pipe[d].pc = "read"
    /\ IF end[Src[d]] = "closed" \/ AtEof(Src[d]) THEN Finish(d)
       ELSE \E n \in 1..Buf :
              /\ n <= inbox[Src[d]]
              /\ inbox' = [inbox EXCEPT ![Src[d]] = @ - n]
              /\ pipe' = [pipe EXCEPT ![d].pc = IF d \in Server THEN "limit" ELSE "write",
                                      ![d].n = n]
              /\ UNCHANGED end
    /\ UNCHANGED <<Rest, spoiled>>

\* Variant: WaitN is not given the context.
Limit_NoCtx(d) ==
    /\ pipe[d].pc = "limit"
    /\ IF pipe[d].n <= lim THEN Goes(d, "wait") /\ UNCHANGED <<end, inbox, spoiled>>
                           ELSE Finish(d) /\ spoiled' = TRUE
    /\ UNCHANGED Rest

\* WaitN refuses a chunk above the burst, and a cancelled context.
Limit(d) ==
    /\ pipe[d].pc = "limit"
    /\ IF pipe[d].n <= lim /\ pipe[d].live THEN Goes(d, "wait") /\ UNCHANGED <<end, inbox, spoiled>>
                                           ELSE Finish(d) /\ spoiled' = TRUE
    /\ UNCHANGED Rest

\* It returns when its time has come or when the context is cancelled.
Wait(d) ==
    /\ pipe[d].pc = "wait"
    /\ \/ Goes(d, "write") /\ UNCHANGED <<end, inbox>>
       \/ ~pipe[d].live /\ Finish(d)
    /\ UNCHANGED <<Rest, spoiled>>

\* Variant: the whole buffer is written.
Write_Whole(d) ==
    /\ pipe[d].pc = "write"
    /\ \/ /\ end[Dst[d]] # "closed" /\ (Tcp(Dst[d]) \/ ~cut)
          /\ Put(Dst[d], Buf)
          /\ Again(d)
       \/ /\ \/ end[Dst[d]] = "closed"
             \/ end[Pair[Dst[d]]] = "closed"
             \/ ~Tcp(Dst[d]) /\ cut
          /\ Finish(d)
    /\ UNCHANGED <<Rest, spoiled>>

Write(d) ==
    /\ pipe[d].pc = "write"
    /\ \/ /\ end[Dst[d]] # "closed" /\ (Tcp(Dst[d]) \/ ~cut)
          /\ Put(Dst[d], pipe[d].n)
          /\ Again(d)
       \/ /\ \/ end[Dst[d]] = "closed"
             \/ end[Pair[Dst[d]]] = "closed"
             \/ ~Tcp(Dst[d]) /\ cut
          /\ Finish(d)
    /\ UNCHANGED <<Rest, spoiled>>

PipeStep(d) == Check(d) \/ Read(d) \/ Limit(d) \/ Wait(d) \/ Write(d)

-----------------------------------------------------------------------------
(* The user and the service.                                                *)

Far == [in |-> "user", out |-> "svc"]
To == [in |-> "svc", out |-> "user"]

\* Losing what crosses the end of the service is nobody's fault but theirs.
Send(d) ==
    /\ end[Far[d]] = "open" /\ sent[d] < Units[d]
    /\ Put(Far[d], 1)
    /\ sent' = [sent EXCEPT ![d] = @ + 1]
    /\ owed' = [owed EXCEPT ![d] = @ + 1]
    /\ after' = IF pipe[d].pc # "none" /\ ~pipe[d].live THEN [after EXCEPT ![d] = @ + 1] ELSE after
    /\ spoiled' = (spoiled \/ (d = "in" /\ end["svc"] \in {"fin", "closed"}))
    /\ UNCHANGED <<rule, stage, lim, pipe, cut>>

Receive(d) ==
    /\ end[To[d]] \in {"open", "fin"} /\ inbox[To[d]] > 0
    /\ inbox' = [inbox EXCEPT ![To[d]] = @ - 1]
    /\ owed' = [owed EXCEPT ![d] = @ - 1]
    /\ UNCHANGED <<rule, stage, lim, end, pipe, cut, sent, after, spoiled>>

\* The user or the service ends its side (CloseWrite) or both (Close).
Leave(d) ==
    /\ \/ end[Far[d]] = "open" /\ end' = [end EXCEPT ![Far[d]] = "fin"] /\ UNCHANGED inbox
       \/ end[Far[d]] \in {"open", "fin"} /\ Shut({Far[d]})
    /\ spoiled' = (spoiled \/ d = "in" \/ owed["in"] > 0)
    /\ UNCHANGED <<rule, stage, lim, pipe, cut, sent, owed, after>>

\* The session dies, alone or with the process of the client.
Cut ==
    /\ end["srv"] # "none" /\ ~cut
    /\ cut' = TRUE
    /\ spoiled' = TRUE
    /\ \/ inbox' = [inbox EXCEPT !["srv"] = 0, !["cli"] = 0] /\ UNCHANGED <<end, pipe>>
       \/ UNCHANGED <<end, inbox, pipe>>
       \/ /\ Shut({"cli", "loc"})
          /\ pipe' = [d \in Pipes |-> IF d \in Server \/ pipe[d] = NoPipe THEN pipe[d]
                                      ELSE [pipe[d] EXCEPT !.pc = "done", !.n = 0]]
    /\ UNCHANGED <<rule, stage, lim, sent, owed, after>>

\* Nothing of the connection is held any more.
Over ==
    /\ \A e \in Held : end[e] \in {"none", "closed"}
    /\ \A d \in Pipes : pipe[d].pc \in {"none", "done"}
    /\ stage \in {"free", "piped", "ended"}

Forget ==
    /\ stage # "free" /\ Over
    /\ stage' = "free" /\ end' = Unused /\ inbox' = NoUnits /\ pipe' = NoPipes
    /\ cut' = FALSE /\ spoiled' = FALSE
    /\ sent' = Zero /\ owed' = Zero /\ after' = Zero
    /\ lim' = limit
    /\ UNCHANGED rule

-----------------------------------------------------------------------------
Next ==
    \/ Start \/ Stop \/ Accept \/ AcceptLoop \/ Dial \/ DialFails
    \/ \E d \in Pipes : PipeStep(d)
    \/ \E d \in Server : Send(d) \/ Receive(d) \/ Leave(d)
    \/ Cut \/ Forget

Spec == Init /\ [][Next]_vars

\* Goroutines run, and the user and the service read what they are sent.
\* Nothing makes anybody send or leave, or a rule be stopped.
Fairness ==
    /\ WF_vars(AcceptLoop) /\ WF_vars(Dial \/ DialFails)
    /\ \A d \in Pipes : WF_vars(PipeStep(d))
    /\ \A d \in Server : WF_vars(Receive(d))

FairSpec == Spec /\ Fairness

-----------------------------------------------------------------------------
\* What is sent after the rule was stopped never arrives, even over the idle
\* connections that outlive the stop, and even if the rule is started again
\* (proxy.go:120-135).
StopCutsOff == \A d \in Server : owed[d] >= after[d]

\* A service that answers, and then closes, is heard to the end: the server
\* closes the user's connection only when everything has been written to it.
\* Excused: a stop, a dead session, a chunk above the limit, a user who leaves
\* or is still sending (proxy.go:111-145, client.go:144-156).
AnswerArrives == ~spoiled /\ end["pub"] = "closed" => owed["out"] = inbox["user"]

\* When any part of a connection has ended, or its rule has been stopped and
\* either side sends one unit more, every end the server and the client hold is
\* closed and every goroutine returns; an idle connection may outlive the stop
\* of its rule (proxy.go:77-138, client.go:112-156).
Ended ==
    \/ cut \/ stage = "ended"
    \/ \E e \in Ends : end[e] \in {"fin", "closed"}
UsedAfterStop ==
    \E d \in Server : pipe[d].pc # "none" /\ ~pipe[d].live /\ inbox[Src[d]] > 0
EndsTogether == Ended \/ UsedAfterStop ~> Over
=============================================================================
