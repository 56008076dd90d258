------------------------------ MODULE PipesProofs ------------------------------
(***************************************************************************)
(* What Pipes keeps for any numbers of units, any buffer, inbox and limit: *)
(* its types, that nothing crosses a stop, and that a complete answer      *)
(* arrives.                                                                *)
(***************************************************************************)
EXTENDS Pipes, TLAPS

-----------------------------------------------------------------------------
(* The inductive invariant.                                                 *)

\* A goroutine holds units between its read and its write; those of the client
\* have neither a context nor a limiter, and start together.  The accept loop
\* launches the goroutines of the server last.  Nothing is left of a connection
\* that is forgotten.
Shape ==
    /\ TypeOK
    /\ sent \in [Server -> Nat] /\ owed \in [Server -> Nat] /\ after \in [Server -> Nat]
    /\ \A d \in Pipes : pipe[d].n = 0 <=> pipe[d].pc \in {"none", "check", "read", "done"}
    /\ \A d \in Pipes \ Server :
          pipe[d].pc \in {"none", "read", "write", "done"} /\ ~pipe[d].live
    /\ pipe["cin"].pc = "none" <=> pipe["cout"].pc = "none"
    /\ \A e \in Held : end[e] # "fin"
    /\ stage # "piped" => pipe["in"].pc = "none"
    /\ stage \notin {"half", "piped"} => pipe["out"].pc = "none"
    /\ stage = "free" =>
          /\ end = Unused /\ inbox = NoUnits /\ pipe = NoPipes
          /\ ~cut /\ ~spoiled /\ sent = Zero /\ owed = Zero /\ after = Zero

\* The units under way in each direction.
InFlow == inbox["pub"] + pipe["in"].n + inbox["cli"] + pipe["cin"].n + inbox["svc"]
OutFlow == inbox["loc"] + pipe["cout"].n + inbox["srv"] + pipe["out"].n + inbox["user"]

\* No unit is received that was not sent.
Flow ==
    /\ InFlow <= owed["in"] /\ owed["in"] <= sent["in"]
    /\ OutFlow <= owed["out"] /\ owed["out"] <= sent["out"]

\* The units that have passed the limiter of the server, or will.
Passed(d) == IF pipe[d].pc \in {"wait", "write"} THEN pipe[d].n ELSE 0
InPassed == Passed("in") + inbox["cli"] + pipe["cin"].n + inbox["svc"]
OutPassed == Passed("out") + inbox["user"]

\* What has passed was sent before the stop.
Late ==
    /\ IF pipe["in"].pc # "none" /\ ~pipe["in"].live
       THEN after["in"] + InPassed <= owed["in"] ELSE after["in"] = 0
    /\ IF pipe["out"].pc # "none" /\ ~pipe["out"].live
       THEN after["out"] + OutPassed <= owed["out"] ELSE after["out"] = 0

Closed(e) == end[e] = "closed"
SvcLeft == end["svc"] \in {"fin", "closed"}

\* A connection nothing has spoiled is closed from the side of the service, each
\* end after what is to be written to it, and loses no unit of the answer.
Clean ==
    ~spoiled /\ stage # "free" =>
        /\ ~cut /\ on /\ stage # "ended" /\ end["user"] = "open"
        /\ \A d \in Server : pipe[d].pc # "none" => pipe[d].live
        /\ SvcLeft => owed["in"] = 0
        /\ OutFlow = owed["out"]
        /\ Closed("cli") \/ Closed("loc") =>
              SvcLeft /\ pipe["cout"].pc = "done" /\ inbox["loc"] = 0
        /\ Closed("srv") \/ Closed("pub") =>
              Closed("cli") /\ pipe["out"].pc = "done" /\ inbox["srv"] = 0

IInv == Shape /\ Flow /\ Late /\ Clean

PipeRec == [pc : {"none", "check", "read", "limit", "wait", "write", "done"},
            n : 0..Buf, live : BOOLEAN]
EndStates == {"none", "open", "fin", "closed"}

-----------------------------------------------------------------------------
(* The links.                                                               *)

\* The three links and the four goroutines.
LEMMA Wiring ==
  /\ Pair["user"] = "pub" /\ Pair["pub"] = "user" /\ Pair["srv"] = "cli"
  /\ Pair["cli"] = "srv" /\ Pair["loc"] = "svc" /\ Pair["svc"] = "loc"
  /\ Src["in"] = "pub" /\ Src["out"] = "srv" /\ Src["cin"] = "cli" /\ Src["cout"] = "loc"
  /\ Dst["in"] = "srv" /\ Dst["out"] = "pub" /\ Dst["cin"] = "loc" /\ Dst["cout"] = "cli"
  /\ Far["in"] = "user" /\ Far["out"] = "svc" /\ To["in"] = "svc" /\ To["out"] = "user"
  /\ Units["in"] = UnitsIn /\ Units["out"] = UnitsOut
BY DEF Pair, Src, Dst, Far, To, Units

\* What is assumed of the sizes, one by one.
LEMMA SizesTyped ==
  UnitsIn \in Nat /\ UnitsOut \in Nat /\ Buf \in Nat /\ Cap \in Nat /\ Buf >= 1 /\ Cap >= 1 /\ Buf <= Cap
BY SizesAssumption

\* The types, one by one.
LEMMA Typed ==
  ASSUME Shape
  PROVE  /\ inbox \in [Ends -> 0..Cap] /\ end \in [Ends -> EndStates]
         /\ pipe \in [Pipes -> PipeRec]
         /\ \A e \in Ends : inbox[e] \in Nat
         /\ \A d \in Pipes : pipe[d] \in PipeRec /\ pipe[d].n \in Nat
         /\ owed \in [Server -> Nat] /\ sent \in [Server -> Nat] /\ after \in [Server -> Nat]
         /\ owed["in"] \in Nat /\ owed["out"] \in Nat /\ sent["in"] \in Nat /\ sent["out"] \in Nat
         /\ after["in"] \in Nat /\ after["out"] \in Nat
<1>1. /\ inbox \in [Ends -> 0..Cap] /\ end \in [Ends -> EndStates] /\ pipe \in [Pipes -> PipeRec]
  BY DEF Shape, TypeOK, EndStates, PipeRec
<1>2. owed \in [Server -> Nat] /\ sent \in [Server -> Nat] /\ after \in [Server -> Nat]
  BY DEF Shape
<1>3. \A d \in Pipes : pipe[d] \in PipeRec /\ pipe[d].n \in Nat
  BY <1>1, SizesTyped DEF PipeRec
<1>4. QED
  BY <1>1, <1>2, <1>3, SizesTyped DEF Server

\* The addends of both flows are natural numbers.
LEMMA FlowTyped ==
  ASSUME Shape
  PROVE  /\ inbox["user"] \in Nat /\ inbox["pub"] \in Nat /\ inbox["srv"] \in Nat
         /\ inbox["cli"] \in Nat /\ inbox["loc"] \in Nat /\ inbox["svc"] \in Nat
         /\ pipe["in"].n \in Nat /\ pipe["out"].n \in Nat
         /\ pipe["cin"].n \in Nat /\ pipe["cout"].n \in Nat
         /\ Passed("in") \in Nat /\ Passed("out") \in Nat
BY Typed DEF Ends, Pipes, Server, Passed

\* A flow is a natural number, and none of its addends exceeds it.
LEMMA Addends ==
  ASSUME NEW a \in Nat, NEW b \in Nat, NEW c \in Nat, NEW d \in Nat, NEW e \in Nat
  PROVE  /\ a + b + c + d + e \in Nat
         /\ a + b + c + d + e <= 0 => a = 0 /\ b = 0 /\ c = 0 /\ d = 0 /\ e = 0
OBVIOUS

\* No unit under way in, none anywhere on the way.
LEMMA NothingIn ==
  ASSUME Shape, Flow, owed["in"] = 0
  PROVE  /\ inbox["pub"] = 0 /\ pipe["in"].n = 0 /\ inbox["cli"] = 0
         /\ pipe["cin"].n = 0 /\ inbox["svc"] = 0
<1>1. InFlow <= 0
  BY DEF Flow
<1>2. inbox["pub"] + pipe["in"].n + inbox["cli"] + pipe["cin"].n + inbox["svc"] <= 0
  BY <1>1 DEF InFlow
<1>3. QED
  BY <1>2, FlowTyped, Addends

\* Closing ends empties them; what a reset loses is what the peer of a TCP end
\* with unread units has not read.
LEMMA ShutFacts ==
  ASSUME Shape, NEW S \in SUBSET Ends, Shut(S)
  PROVE  /\ end' \in [Ends -> EndStates] /\ inbox' \in [Ends -> 0..Cap]
         /\ \A e \in Ends : end'[e] = IF e \in S /\ end[e] # "none" THEN "closed" ELSE end[e]
         /\ \A e \in Ends : inbox'[e] = 0 \/ inbox'[e] = inbox[e]
         /\ \A e \in Ends : inbox'[e] <= inbox[e]
         /\ \A e \in S : inbox'[e] = 0
         /\ \A e \in Ends : inbox'[e] # inbox[e] =>
               e \in S \/ \E s \in S : Tcp(s) /\ inbox[s] > 0 /\ Pair[s] = e
<1>1. PICK lost \in SUBSET {Pair[e] : e \in {s \in S : Tcp(s) /\ inbox[s] > 0}} :
        inbox' = [e \in Ends |-> IF e \in S \cup lost THEN 0 ELSE inbox[e]]
  BY DEF Shut
<1>2. end' = [e \in Ends |-> IF e \in S /\ end[e] # "none" THEN "closed" ELSE end[e]]
  BY DEF Shut
<1>3. \A e \in lost : \E s \in S : Tcp(s) /\ inbox[s] > 0 /\ Pair[s] = e
  BY <1>1
<1>4. end' \in [Ends -> EndStates]
  BY <1>2, Typed DEF EndStates
<1>5. \A e \in Ends : inbox[e] \in 0..Cap /\ inbox[e] \in Nat
  BY Typed
<1>6. inbox' \in [Ends -> 0..Cap]
  BY <1>1, <1>5, SizesTyped
<1>7. \A e \in Ends : inbox'[e] = IF e \in S \cup lost THEN 0 ELSE inbox[e]
  BY <1>1
<1> HIDE DEF Shut
<1>8. QED
  BY <1>2, <1>3, <1>4, <1>5, <1>6, <1>7

-----------------------------------------------------------------------------
(* Parts of the invariant that follow from what a step leaves alone.        *)

\* Fewer units under way cannot be more than were sent.
LEMMA LessFlow ==
  ASSUME Shape, Shape', Flow, UNCHANGED <<sent, owed>>,
         \A e \in Ends : inbox'[e] <= inbox[e],
         \A d \in Pipes : pipe'[d].n <= pipe[d].n
  PROVE  Flow'
<1>1. /\ \A e \in Ends : inbox[e] \in Nat /\ inbox'[e] \in Nat
      /\ \A d \in Pipes : pipe[d].n \in Nat /\ pipe'[d].n \in Nat
      /\ owed["in"] \in Nat /\ owed["out"] \in Nat
  <2>1. (\A e \in Ends : inbox[e] \in Nat) /\ (\A d \in Pipes : pipe[d].n \in Nat)
        /\ owed["in"] \in Nat /\ owed["out"] \in Nat
    BY Typed
  <2>2. (\A e \in Ends : inbox'[e] \in Nat) /\ (\A d \in Pipes : pipe'[d].n \in Nat)
    BY SizesTyped DEF Shape, TypeOK
  <2>3. QED
    BY <2>1, <2>2
<1>2. InFlow' <= InFlow
  BY <1>1 DEF InFlow, Ends, Pipes, Server
<1>3. OutFlow' <= OutFlow
  BY <1>1 DEF OutFlow, Ends, Pipes, Server
<1>4. InFlow \in Nat /\ OutFlow \in Nat /\ InFlow' \in Nat /\ OutFlow' \in Nat
  BY <1>1 DEF InFlow, OutFlow, Ends, Pipes, Server
<1>5. QED
  BY <1>1, <1>2, <1>3, <1>4 DEF Flow

\* Nor can more have passed the limiter.
LEMMA LessLate ==
  ASSUME Shape, Shape', Late, UNCHANGED <<owed, after>>,
         \A e \in Ends : inbox'[e] <= inbox[e],
         \A d \in Pipes : pipe'[d].n <= pipe[d].n,
         \A d \in Server : Passed(d)' <= Passed(d),
         \A d \in Server : (pipe'[d].pc # "none" /\ ~pipe'[d].live)
                              <=> (pipe[d].pc # "none" /\ ~pipe[d].live)
  PROVE  Late'
<1>1. /\ \A e \in Ends : inbox[e] \in Nat /\ inbox'[e] \in Nat
      /\ \A d \in Pipes : pipe[d].n \in Nat /\ pipe'[d].n \in Nat
      /\ owed["in"] \in Nat /\ owed["out"] \in Nat /\ after["in"] \in Nat /\ after["out"] \in Nat
  <2>1. (\A e \in Ends : inbox[e] \in Nat) /\ (\A d \in Pipes : pipe[d].n \in Nat)
        /\ owed["in"] \in Nat /\ owed["out"] \in Nat /\ after["in"] \in Nat /\ after["out"] \in Nat
    BY Typed
  <2>2. (\A e \in Ends : inbox'[e] \in Nat) /\ (\A d \in Pipes : pipe'[d].n \in Nat)
    BY SizesTyped DEF Shape, TypeOK
  <2>3. QED
    BY <2>1, <2>2
<1>2. \A d \in Server : Passed(d) \in Nat /\ Passed(d)' \in Nat
  BY <1>1 DEF Passed, Pipes
<1>3. InPassed' <= InPassed /\ InPassed \in Nat /\ InPassed' \in Nat
  BY <1>1, <1>2 DEF InPassed, Ends, Pipes, Server
<1>4. OutPassed' <= OutPassed /\ OutPassed \in Nat /\ OutPassed' \in Nat
  BY <1>1, <1>2 DEF OutPassed, Ends, Server
<1>5. QED
  BY <1>1, <1>3, <1>4 DEF Late, Server

-----------------------------------------------------------------------------
(* The steps of the copying goroutines.                                     *)

\* What any of their steps leaves alone keeps the shape.
LEMMA StepShape ==
  ASSUME Shape, NEW d \in Pipes, pipe[d].pc # "none",
         pipe' \in [Pipes -> PipeRec], \A c \in Pipes \ {d} : pipe'[c] = pipe[c],
         pipe'[d].pc # "none", pipe'[d].live = pipe[d].live,
         pipe'[d].n = 0 <=> pipe'[d].pc \in {"none", "check", "read", "done"},
         d \notin Server => pipe'[d].pc \in {"read", "write", "done"},
         end' \in [Ends -> EndStates], inbox' \in [Ends -> 0..Cap],
         \A e \in Held : end'[e] # "fin",
         UNCHANGED Rest, spoiled' \in BOOLEAN
  PROVE  Shape' /\ stage # "free"
<1>1. UNCHANGED <<on, limit, stage, lim, cut, sent, owed, after>>
  BY DEF Rest, rule
<1>2. TypeOK'
  BY <1>1 DEF Shape, TypeOK, EndStates, PipeRec
<1>3. stage # "free"
  BY DEF Shape, NoPipes, NoPipe
<1>4. /\ \A c \in Pipes : pipe'[c].n = 0 <=> pipe'[c].pc \in {"none", "check", "read", "done"}
      /\ \A c \in Pipes \ Server :
            pipe'[c].pc \in {"none", "read", "write", "done"} /\ ~pipe'[c].live
  BY DEF Shape
<1>5. \A c \in Pipes : pipe'[c].pc = "none" <=> pipe[c].pc = "none"
  OBVIOUS
<1>6. /\ pipe'["cin"].pc = "none" <=> pipe'["cout"].pc = "none"
      /\ stage # "piped" => pipe'["in"].pc = "none"
      /\ stage \notin {"half", "piped"} => pipe'["out"].pc = "none"
  BY <1>5 DEF Shape, Pipes, Server
<1>7. QED
  BY <1>1, <1>2, <1>3, <1>4, <1>6 DEF Shape

\* A goroutine that goes on, with its units.
LEMMA GoesFacts ==
  ASSUME Shape, NEW d \in Pipes,
         NEW pc \in {"check", "read", "limit", "wait", "write", "done"}, NEW n \in 0..Buf,
         pipe' = [[pipe EXCEPT ![d].pc = pc] EXCEPT ![d].n = n]
  PROVE  /\ pipe' \in [Pipes -> PipeRec] /\ \A c \in Pipes \ {d} : pipe'[c] = pipe[c]
         /\ pipe'[d].pc = pc /\ pipe'[d].n = n /\ pipe'[d].live = pipe[d].live
<1> DEFINE mid == [pipe EXCEPT ![d].pc = pc]
<1>1. pipe \in [Pipes -> PipeRec] /\ pipe[d] \in PipeRec
  BY Typed
<1>2. /\ mid \in [Pipes -> PipeRec] /\ \A c \in Pipes \ {d} : mid[c] = pipe[c]
      /\ mid[d].pc = pc /\ mid[d].n = pipe[d].n /\ mid[d].live = pipe[d].live
  BY <1>1 DEF PipeRec
<1>3. pipe' = [mid EXCEPT ![d].n = n]
  OBVIOUS
<1> HIDE DEF mid
<1>4. mid[d] \in PipeRec /\ [mid[d] EXCEPT !.n = n] \in PipeRec
  BY <1>2 DEF PipeRec
<1>5. pipe'[d] = [mid[d] EXCEPT !.n = n] /\ \A c \in Pipes \ {d} : pipe'[c] = mid[c]
  BY <1>2, <1>3
<1>6. pipe'[d].pc = mid[d].pc /\ pipe'[d].n = n /\ pipe'[d].live = mid[d].live
  BY <1>4, <1>5 DEF PipeRec
<1>7. pipe' \in [Pipes -> PipeRec]
  BY <1>2, <1>3, <1>4
<1>8. QED
  BY <1>2, <1>5, <1>6, <1>7

\* A goroutine that goes on without moving a unit keeps the shape and both flows.
LEMMA GoesOnFacts ==
  ASSUME Shape, NEW d \in Pipes,
         NEW pc \in {"check", "read", "limit", "wait", "write", "done"}, Goes(d, pc)
  PROVE  /\ pipe' \in [Pipes -> PipeRec] /\ \A c \in Pipes \ {d} : pipe'[c] = pipe[c]
         /\ pipe'[d].pc = pc /\ pipe'[d].n = pipe[d].n /\ pipe'[d].live = pipe[d].live
<1>1. pipe \in [Pipes -> PipeRec] /\ pipe[d] \in PipeRec
  BY Typed
<1>2. pipe' = [pipe EXCEPT ![d].pc = pc]
  BY DEF Goes
<1>3. QED
  BY <1>1, <1>2 DEF PipeRec

\* When a goroutine may end without a loss.
MayEnd(d) ==
    /\ d = "in" => Closed("srv") \/ Closed("pub")
    /\ d = "out" => Closed("cli") /\ inbox["srv"] = 0 /\ pipe["out"].n = 0
    /\ d = "cin" => Closed("cli") \/ Closed("loc")
    /\ d = "cout" => SvcLeft /\ inbox["loc"] = 0 /\ pipe["cout"].n = 0

\* A goroutine ends and closes its ends.
LEMMA FinishInv ==
  ASSUME IInv, NEW d \in Pipes, pipe[d].pc # "none", Finish(d), UNCHANGED Rest,
         spoiled' \in BOOLEAN, spoiled => spoiled', spoiled' \/ MayEnd(d)
  PROVE  IInv'
<1>1. Done(d) /\ Shut({Src[d], Dst[d]})
  BY DEF Finish
<1>2. {Src[d], Dst[d]} \subseteq Held /\ Held \subseteq Ends
  BY Wiring DEF Pipes, Server, Held, Ends
<1>3. /\ pipe' \in [Pipes -> PipeRec] /\ \A c \in Pipes \ {d} : pipe'[c] = pipe[c]
      /\ pipe'[d].pc = "done" /\ pipe'[d].n = 0 /\ pipe'[d].live = pipe[d].live
  <2>1. pipe' = [[pipe EXCEPT ![d].pc = "done"] EXCEPT ![d].n = 0]
    BY <1>1, Typed DEF IInv, Done
  <2>2. Shape /\ 0 \in 0..Buf
    BY SizesTyped DEF IInv
  <2>3. QED
    BY <2>1, <2>2, GoesFacts
<1>4. /\ end' \in [Ends -> EndStates] /\ inbox' \in [Ends -> 0..Cap]
      /\ \A e \in Ends : end'[e] = IF e \in {Src[d], Dst[d]} /\ end[e] # "none" THEN "closed" ELSE end[e]
      /\ \A e \in Ends : inbox'[e] = 0 \/ inbox'[e] = inbox[e]
      /\ \A e \in Ends : inbox'[e] <= inbox[e]
      /\ \A e \in {Src[d], Dst[d]} : inbox'[e] = 0
      /\ \A e \in Ends : inbox'[e] # inbox[e] =>
            e \in {Src[d], Dst[d]} \/ \E s \in {Src[d], Dst[d]} : Tcp(s) /\ inbox[s] > 0 /\ Pair[s] = e
  BY <1>1, <1>2, ShutFacts DEF IInv
<1>5. \A e \in Held : end'[e] # "fin"
  BY <1>2, <1>4 DEF IInv, Shape
<1>6. Shape' /\ stage # "free"
  BY <1>3, <1>4, <1>5, StepShape DEF IInv
<1>7. \A c \in Pipes : pipe'[c].n <= pipe[c].n
  BY <1>3, Typed DEF IInv
<1>8. UNCHANGED <<on, limit, stage, lim, cut, sent, owed, after>>
  BY DEF Rest, rule
<1>9. Flow'
  BY <1>4, <1>6, <1>7, <1>8, LessFlow DEF IInv
<1>10. Late'
  <2>1. \A c \in Server : Passed(c)' <= Passed(c)
    BY <1>3, Typed DEF Passed, IInv, Pipes
  <2>2. \A c \in Server : (pipe'[c].pc # "none" /\ ~pipe'[c].live)
                              <=> (pipe[c].pc # "none" /\ ~pipe[c].live)
    BY <1>3 DEF Pipes
  <2>3. QED
    BY <1>4, <1>6, <1>7, <1>8, <2>1, <2>2, LessLate DEF IInv
<1>11. Clean'
  <2> SUFFICES ASSUME ~spoiled' PROVE Clean'
    BY DEF Clean
  <2>1. /\ MayEnd(d)
        /\ ~cut /\ on /\ stage # "ended" /\ end["user"] = "open"
        /\ \A c \in Server : pipe[c].pc # "none" => pipe[c].live
        /\ SvcLeft => owed["in"] = 0
        /\ OutFlow = owed["out"]
        /\ Closed("cli") \/ Closed("loc") =>
              SvcLeft /\ pipe["cout"].pc = "done" /\ inbox["loc"] = 0
        /\ Closed("srv") \/ Closed("pub") =>
              Closed("cli") /\ pipe["out"].pc = "done" /\ inbox["srv"] = 0
    BY <1>6 DEF IInv, Clean
  <2>2. SvcLeft
    BY <2>1 DEF MayEnd, Pipes, Server
  <2>3. inbox["pub"] = 0
    BY <2>1, <2>2, NothingIn DEF IInv
  <2>4. end'["user"] = "open" /\ end'["svc"] = end["svc"]
    BY <1>2, <1>4, <2>1 DEF Held, Ends
  <2>5. \A c \in Server : pipe'[c].pc # "none" => pipe'[c].live
    BY <1>3, <2>1 DEF Pipes
  <2>6. \A c \in Pipes : (pipe[c].pc = "done" => pipe'[c].pc = "done")
    BY <1>3
  <2>7. CASE d = "in"
    <3>1. /\ \A e \in Ends \ {"srv", "pub"} : inbox'[e] = inbox[e] /\ end'[e] = end[e]
          /\ inbox'["srv"] = 0
      BY <1>4, <2>3, <2>7, Wiring DEF Ends, Tcp
    <3>2. \A c \in {"cout", "out"} : pipe'[c].n = pipe[c].n
      BY <1>3, <2>7 DEF Pipes, Server
    <3>3. inbox["srv"] = 0 /\ Closed("cli") /\ pipe["out"].pc = "done"
      BY <2>1, <2>7 DEF MayEnd
    <3>4. OutFlow' = owed'["out"]
      BY <1>8, <2>1, <3>1, <3>2, <3>3 DEF OutFlow, Ends
    <3>5. QED
      BY <1>8, <2>1, <2>2, <2>4, <2>5, <2>6, <3>1, <3>3, <3>4 DEF Clean, SvcLeft, Closed, Ends, Pipes, Server
  <2>8. CASE d = "out"
    <3>1. /\ \A e \in Ends \ {"srv", "pub"} : inbox'[e] = inbox[e] /\ end'[e] = end[e]
          /\ inbox'["srv"] = 0
      BY <1>4, <2>3, <2>8, Wiring DEF Ends, Tcp
    <3>2. \A c \in {"cout", "out"} : pipe'[c].n = pipe[c].n
      BY <1>3, <2>1, <2>8 DEF Pipes, Server, MayEnd
    <3>3. inbox["srv"] = 0 /\ Closed("cli") /\ pipe'["out"].pc = "done"
      BY <1>3, <2>1, <2>8 DEF MayEnd
    <3>4. OutFlow' = owed'["out"]
      BY <1>8, <2>1, <3>1, <3>2, <3>3 DEF OutFlow, Ends
    <3>5. QED
      BY <1>8, <2>1, <2>2, <2>4, <2>5, <2>6, <3>1, <3>3, <3>4 DEF Clean, SvcLeft, Closed, Ends, Pipes, Server
  <2>9. CASE d \in {"cin", "cout"}
    <3>1. inbox["loc"] = 0 /\ (d = "cin" => pipe["cout"].pc = "done")
      BY <2>1, <2>9 DEF MayEnd
    <3>2. /\ \A e \in Ends \ {"cli", "loc"} : inbox'[e] = inbox[e] /\ end'[e] = end[e]
          /\ inbox'["loc"] = 0 /\ (end["cli"] = "closed" => end'["cli"] = "closed")
      BY <1>4, <2>9, <3>1, Wiring DEF Ends, Tcp
    <3>3. \A c \in {"cout", "out"} : pipe'[c].n = pipe[c].n
      BY <1>3, <2>1, <2>9 DEF Pipes, Server, MayEnd
    <3>4. pipe'["cout"].pc = "done"
      BY <1>3, <2>6, <2>9, <3>1 DEF Pipes
    <3>5. OutFlow' = owed'["out"]
      BY <1>8, <2>1, <3>1, <3>2, <3>3 DEF OutFlow, Ends
    <3>6. QED
      BY <1>8, <2>1, <2>2, <2>4, <2>5, <2>6, <3>2, <3>4, <3>5 DEF Clean, SvcLeft, Closed, Ends, Pipes, Server
  <2>10. QED
    BY <2>7, <2>8, <2>9 DEF Pipes, Server
<1>12. QED
  BY <1>6, <1>9, <1>10, <1>11 DEF IInv

\* Each variable a step of a goroutine leaves alone.
LEMMA RestIs ==
  ASSUME UNCHANGED Rest
  PROVE  UNCHANGED <<on, limit, stage, lim, cut, sent, owed, after>>
BY DEF Rest, rule

\* A server goroutine nothing has disturbed has a context that is not cancelled,
\* and has not ended while one of its ends is open.
LEMMA CleanFacts ==
  ASSUME IInv, ~spoiled, stage # "free"
  PROVE  /\ ~cut /\ on /\ stage # "ended" /\ end["user"] = "open"
         /\ \A d \in Server : pipe[d].pc # "none" => pipe[d].live
         /\ SvcLeft => owed["in"] = 0
         /\ OutFlow = owed["out"]
         /\ Closed("cli") \/ Closed("loc") =>
               SvcLeft /\ pipe["cout"].pc = "done" /\ inbox["loc"] = 0
         /\ Closed("srv") \/ Closed("pub") =>
               Closed("cli") /\ pipe["out"].pc = "done" /\ inbox["srv"] = 0
BY DEF IInv, Clean

\* A goroutine goes from one of its points to the next and touches no unit.
LEMMA GoesInv ==
  ASSUME IInv, NEW d \in Pipes, pipe[d].pc \notin {"none", "done"},
         NEW pc \in {"check", "read", "limit", "wait", "write"}, Goes(d, pc),
         pipe[d].n = 0 <=> pc \in {"check", "read"},
         d \notin Server => pc \in {"read", "write"},
         d \in Server => pipe[d].live \/ (pipe[d].pc = "wait" /\ pc = "write"),
         UNCHANGED <<end, inbox, Rest, spoiled>>
  PROVE  IInv'
<1>1. /\ pipe' \in [Pipes -> PipeRec] /\ \A c \in Pipes \ {d} : pipe'[c] = pipe[c]
      /\ pipe'[d].pc = pc /\ pipe'[d].n = pipe[d].n /\ pipe'[d].live = pipe[d].live
  BY GoesOnFacts DEF IInv
<1>2. /\ end \in [Ends -> EndStates] /\ inbox \in [Ends -> 0..Cap] /\ spoiled \in BOOLEAN
      /\ \A e \in Held : end[e] # "fin"
  BY Typed DEF IInv, Shape, TypeOK
<1>3. Shape' /\ stage # "free"
  BY <1>1, <1>2, StepShape DEF IInv
<1>4. UNCHANGED <<on, limit, stage, lim, cut, sent, owed, after>>
  BY RestIs
<1>5. /\ \A c \in Pipes : pipe'[c].n = pipe[c].n /\ pipe'[c].live = pipe[c].live
      /\ \A c \in Pipes : (pipe'[c].pc = "none" <=> pipe[c].pc = "none")
                          /\ (pipe[c].pc = "done" => pipe'[c].pc = "done")
  BY <1>1
<1>6. UNCHANGED <<InFlow, OutFlow>> /\ Flow'
  BY <1>4, <1>5 DEF IInv, Flow, InFlow, OutFlow, Pipes, Server
<1>7. Late'
  <2>1. \A c \in Server : ~pipe[c].live => Passed(c)' = Passed(c)
    BY <1>1 DEF Passed, Pipes
  <2>2. /\ ~pipe["in"].live => UNCHANGED InPassed
        /\ ~pipe["out"].live => UNCHANGED OutPassed
    BY <1>5, <2>1 DEF InPassed, OutPassed, Pipes, Server
  <2>3. QED
    BY <1>4, <1>5, <2>2 DEF IInv, Late, Pipes, Server
<1>8. Clean'
  <2>1. pipe["out"].pc = "done" => pipe'["out"].pc = "done"
    BY <1>5 DEF Pipes, Server
  <2>2. pipe["cout"].pc = "done" => pipe'["cout"].pc = "done"
    BY <1>5 DEF Pipes, Server
  <2>3. \A c \in Server : (pipe[c].pc # "none" => pipe[c].live) => (pipe'[c].pc # "none" => pipe'[c].live)
    BY <1>5 DEF Pipes
  <2>4. QED
    BY <1>4, <1>6, <2>1, <2>2, <2>3 DEF IInv, Clean, SvcLeft, Closed
<1>9. QED
  BY <1>3, <1>6, <1>7, <1>8 DEF IInv

\* A goroutine that still runs: what holds of its ends while nothing is spoiled.
LEMMA Running ==
  ASSUME IInv, ~spoiled, NEW d \in Pipes, pipe[d].pc \notin {"none", "done"}
  PROVE  /\ stage # "free"
         /\ d = "out" => ~Closed("srv") /\ ~Closed("pub")
         /\ d = "cout" => ~Closed("cli") /\ ~Closed("loc") /\ ~Closed("srv") /\ ~Closed("pub")
         /\ d \in {"in", "cin"} /\ pipe[d].n # 0 =>
               /\ ~SvcLeft /\ ~Closed("cli") /\ ~Closed("loc")
               /\ ~Closed("srv") /\ ~Closed("pub")
<1>1. stage # "free"
  BY DEF IInv, Shape, NoPipes, NoPipe
<1>2. ASSUME d \in {"in", "cin"}, pipe[d].n # 0 PROVE ~SvcLeft
  BY <1>1, <1>2, CleanFacts, NothingIn DEF IInv
<1>3. QED
  BY <1>1, <1>2, CleanFacts

\* The check of the context.
LEMMA CheckInv ==
  ASSUME IInv, NEW d \in Pipes, Check(d)
  PROVE  IInv'
<1>1. pipe[d].pc = "check" /\ UNCHANGED <<Rest, spoiled>>
  BY DEF Check
<1>2. d \in Server /\ pipe[d].n = 0 /\ spoiled \in BOOLEAN
  BY <1>1 DEF IInv, Shape, TypeOK
<1>3. CASE pipe[d].live
  BY <1>1, <1>2, <1>3, GoesInv DEF Check
<1>4. CASE ~pipe[d].live
  <2>1. stage # "free"
    BY <1>1 DEF IInv, Shape, NoPipes, NoPipe
  <2>2. spoiled
    BY <1>1, <1>2, <1>4, <2>1, CleanFacts
  <2>3. QED
    BY <1>1, <1>2, <1>4, <2>2, FinishInv DEF Check
<1>5. QED
  BY <1>3, <1>4

\* The limiter.
LEMMA LimitInv ==
  ASSUME IInv, NEW d \in Pipes, Limit(d)
  PROVE  IInv'
<1>1. pipe[d].pc = "limit" /\ UNCHANGED Rest
  BY DEF Limit
<1>2. d \in Server /\ pipe[d].n # 0 /\ spoiled \in BOOLEAN
  BY <1>1 DEF IInv, Shape, TypeOK
<1>3. CASE pipe[d].n <= lim /\ pipe[d].live
  BY <1>1, <1>2, <1>3, GoesInv DEF Limit
<1>4. CASE ~(pipe[d].n <= lim /\ pipe[d].live)
  BY <1>1, <1>2, <1>4, FinishInv DEF Limit
<1>5. QED
  BY <1>3, <1>4

\* The wait for the limiter.
LEMMA WaitInv ==
  ASSUME IInv, NEW d \in Pipes, Wait(d)
  PROVE  IInv'
<1>1. pipe[d].pc = "wait" /\ UNCHANGED <<Rest, spoiled>>
  BY DEF Wait
<1>2. d \in Server /\ pipe[d].n # 0 /\ spoiled \in BOOLEAN
  BY <1>1 DEF IInv, Shape, TypeOK
<1>3. CASE Goes(d, "write") /\ UNCHANGED <<end, inbox>>
  BY <1>1, <1>2, <1>3, GoesInv
<1>4. CASE ~pipe[d].live /\ Finish(d)
  <2>1. stage # "free"
    BY <1>1 DEF IInv, Shape, NoPipes, NoPipe
  <2>2. spoiled
    BY <1>1, <1>2, <1>4, <2>1, CleanFacts
  <2>3. QED
    BY <1>1, <1>2, <1>4, <2>2, FinishInv
<1>5. QED
  BY <1>3, <1>4 DEF Wait

\* A goroutine takes n units from its source.
LEMMA TakeInv ==
  ASSUME IInv, NEW d \in Pipes, pipe[d].pc = "read", ~Closed(Src[d]),
         NEW n \in 1..Buf, n <= inbox[Src[d]],
         inbox' = [inbox EXCEPT ![Src[d]] = @ - n],
         pipe' = [pipe EXCEPT ![d].pc = IF d \in Server THEN "limit" ELSE "write", ![d].n = n],
         UNCHANGED <<end, Rest, spoiled>>
  PROVE  IInv'
<1> DEFINE pc == IF d \in Server THEN "limit" ELSE "write"
<1>1. n \in Nat /\ n # 0 /\ n \in 0..Buf /\ Shape /\ pc \in {"limit", "write"}
  BY SizesTyped DEF IInv
<1>2. /\ pipe' \in [Pipes -> PipeRec] /\ \A c \in Pipes \ {d} : pipe'[c] = pipe[c]
      /\ pipe'[d].pc = pc /\ pipe'[d].n = n /\ pipe'[d].live = pipe[d].live
  <2>1. pipe' = [[pipe EXCEPT ![d].pc = pc] EXCEPT ![d].n = n]
    BY <1>1, Typed
  <2>2. pc \in {"check", "read", "limit", "wait", "write", "done"}
    BY <1>1
  <2> HIDE DEF pc
  <2>3. QED
    BY <1>1, <2>1, <2>2, GoesFacts
<1>3. /\ Src[d] \in Ends /\ inbox \in [Ends -> 0..Cap]
      /\ inbox'[Src[d]] = inbox[Src[d]] - n
      /\ \A e \in Ends \ {Src[d]} : inbox'[e] = inbox[e]
      /\ inbox' \in [Ends -> 0..Cap]
  <2>1. Src[d] \in Ends
    BY Wiring DEF Pipes, Server, Ends
  <2>2. inbox \in [Ends -> 0..Cap] /\ inbox[Src[d]] \in 0..Cap
    BY <1>1, <2>1, Typed
  <2>3. inbox[Src[d]] - n \in 0..Cap
    BY <1>1, <2>2, SizesTyped
  <2>4. QED
    BY <2>1, <2>2, <2>3
<1>4. /\ end \in [Ends -> EndStates] /\ spoiled \in BOOLEAN
      /\ \A e \in Held : end[e] # "fin"
  BY Typed DEF IInv, Shape, TypeOK
<1>5. pipe[d].n = 0
  BY DEF IInv, Shape
<1>6. Shape' /\ stage # "free"
  BY <1>1, <1>2, <1>3, <1>4, StepShape
<1>7. UNCHANGED <<on, limit, stage, lim, cut, sent, owed, after>>
  BY RestIs
<1>8. InFlow' = InFlow /\ OutFlow' = OutFlow
  <2>1. CASE d = "in"
    BY <1>1, <1>2, <1>3, <1>5, <2>1, Wiring, FlowTyped DEF InFlow, OutFlow, Ends, Pipes, Server
  <2>2. CASE d = "out"
    BY <1>1, <1>2, <1>3, <1>5, <2>2, Wiring, FlowTyped DEF InFlow, OutFlow, Ends, Pipes, Server
  <2>3. CASE d = "cin"
    BY <1>1, <1>2, <1>3, <1>5, <2>3, Wiring, FlowTyped DEF InFlow, OutFlow, Ends, Pipes, Server
  <2>4. CASE d = "cout"
    BY <1>1, <1>2, <1>3, <1>5, <2>4, Wiring, FlowTyped DEF InFlow, OutFlow, Ends, Pipes, Server
  <2>5. QED
    BY <2>1, <2>2, <2>3, <2>4 DEF Pipes, Server
<1>9. Flow'
  BY <1>7, <1>8 DEF IInv, Flow
<1>10. Late'
  <2>1. Passed("in")' = Passed("in") /\ Passed("out")' = Passed("out")
    BY <1>2 DEF Passed, Pipes, Server
  <2>2. InPassed' = InPassed
    <3>1. CASE d = "cin"
      BY <1>1, <1>2, <1>3, <1>5, <2>1, <3>1, Wiring, FlowTyped DEF InPassed, Ends, Pipes, Server
    <3>2. CASE d # "cin"
      BY <1>2, <1>3, <2>1, <3>2, Wiring DEF InPassed, Ends, Pipes, Server
    <3>3. QED
      BY <3>1, <3>2
  <2>3. OutPassed' = OutPassed
    BY <1>3, <2>1, Wiring DEF OutPassed, Ends, Pipes, Server
  <2>4. \A c \in Server : (pipe'[c].pc # "none" /\ ~pipe'[c].live)
                              <=> (pipe[c].pc # "none" /\ ~pipe[c].live)
    BY <1>2 DEF Pipes
  <2>5. QED
    BY <1>7, <2>2, <2>3, <2>4 DEF IInv, Late, Server
<1>11. Clean'
  <2> SUFFICES ASSUME ~spoiled PROVE Clean'
    BY DEF Clean
  <2>1. d = "out" => ~Closed("srv") /\ ~Closed("pub")
    BY Running
  <2>2. d = "cout" => ~Closed("cli") /\ ~Closed("loc")
    BY Running
  <2>3. \A c \in Server : pipe'[c].pc # "none" => pipe'[c].live
    BY <1>2, <1>6, CleanFacts DEF Pipes
  <2>4. (Closed("cli") \/ Closed("loc")) => pipe'["cout"].pc = "done" /\ inbox'["loc"] = 0
    BY <1>2, <1>3, <1>6, <2>2, CleanFacts, Wiring DEF Ends, Pipes, Server
  <2>5. (Closed("srv") \/ Closed("pub")) => pipe'["out"].pc = "done" /\ inbox'["srv"] = 0
    BY <1>2, <1>3, <1>6, <2>1, CleanFacts, Wiring DEF Ends, Pipes, Server
  <2>6. QED
    BY <1>6, <1>7, <1>8, <2>3, <2>4, <2>5, CleanFacts DEF Clean, SvcLeft, Closed
<1>12. QED
  BY <1>6, <1>9, <1>10, <1>11 DEF IInv

\* A goroutine ends at the end of its source.
LEMMA ReadInv ==
  ASSUME IInv, NEW d \in Pipes, Read(d)
  PROVE  IInv'
<1>1. pipe[d].pc = "read" /\ UNCHANGED <<Rest, spoiled>>
  BY DEF Read
<1>2. pipe[d].n = 0 /\ spoiled \in BOOLEAN
  BY <1>1 DEF IInv, Shape, TypeOK
<1>3. CASE Closed(Src[d]) \/ AtEof(Src[d])
  <2>1. Finish(d)
    BY <1>1, <1>3 DEF Read, Closed
  <2>2. ASSUME ~spoiled PROVE MayEnd(d)
    <3>1. stage # "free" /\ ~cut /\ end["user"] = "open"
      BY <1>1, <2>2, Running, CleanFacts
    <3>2. \A e \in Held : end[e] # "fin"
      BY DEF IInv, Shape
    <3>3. CASE d = "in"
      BY <1>3, <3>1, <3>3, Wiring DEF AtEof, MayEnd, Closed
    <3>4. CASE d = "out"
      BY <1>1, <1>2, <1>3, <2>2, <3>1, <3>2, <3>4, Running, Wiring DEF AtEof, MayEnd, Closed, Held
    <3>5. CASE d = "cin"
      <4>1. Closed("cli") \/ Closed("srv")
        BY <1>3, <3>1, <3>2, <3>5, Wiring DEF AtEof, Closed, Held
      <4>2. QED
        BY <2>2, <3>1, <3>5, <4>1, CleanFacts DEF MayEnd
    <3>6. CASE d = "cout"
      BY <1>1, <1>2, <1>3, <2>2, <3>1, <3>6, Running, Wiring DEF AtEof, MayEnd, Closed, SvcLeft, Tcp
    <3>7. QED
      BY <3>3, <3>4, <3>5, <3>6 DEF Pipes, Server
  <2>3. QED
    BY <1>1, <1>2, <2>1, <2>2, FinishInv
<1>4. CASE ~Closed(Src[d]) /\ ~AtEof(Src[d])
  <2>1. PICK n \in 1..Buf :
          /\ n <= inbox[Src[d]]
          /\ inbox' = [inbox EXCEPT ![Src[d]] = @ - n]
          /\ pipe' = [pipe EXCEPT ![d].pc = IF d \in Server THEN "limit" ELSE "write", ![d].n = n]
          /\ UNCHANGED end
    BY <1>4 DEF Read, Closed
  <2>2. QED
    BY <1>1, <1>4, <2>1, TakeInv
<1>5. QED
  BY <1>3, <1>4

\* Units written to an end reach its peer, or nobody.
LEMMA PutFacts ==
  ASSUME Shape, NEW e \in Ends, NEW n \in Nat, Put(e, n)
  PROVE  /\ end' = end /\ inbox' \in [Ends -> 0..Cap]
         /\ \/ /\ ~Closed(Pair[e])
               /\ inbox'[Pair[e]] = inbox[Pair[e]] + n
               /\ \A f \in Ends \ {Pair[e]} : inbox'[f] = inbox[f]
            \/ /\ Closed(Pair[e])
               /\ inbox'[e] = inbox[e] \/ inbox'[e] = 0
               /\ \A f \in Ends \ {e} : inbox'[f] = inbox[f]
<1>1. Pair[e] \in Ends
  BY Wiring DEF Ends
<1>2. inbox \in [Ends -> 0..Cap] /\ inbox[Pair[e]] \in 0..Cap
  BY <1>1, Typed
<1>3. CASE /\ end[Pair[e]] # "closed" /\ inbox[Pair[e]] + n <= Cap
           /\ inbox' = [inbox EXCEPT ![Pair[e]] = @ + n]
  <2>1. inbox[Pair[e]] + n \in 0..Cap
    BY <1>2, <1>3, SizesTyped
  <2>2. QED
    BY <1>1, <1>2, <1>3, <2>1 DEF Put, Closed
<1>4. CASE end[Pair[e]] = "closed" /\ (UNCHANGED inbox \/ inbox' = [inbox EXCEPT ![e] = 0])
  BY <1>2, <1>4, SizesTyped DEF Put, Closed
<1>5. QED
  BY <1>3, <1>4 DEF Put

\* Its units have reached the peer of its destination.
LEMMA ReachInv ==
  ASSUME IInv, NEW d \in Pipes, pipe[d].pc = "write", ~Closed(Dst[d]),
         ~Closed(Pair[Dst[d]]), end' = end, inbox' \in [Ends -> 0..Cap],
         inbox'[Pair[Dst[d]]] = inbox[Pair[Dst[d]]] + pipe[d].n,
         \A f \in Ends \ {Pair[Dst[d]]} : inbox'[f] = inbox[f],
         Again(d), UNCHANGED <<Rest, spoiled>>
  PROVE  IInv'
<1> DEFINE pc == IF d \in Server THEN "check" ELSE "read"
<1>1. Shape /\ 0 \in 0..Buf /\ pc \in {"check", "read"} /\ pipe[d].n # 0
      /\ pc \in {"check", "read", "limit", "wait", "write", "done"} /\ pipe[d].n \in Nat
  BY SizesTyped, Typed DEF IInv, Shape
<1>2. /\ pipe' \in [Pipes -> PipeRec] /\ \A c \in Pipes \ {d} : pipe'[c] = pipe[c]
      /\ pipe'[d].pc = pc /\ pipe'[d].n = 0 /\ pipe'[d].live = pipe[d].live
  <2>1. pipe' = [[pipe EXCEPT ![d].pc = pc] EXCEPT ![d].n = 0]
    BY <1>1, Typed DEF Again
  <2> HIDE DEF pc
  <2>2. QED
    BY <1>1, <2>1, GoesFacts
<1>3. /\ end \in [Ends -> EndStates] /\ spoiled \in BOOLEAN
      /\ \A e \in Held : end[e] # "fin"
  BY Typed DEF IInv, Shape, TypeOK
<1>4. Shape' /\ stage # "free"
  BY <1>1, <1>2, <1>3, StepShape
<1>5. UNCHANGED <<on, limit, stage, lim, cut, sent, owed, after>>
  BY RestIs
<1>6. InFlow' = InFlow /\ OutFlow' = OutFlow
  <2>1. CASE d = "in"
    BY <1>1, <1>2, <2>1, Wiring, FlowTyped DEF InFlow, OutFlow, Ends, Pipes, Server
  <2>2. CASE d = "out"
    BY <1>1, <1>2, <2>2, Wiring, FlowTyped DEF InFlow, OutFlow, Ends, Pipes, Server
  <2>3. CASE d = "cin"
    BY <1>1, <1>2, <2>3, Wiring, FlowTyped DEF InFlow, OutFlow, Ends, Pipes, Server
  <2>4. CASE d = "cout"
    BY <1>1, <1>2, <2>4, Wiring, FlowTyped DEF InFlow, OutFlow, Ends, Pipes, Server
  <2>5. QED
    BY <2>1, <2>2, <2>3, <2>4 DEF Pipes, Server
<1>7. Flow'
  BY <1>5, <1>6 DEF IInv, Flow
<1>8. Late'
  <2>1. InPassed' = InPassed /\ OutPassed' = OutPassed
    <3>1. CASE d = "in"
      BY <1>1, <1>2, <3>1, Wiring, FlowTyped DEF InPassed, OutPassed, Passed, Ends, Pipes, Server
    <3>2. CASE d = "out"
      BY <1>1, <1>2, <3>2, Wiring, FlowTyped DEF InPassed, OutPassed, Passed, Ends, Pipes, Server
    <3>3. CASE d = "cin"
      BY <1>1, <1>2, <3>3, Wiring, FlowTyped DEF InPassed, OutPassed, Passed, Ends, Pipes, Server
    <3>4. CASE d = "cout"
      BY <1>1, <1>2, <3>4, Wiring, FlowTyped DEF InPassed, OutPassed, Passed, Ends, Pipes, Server
    <3>5. QED
      BY <3>1, <3>2, <3>3, <3>4 DEF Pipes, Server
  <2>2. \A c \in Server : (pipe'[c].pc # "none" /\ ~pipe'[c].live)
                              <=> (pipe[c].pc # "none" /\ ~pipe[c].live)
    BY <1>2 DEF Pipes
  <2>3. QED
    BY <1>5, <2>1, <2>2 DEF IInv, Late, Server
<1>9. Clean'
  <2> SUFFICES ASSUME ~spoiled PROVE Clean'
    BY DEF Clean
  <2>1. /\ d \in {"out", "cout"} => ~Closed("srv") /\ ~Closed("pub")
        /\ d = "cout" => ~Closed("cli") /\ ~Closed("loc")
        /\ d \in {"in", "cin"} => ~Closed("cli") /\ ~Closed("loc") /\ ~Closed("srv") /\ ~Closed("pub")
    BY <1>1, Running
  <2>2. \A c \in Server : pipe'[c].pc # "none" => pipe'[c].live
    BY <1>2, <1>4, CleanFacts DEF Pipes
  <2>3. (Closed("cli") \/ Closed("loc")) => pipe'["cout"].pc = "done" /\ inbox'["loc"] = 0
    BY <1>2, <1>4, <2>1, CleanFacts, Wiring DEF Ends, Pipes, Server
  <2>4. (Closed("srv") \/ Closed("pub")) => pipe'["out"].pc = "done" /\ inbox'["srv"] = 0
    BY <1>2, <1>4, <2>1, CleanFacts, Wiring DEF Ends, Pipes, Server
  <2>5. QED
    BY <1>4, <1>5, <1>6, <2>2, <2>3, <2>4, CleanFacts DEF Clean, SvcLeft, Closed
<1>10. QED
  BY <1>4, <1>7, <1>8, <1>9 DEF IInv

\* Nobody is left to receive them, which something else has spoiled.
LEMMA DropInv ==
  ASSUME IInv, spoiled, NEW d \in Pipes, pipe[d].pc = "write", end' = end,
         inbox' \in [Ends -> 0..Cap], \A f \in Ends : inbox'[f] = inbox[f] \/ inbox'[f] = 0,
         Again(d), UNCHANGED <<Rest, spoiled>>
  PROVE  IInv'
<1> DEFINE pc == IF d \in Server THEN "check" ELSE "read"
<1>1. Shape /\ 0 \in 0..Buf /\ pc \in {"check", "read"}
      /\ pc \in {"check", "read", "limit", "wait", "write", "done"}
  BY SizesTyped DEF IInv
<1>2. /\ pipe' \in [Pipes -> PipeRec] /\ \A c \in Pipes \ {d} : pipe'[c] = pipe[c]
      /\ pipe'[d].pc = pc /\ pipe'[d].n = 0 /\ pipe'[d].live = pipe[d].live
  <2>1. pipe' = [[pipe EXCEPT ![d].pc = pc] EXCEPT ![d].n = 0]
    BY <1>1, Typed DEF Again
  <2> HIDE DEF pc
  <2>2. QED
    BY <1>1, <2>1, GoesFacts
<1>3. /\ end \in [Ends -> EndStates] /\ spoiled \in BOOLEAN
      /\ \A e \in Held : end[e] # "fin"
  BY Typed DEF IInv, Shape, TypeOK
<1>4. Shape' /\ stage # "free"
  BY <1>1, <1>2, <1>3, StepShape
<1>5. UNCHANGED <<on, limit, stage, lim, cut, sent, owed, after>>
  BY RestIs
<1>6. /\ \A e \in Ends : inbox'[e] <= inbox[e]
      /\ \A c \in Pipes : pipe'[c].n <= pipe[c].n
  BY <1>1, <1>2, Typed
<1>7. Flow'
  BY <1>1, <1>4, <1>5, <1>6, LessFlow DEF IInv
<1>8. Late'
  <2>1. \A c \in Server : Passed(c)' <= Passed(c)
    BY <1>1, <1>2, Typed DEF Passed, Pipes
  <2>2. \A c \in Server : (pipe'[c].pc # "none" /\ ~pipe'[c].live)
                              <=> (pipe[c].pc # "none" /\ ~pipe[c].live)
    BY <1>2 DEF Pipes
  <2>3. QED
    BY <1>1, <1>4, <1>5, <1>6, <2>1, <2>2, LessLate DEF IInv
<1>9. QED
  BY <1>4, <1>7, <1>8 DEF IInv, Clean

\* The write, which the close of either end of the link ends.
LEMMA WriteInv ==
  ASSUME IInv, NEW d \in Pipes, Write(d)
  PROVE  IInv'
<1>1. pipe[d].pc = "write" /\ UNCHANGED <<Rest, spoiled>>
  BY DEF Write
<1>2. pipe[d].n # 0 /\ pipe[d].n \in Nat /\ spoiled \in BOOLEAN /\ Shape
  BY <1>1, Typed DEF IInv, Shape, TypeOK
<1>3. ASSUME ~spoiled
      PROVE  ~Closed(Dst[d]) /\ ~Closed(Pair[Dst[d]]) /\ ~cut
  <2>1. stage # "free" /\ ~cut /\ end["user"] = "open"
    BY <1>1, <1>3, Running, CleanFacts
  <2>2. CASE d = "in"
    BY <1>1, <1>2, <1>3, <2>1, <2>2, Running, Wiring
  <2>3. CASE d = "out"
    BY <1>1, <1>2, <1>3, <2>1, <2>3, Running, Wiring DEF Closed
  <2>4. CASE d = "cin"
    BY <1>1, <1>2, <1>3, <2>1, <2>4, Running, Wiring DEF Closed, SvcLeft
  <2>5. CASE d = "cout"
    BY <1>1, <1>2, <1>3, <2>1, <2>5, Running, Wiring
  <2>6. QED
    BY <2>2, <2>3, <2>4, <2>5 DEF Pipes, Server
<1>4. CASE end[Dst[d]] # "closed" /\ Put(Dst[d], pipe[d].n) /\ Again(d)
  <2>1. Dst[d] \in Ends
    BY Wiring DEF Pipes, Server, Ends
  <2>2. /\ end' = end /\ inbox' \in [Ends -> 0..Cap]
        /\ \/ /\ ~Closed(Pair[Dst[d]])
              /\ inbox'[Pair[Dst[d]]] = inbox[Pair[Dst[d]]] + pipe[d].n
              /\ \A f \in Ends \ {Pair[Dst[d]]} : inbox'[f] = inbox[f]
           \/ /\ Closed(Pair[Dst[d]])
              /\ inbox'[Dst[d]] = inbox[Dst[d]] \/ inbox'[Dst[d]] = 0
              /\ \A f \in Ends \ {Dst[d]} : inbox'[f] = inbox[f]
    BY <1>2, <1>4, <2>1, PutFacts
  <2>3. CASE ~Closed(Pair[Dst[d]])
    BY <1>1, <1>4, <2>2, <2>3, ReachInv DEF Closed
  <2>4. CASE Closed(Pair[Dst[d]])
    <3>1. spoiled
      BY <1>3, <2>4
    <3>2. \A f \in Ends : inbox'[f] = inbox[f] \/ inbox'[f] = 0
      BY <2>2, <2>4
    <3>3. QED
      BY <1>1, <1>4, <2>2, <3>1, <3>2, DropInv
  <2>5. QED
    BY <2>3, <2>4
<1>5. CASE /\ \/ end[Dst[d]] = "closed"
              \/ end[Pair[Dst[d]]] = "closed"
              \/ ~Tcp(Dst[d]) /\ cut
           /\ Finish(d)
  <2>1. spoiled
    BY <1>3, <1>5 DEF Closed
  <2>2. QED
    BY <1>1, <1>2, <1>5, <2>1, FinishInv
<1>6. QED
  BY <1>4, <1>5 DEF Write

\* Every step of a copying goroutine keeps the invariant.
LEMMA PipeStepInv ==
  ASSUME IInv, NEW d \in Pipes, PipeStep(d)
  PROVE  IInv'
BY CheckInv, ReadInv, LimitInv, WaitInv, WriteInv DEF PipeStep

-----------------------------------------------------------------------------
(* The steps that spoil a connection.                                       *)

\* Ends are closed, units lost and goroutines of the client gone, all excused.
LEMMA SpoiledInv ==
  ASSUME IInv, stage # "free", spoiled' = TRUE, cut' \in BOOLEAN,
         stage' = stage \/ (stage' = "ended" /\ stage \in {"accepted", "opened"}),
         end' \in [Ends -> EndStates], inbox' \in [Ends -> 0..Cap],
         \A e \in Held : end'[e] # "fin", \A e \in Ends : inbox'[e] <= inbox[e],
         pipe' \in [Pipes -> PipeRec], \A d \in Server : pipe'[d] = pipe[d],
         \A d \in Pipes \ Server :
            \/ pipe'[d] = pipe[d]
            \/ /\ pipe[d].pc # "none" /\ pipe'[d].pc = "done" /\ pipe'[d].n = 0
               /\ pipe'[d].live = pipe[d].live,
         UNCHANGED <<on, limit, lim, sent, owed, after>>
  PROVE  IInv'
<1>1. Shape'
  <2>1. TypeOK'
    BY DEF IInv, Shape, TypeOK, EndStates, PipeRec
  <2>2. \A d \in Pipes : pipe'[d].pc = "none" <=> pipe[d].pc = "none"
    OBVIOUS
  <2>3. \A d \in Pipes : pipe'[d].n = 0 <=> pipe'[d].pc \in {"none", "check", "read", "done"}
    BY DEF IInv, Shape
  <2>4. \A d \in Pipes \ Server :
           pipe'[d].pc \in {"none", "read", "write", "done"} /\ ~pipe'[d].live
    BY DEF IInv, Shape
  <2>5. /\ pipe'["cin"].pc = "none" <=> pipe'["cout"].pc = "none"
        /\ stage' # "piped" => pipe'["in"].pc = "none"
        /\ stage' \notin {"half", "piped"} => pipe'["out"].pc = "none"
        /\ stage' # "free"
    BY <2>2 DEF IInv, Shape, Pipes, Server
  <2>6. sent' \in [Server -> Nat] /\ owed' \in [Server -> Nat] /\ after' \in [Server -> Nat]
    BY DEF IInv, Shape
  <2>7. QED
    BY <2>1, <2>3, <2>4, <2>5, <2>6 DEF Shape
<1>2. \A d \in Pipes : pipe'[d].n <= pipe[d].n
  BY Typed DEF IInv
<1>3. Flow'
  BY <1>1, <1>2, LessFlow DEF IInv
<1>4. \A d \in Server : Passed(d)' = Passed(d) /\ Passed(d) \in Nat
  BY Typed DEF IInv, Passed, Pipes
<1>5. Late'
  <2>1. \A d \in Server : Passed(d)' <= Passed(d)
    BY <1>4
  <2>2. \A d \in Server : (pipe'[d].pc # "none" /\ ~pipe'[d].live)
                              <=> (pipe[d].pc # "none" /\ ~pipe[d].live)
    OBVIOUS
  <2>3. QED
    BY <1>1, <1>2, <2>1, <2>2, LessLate DEF IInv
<1>6. QED
  BY <1>1, <1>3, <1>5 DEF IInv, Clean

\* Closing ends of a connection that is spoiled keeps the invariant: what is lost is excused.
LEMMA ShutSpoiledInv ==
  ASSUME IInv, stage # "free", spoiled' = TRUE, NEW S \in SUBSET Ends, Shut(S),
         stage' = stage \/ (stage' = "ended" /\ stage \in {"accepted", "opened"}),
         UNCHANGED <<on, limit, lim, pipe, cut, sent, owed, after>>
  PROVE  IInv'
<1>1. /\ end' \in [Ends -> EndStates] /\ inbox' \in [Ends -> 0..Cap]
      /\ \A e \in Ends : end'[e] = IF e \in S /\ end[e] # "none" THEN "closed" ELSE end[e]
      /\ \A e \in Ends : inbox'[e] <= inbox[e]
  BY ShutFacts DEF IInv
<1>2. \A e \in Held : end'[e] # "fin"
  BY <1>1 DEF IInv, Shape, Held, Ends
<1>3. pipe \in [Pipes -> PipeRec] /\ cut \in BOOLEAN
  BY Typed DEF IInv, Shape, TypeOK
<1>4. QED
  BY <1>1, <1>2, <1>3, SpoiledInv

\* An end that is in use is not that of a free connection.
LEMMA InUse ==
  ASSUME Shape, NEW e \in Ends, end[e] # "none"
  PROVE  stage # "free"
BY DEF Shape, Unused

\* A connection for which no stream can be opened is closed and spoiled.
LEMMA NoStreamInv ==
  ASSUME IInv, NoStream \/ NoHeader
  PROVE  IInv'
<1>1. /\ Refused /\ stage \in {"accepted", "opened"}
      /\ Shut({"pub"}) \/ Shut({"pub", "srv"})
  BY DEF NoStream, NoHeader
<1>2. /\ stage' = "ended" /\ stage # "free" /\ spoiled' = TRUE
      /\ UNCHANGED <<on, limit, lim, pipe, cut, sent, owed, after>>
  BY <1>1 DEF Refused, rule
<1>3. {"pub"} \subseteq Ends /\ {"pub", "srv"} \subseteq Ends
  BY DEF Ends
<1>4. CASE Shut({"pub"})
  BY <1>1, <1>2, <1>3, <1>4, ShutSpoiledInv
<1>5. CASE Shut({"pub", "srv"})
  BY <1>1, <1>2, <1>3, <1>5, ShutSpoiledInv
<1>6. QED
  BY <1>1, <1>4, <1>5

\* A client that cannot dial the service closes its stream and spoils the connection.
LEMMA DialFailsInv ==
  ASSUME IInv, DialFails
  PROVE  IInv'
<1>1. stage # "free"
  BY InUse DEF DialFails, IInv, Ends
<1>2. {"cli"} \subseteq Ends /\ Shut({"cli"}) /\ spoiled' = TRUE
      /\ UNCHANGED <<on, limit, stage, lim, pipe, cut, sent, owed, after>>
  BY DEF Ends, DialFails, rule
<1>3. QED
  BY <1>1, <1>2, ShutSpoiledInv

\* A session that is cut spoils the connection.
LEMMA CutInv ==
  ASSUME IInv, Cut
  PROVE  IInv'
<1>1. stage # "free"
  BY InUse DEF Cut, IInv, Ends
<1>2. cut' = TRUE /\ spoiled' = TRUE /\ UNCHANGED <<on, limit, stage, lim, sent, owed, after>>
  BY DEF Cut, rule
<1>3. /\ inbox \in [Ends -> 0..Cap] /\ end \in [Ends -> EndStates] /\ pipe \in [Pipes -> PipeRec]
      /\ \A e \in Ends : inbox[e] \in Nat /\ \A e2 \in Held : end[e2] # "fin"
      /\ \A d \in Pipes : pipe[d] \in PipeRec
  BY Typed DEF IInv, Shape
<1>4. CASE inbox' = [inbox EXCEPT !["srv"] = 0, !["cli"] = 0] /\ UNCHANGED <<end, pipe>>
  <2>1. inbox' \in [Ends -> 0..Cap] /\ \A e \in Ends : inbox'[e] = inbox[e] \/ inbox'[e] = 0
    <3> DEFINE mid == [inbox EXCEPT !["srv"] = 0]
    <3>1. 0 \in 0..Cap
      BY SizesTyped
    <3>2. mid \in [Ends -> 0..Cap] /\ \A e \in Ends : mid[e] = inbox[e] \/ mid[e] = 0
      BY <1>3, <3>1
    <3>3. inbox' = [mid EXCEPT !["cli"] = 0]
      BY <1>4
    <3> HIDE DEF mid
    <3>4. inbox' \in [Ends -> 0..Cap]
      BY <3>1, <3>2, <3>3
    <3>5. \A e \in Ends : inbox'[e] = mid[e] \/ inbox'[e] = 0
      BY <3>2, <3>3
    <3>6. QED
      BY <3>2, <3>4, <3>5
  <2>2. \A e \in Ends : inbox'[e] <= inbox[e]
    BY <1>3, <2>1
  <2>3. \A e \in Held : end'[e] # "fin"
    BY <1>4 DEF IInv, Shape
  <2>4. QED
    BY <1>1, <1>2, <1>3, <1>4, <2>1, <2>2, <2>3, SpoiledInv
<1>5. CASE UNCHANGED <<end, inbox, pipe>>
  <2>1. \A e \in Ends : inbox'[e] <= inbox[e]
    BY <1>3, <1>5
  <2>2. \A e \in Held : end'[e] # "fin"
    BY <1>5 DEF IInv, Shape
  <2>3. QED
    BY <1>1, <1>2, <1>3, <1>5, <2>1, <2>2, SpoiledInv
<1>6. CASE /\ Shut({"cli", "loc"})
           /\ pipe' = [d \in Pipes |-> IF d \in Server \/ pipe[d] = NoPipe THEN pipe[d]
                                       ELSE [pipe[d] EXCEPT !.pc = "done", !.n = 0]]
  <2>1. {"cli", "loc"} \subseteq Ends
    BY DEF Ends
  <2>2. /\ end' \in [Ends -> EndStates] /\ inbox' \in [Ends -> 0..Cap]
        /\ \A e \in Ends : end'[e] = IF e \in {"cli", "loc"} /\ end[e] # "none" THEN "closed" ELSE end[e]
        /\ \A e \in Ends : inbox'[e] <= inbox[e]
    BY <1>6, <2>1, ShutFacts DEF IInv
  <2>3. \A e \in Held : end'[e] # "fin"
    BY <2>2 DEF IInv, Shape, Held, Ends
  <2>4. \A d \in Server : pipe'[d] = pipe[d]
    BY <1>6 DEF Pipes
  <2>5. ASSUME NEW d \in Pipes \ Server, pipe'[d] # pipe[d]
        PROVE  /\ pipe[d].pc # "none" /\ pipe'[d].pc = "done" /\ pipe'[d].n = 0
               /\ pipe'[d].live = pipe[d].live /\ pipe'[d] \in PipeRec
    <3>1. pipe'[d] = [pipe[d] EXCEPT !.pc = "done", !.n = 0] /\ pipe[d] # NoPipe
      BY <1>6, <2>5
    <3>2. pipe[d] \in PipeRec /\ 0 \in 0..Buf
      BY <1>3, SizesTyped
    <3>3. pipe'[d].pc = "done" /\ pipe'[d].n = 0 /\ pipe'[d].live = pipe[d].live
          /\ pipe'[d] \in PipeRec
      BY <3>1, <3>2 DEF PipeRec
    <3>4. ~pipe[d].live /\ (pipe[d].pc = "none" => pipe[d].n = 0)
      BY <2>5 DEF IInv, Shape
    <3>5. pipe[d].pc # "none"
      BY <3>1, <3>2, <3>4 DEF PipeRec, NoPipe
    <3>6. QED
      BY <3>3, <3>5
  <2>6. pipe' \in [Pipes -> PipeRec]
    <3>1. \A d \in Pipes : pipe'[d] \in PipeRec
      BY <1>3, <2>4, <2>5
    <3>2. pipe' = [d \in Pipes |-> pipe'[d]]
      BY <1>6
    <3>3. QED
      BY <3>1, <3>2
  <2>7. QED
    BY <1>1, <1>2, <2>2, <2>3, <2>4, <2>5, <2>6, SpoiledInv
<1>7. QED
  BY <1>4, <1>5, <1>6 DEF Cut

\* The user or the service ends its side.
LEMMA LeaveInv ==
  ASSUME IInv, NEW d \in Server, Leave(d)
  PROVE  IInv'
<1>1. /\ spoiled' = (spoiled \/ d = "in" \/ owed["in"] > 0)
      /\ UNCHANGED <<on, limit, stage, lim, pipe, cut, sent, owed, after>>
  BY DEF Leave, rule
<1>2. /\ Far[d] \in Ends /\ Far[d] \in {"user", "svc"} /\ Far[d] \notin Held
      /\ end[Far[d]] \in {"open", "fin"}
  BY Wiring DEF Leave, Server, Ends, Held
<1>3. stage # "free" /\ Shape
  BY <1>2, InUse DEF IInv
<1>4. /\ end' \in [Ends -> EndStates] /\ inbox' \in [Ends -> 0..Cap]
      /\ \A e \in Ends \ {Far[d]} : end'[e] = end[e]
      /\ end'[Far[d]] \in {"fin", "closed"}
      /\ \A e \in Ends : inbox'[e] <= inbox[e]
      /\ \A e \in Ends : inbox'[e] # inbox[e] => inbox[Far[d]] > 0
  <2>1. CASE end' = [end EXCEPT ![Far[d]] = "fin"] /\ UNCHANGED inbox
    BY <1>2, <1>3, <2>1, Typed DEF EndStates
  <2>2. CASE Shut({Far[d]})
    <3>1. {Far[d]} \subseteq Ends
      BY <1>2
    <3>2. /\ end' \in [Ends -> EndStates] /\ inbox' \in [Ends -> 0..Cap]
          /\ \A e \in Ends : end'[e] = IF e \in {Far[d]} /\ end[e] # "none" THEN "closed" ELSE end[e]
          /\ \A e \in Ends : inbox'[e] <= inbox[e]
          /\ \A e \in {Far[d]} : inbox'[e] = 0
          /\ \A e \in Ends : inbox'[e] # inbox[e] =>
                e \in {Far[d]} \/ \E s \in {Far[d]} : Tcp(s) /\ inbox[s] > 0 /\ Pair[s] = e
      BY <1>3, <2>2, <3>1, ShutFacts
    <3>3. inbox[Far[d]] \in Nat
      BY <1>2, <1>3, Typed
    <3>4. QED
      BY <1>2, <3>2, <3>3
  <2>3. QED
    BY <2>1, <2>2 DEF Leave
<1>5. \A e \in Held : end'[e] # "fin"
  BY <1>2, <1>4 DEF IInv, Shape, Held, Ends
<1>6. pipe \in [Pipes -> PipeRec] /\ cut \in BOOLEAN /\ spoiled \in BOOLEAN /\ owed["in"] \in Nat
  BY Typed DEF IInv, Shape, TypeOK
<1>7. CASE spoiled'
  BY <1>1, <1>3, <1>4, <1>5, <1>6, <1>7, SpoiledInv
<1>8. CASE ~spoiled'
  <2>1. ~spoiled /\ d = "out" /\ owed["in"] = 0 /\ Far[d] = "svc"
    <3>1. ~(spoiled \/ d = "in" \/ owed["in"] > 0)
      BY <1>1, <1>8, Zenon
    <3>2. QED
      BY <1>6, <3>1, Wiring DEF Server
  <2>2. \A e \in Ends : inbox'[e] = inbox[e]
    BY <1>4, <2>1, NothingIn DEF IInv
  <2>3. inbox' = inbox
    BY <1>3, <1>4, <2>2, Typed
  <2>4. Shape'
    BY <1>1, <1>3, <1>4, <1>5, <1>8, <2>3 DEF Shape, TypeOK, EndStates
  <2>5. Flow' /\ Late' /\ OutFlow' = OutFlow
    BY <1>1, <2>3 DEF IInv, Flow, Late, InFlow, OutFlow, InPassed, OutPassed, Passed
  <2>6. Clean'
    BY <1>1, <1>3, <1>4, <2>1, <2>3, <2>5, CleanFacts DEF Clean, SvcLeft, Closed, Ends
  <2>7. QED
    BY <2>4, <2>5, <2>6 DEF IInv
<1>9. QED
  BY <1>7, <1>8

-----------------------------------------------------------------------------
(* The rule and the accept loop.                                            *)

\* A rule that is started again gives no running goroutine a live context.
LEMMA StartInv ==
  ASSUME IInv, Start
  PROVE  IInv'
<1>1. /\ ~on /\ on' = TRUE /\ limit' \in Limits
      /\ UNCHANGED <<stage, lim, end, inbox, pipe, cut, sent, owed, after, spoiled>>
  BY DEF Start
<1>2. Shape' /\ Flow' /\ Late'
  BY <1>1 DEF IInv, Shape, TypeOK, Flow, Late, InFlow, OutFlow, InPassed, OutPassed, Passed
<1>3. Clean'
  BY <1>1 DEF IInv, Clean
<1>4. QED
  BY <1>2, <1>3 DEF IInv

\* What has passed is part of what is under way.
LEMMA PassedIsSent ==
  ASSUME Shape, Flow
  PROVE  /\ InPassed \in Nat /\ OutPassed \in Nat
         /\ InPassed <= owed["in"] /\ OutPassed <= owed["out"]
<1>1. \A d \in Server : Passed(d) \in Nat /\ Passed(d) <= pipe[d].n /\ pipe[d].n \in Nat
  BY Typed DEF Passed, Pipes
<1>2. InPassed \in Nat /\ InFlow \in Nat /\ InPassed <= InFlow
  BY <1>1, FlowTyped DEF InPassed, InFlow, Server
<1>3. OutPassed \in Nat /\ OutFlow \in Nat /\ OutPassed <= OutFlow
  BY <1>1, FlowTyped DEF OutPassed, OutFlow, Server
<1>4. QED
  BY <1>2, <1>3, Typed DEF Flow

\* A stop of the rule cancels both contexts: from now on what is sent is late.
LEMMA StopInv ==
  ASSUME IInv, Stop
  PROVE  IInv'
<1>1. /\ on' = FALSE /\ spoiled' = (stage # "free")
      /\ pipe' = [d \in Pipes |-> IF d \in Server THEN [pipe[d] EXCEPT !.live = FALSE] ELSE pipe[d]]
      /\ UNCHANGED <<limit, stage, lim, end, inbox, cut, sent, owed, after>>
  BY DEF Stop
<1>2. \A d \in Pipes : /\ pipe'[d].pc = pipe[d].pc /\ pipe'[d].n = pipe[d].n
                       /\ pipe'[d] \in PipeRec
                       /\ d \in Server => ~pipe'[d].live
                       /\ d \notin Server => pipe'[d] = pipe[d]
  BY <1>1, Typed DEF PipeRec, IInv
<1>3. pipe' \in [Pipes -> PipeRec]
  BY <1>1, <1>2
<1>4. Shape'
  <2>1. TypeOK'
    BY <1>1, <1>3 DEF IInv, Shape, TypeOK, PipeRec
  <2>2. /\ \A d \in Pipes : pipe'[d].n = 0 <=> pipe'[d].pc \in {"none", "check", "read", "done"}
        /\ \A d \in Pipes \ Server :
              pipe'[d].pc \in {"none", "read", "write", "done"} /\ ~pipe'[d].live
        /\ pipe'["cin"].pc = "none" <=> pipe'["cout"].pc = "none"
        /\ stage # "piped" => pipe'["in"].pc = "none"
        /\ stage \notin {"half", "piped"} => pipe'["out"].pc = "none"
    BY <1>2 DEF IInv, Shape, Pipes, Server
  <2>3. ASSUME stage = "free"
        PROVE  /\ end = Unused /\ inbox = NoUnits /\ pipe' = NoPipes
               /\ ~cut /\ spoiled' = FALSE /\ sent = Zero /\ owed = Zero /\ after = Zero
    <3>1. \A d \in Pipes : pipe[d] = NoPipe
      BY <2>3 DEF IInv, Shape, NoPipes
    <3>2. \A d \in Pipes : pipe'[d] = NoPipe
      <4>1. TAKE d \in Pipes
      <4>2. CASE d \in Server
        <5>1. pipe'[d] \in PipeRec /\ pipe'[d].pc = "none" /\ pipe'[d].n = 0 /\ pipe'[d].live = FALSE
          BY <1>2, <3>1, <4>2 DEF NoPipe, PipeRec
        <5>2. QED
          BY <5>1 DEF NoPipe, PipeRec
      <4>3. CASE d \notin Server
        BY <1>2, <3>1, <4>3
      <4>4. QED
        BY <4>2, <4>3
    <3>3. pipe' = NoPipes
      BY <1>1, <3>2 DEF NoPipes
    <3>4. QED
      <4>1. /\ end = Unused /\ inbox = NoUnits /\ ~cut /\ sent = Zero /\ owed = Zero /\ after = Zero
        BY <2>3 DEF IInv, Shape
      <4>2. spoiled' = FALSE
        BY <1>1, <2>3, Zenon
      <4>3. QED
        BY <3>3, <4>1, <4>2
  <2>4. QED
    BY <1>1, <2>1, <2>2, <2>3 DEF IInv, Shape
<1>5. UNCHANGED <<InFlow, OutFlow, InPassed, OutPassed>>
  BY <1>1, <1>2 DEF InFlow, OutFlow, InPassed, OutPassed, Passed, Pipes, Server
<1>6. Flow'
  BY <1>1, <1>5 DEF IInv, Flow
<1>7. Late'
  <2>1. /\ pipe'["in"].pc = pipe["in"].pc /\ ~pipe'["in"].live
        /\ pipe'["out"].pc = pipe["out"].pc /\ ~pipe'["out"].live
    BY <1>2 DEF Pipes, Server
  <2>2. /\ InPassed \in Nat /\ OutPassed \in Nat
        /\ InPassed <= owed["in"] /\ OutPassed <= owed["out"]
    BY PassedIsSent DEF IInv
  <2>3. QED
    BY <1>1, <1>5, <2>1, <2>2 DEF IInv, Late
<1>8. Clean'
  BY <1>1 DEF Clean
<1>9. QED
  BY <1>4, <1>6, <1>7, <1>8 DEF IInv

\* What is left of a connection that is forgotten.
LEMMA FreeFacts ==
  ASSUME Shape, stage = "free"
  PROVE  /\ \A e \in Ends : end[e] = "none" /\ inbox[e] = 0
         /\ \A d \in Pipes : pipe[d].pc = "none" /\ pipe[d].n = 0
         /\ ~cut /\ ~spoiled /\ owed["out"] = 0 /\ owed["in"] = 0
BY DEF Shape, Unused, NoUnits, NoPipes, NoPipe, Zero, Server

\* A new connection finds its slot empty.
LEMMA AcceptInv ==
  ASSUME IInv, Accept
  PROVE  IInv'
<1>1. /\ stage = "free" /\ on /\ stage' = "accepted" /\ lim' = limit
      /\ end' = [end EXCEPT !["user"] = "open", !["pub"] = "open"]
      /\ UNCHANGED <<on, limit, inbox, pipe, cut, sent, owed, after, spoiled>>
  BY DEF Accept, rule
<1>2. /\ \A e \in Ends : end[e] = "none" /\ inbox[e] = 0
      /\ \A d \in Pipes : pipe[d].pc = "none" /\ pipe[d].n = 0
      /\ ~cut /\ owed["out"] = 0
  BY <1>1, FreeFacts DEF IInv
<1>3. /\ end' \in [Ends -> EndStates] /\ \A e \in Ends : end'[e] \in {"none", "open"}
      /\ end'["user"] = "open"
  BY <1>1, <1>2, Typed DEF IInv, EndStates, Ends
<1>4. Shape'
  BY <1>1, <1>3 DEF IInv, Shape, TypeOK, EndStates, Held, Ends
<1>5. Flow' /\ Late' /\ OutFlow' = OutFlow
  BY <1>1 DEF IInv, Flow, Late, InFlow, OutFlow, InPassed, OutPassed, Passed
<1>6. OutFlow = 0
  BY <1>2 DEF OutFlow, Ends, Pipes, Server
<1>7. Clean'
  BY <1>1, <1>2, <1>3, <1>5, <1>6 DEF Clean, SvcLeft, Closed, Ends, Pipes, Server
<1>8. QED
  BY <1>4, <1>5, <1>7 DEF IInv

\* A stream opens with both its ends, and nothing under way in it.
LEMMA OpenStreamInv ==
  ASSUME IInv, OpenStream
  PROVE  IInv'
<1>1. /\ stage = "accepted" /\ stage' = "opened"
      /\ end' = [end EXCEPT !["srv"] = "open", !["cli"] = "open"]
      /\ UNCHANGED <<on, limit, lim, inbox, pipe, cut, sent, owed, after, spoiled>>
  BY DEF OpenStream, rule
<1>2. /\ end' \in [Ends -> EndStates] /\ \A e \in Ends \ {"srv", "cli"} : end'[e] = end[e]
      /\ end'["srv"] = "open" /\ end'["cli"] = "open"
  <2>1. end \in [Ends -> EndStates]
    BY Typed DEF IInv
  <2>2. QED
    BY <1>1, <2>1 DEF EndStates, Ends
<1>3. Shape'
  BY <1>1, <1>2 DEF IInv, Shape, TypeOK, EndStates, Held, Ends
<1>4. Flow' /\ Late' /\ OutFlow' = OutFlow
  BY <1>1 DEF IInv, Flow, Late, InFlow, OutFlow, InPassed, OutPassed, Passed
<1>5. pipe["out"].pc = "none"
  BY <1>1 DEF IInv, Shape
<1>6. Clean'
  <2> SUFFICES ASSUME ~spoiled PROVE Clean'
    BY <1>1 DEF Clean
  <2>1. ~Closed("pub")
    BY <1>1, <1>5, CleanFacts
  <2>2. end'["pub"] # "closed" /\ end'["user"] = end["user"] /\ end'["svc"] = end["svc"]
        /\ end'["loc"] = end["loc"]
    BY <1>2, <2>1 DEF Closed, Ends
  <2>3. QED
    BY <1>1, <1>2, <1>4, <2>2, CleanFacts DEF Clean, SvcLeft, Closed
<1>7. QED
  BY <1>3, <1>4, <1>6 DEF IInv

\* The header is not a unit of the connection.
LEMMA HeaderInv ==
  ASSUME IInv, Header
  PROVE  IInv'
<1>1. /\ stage = "opened" /\ stage' = "headed"
      /\ UNCHANGED <<on, limit, lim, end, inbox, pipe, cut, sent, owed, after, spoiled>>
  BY DEF Header, rule
<1>2. Shape'
  BY <1>1 DEF IInv, Shape, TypeOK
<1>3. Flow' /\ Late' /\ OutFlow' = OutFlow
  BY <1>1 DEF IInv, Flow, Late, InFlow, OutFlow, InPassed, OutPassed, Passed
<1>4. Clean'
  BY <1>1, <1>3 DEF IInv, Clean, SvcLeft, Closed
<1>5. QED
  BY <1>2, <1>3, <1>4 DEF IInv

\* A goroutine of the server starts with an empty buffer.
LEMMA LaunchInv ==
  ASSUME IInv, NEW from, NEW d, NEW to, Launch(from, d, to),
         \/ from = "headed" /\ d = "out" /\ to = "half"
         \/ from = "half" /\ d = "in" /\ to = "piped"
  PROVE  IInv'
<1>1. /\ stage = from /\ stage' = to
      /\ pipe' = [pipe EXCEPT ![d] = [pc |-> "check", n |-> 0, live |-> on]]
      /\ UNCHANGED <<on, limit, lim, end, inbox, cut, sent, owed, after, spoiled>>
  BY DEF Launch, rule
<1>2. d \in Server /\ d \in Pipes /\ on \in BOOLEAN /\ 0 \in 0..Buf
  BY SizesTyped DEF Server, Pipes, IInv, Shape, TypeOK
<1>3. pipe[d].pc = "none" /\ pipe[d].n = 0
  <2>1. pipe[d].pc = "none"
    BY <1>1 DEF IInv, Shape
  <2>2. QED
    BY <1>2, <2>1 DEF IInv, Shape
<1>4. /\ pipe' \in [Pipes -> PipeRec] /\ \A c \in Pipes \ {d} : pipe'[c] = pipe[c]
      /\ pipe'[d].pc = "check" /\ pipe'[d].n = 0 /\ pipe'[d].live = on
  <2>1. pipe \in [Pipes -> PipeRec]
    BY Typed DEF IInv
  <2>2. [pc |-> "check", n |-> 0, live |-> on] \in PipeRec
    BY <1>2 DEF PipeRec
  <2>3. QED
    BY <1>1, <1>2, <2>1, <2>2
<1>5. Shape'
  <2>1. TypeOK'
    BY <1>1, <1>4 DEF IInv, Shape, TypeOK, PipeRec
  <2>2. \A c \in Pipes : pipe'[c].n = 0 <=> pipe'[c].pc \in {"none", "check", "read", "done"}
    BY <1>4 DEF IInv, Shape
  <2>3. \A c \in Pipes \ Server : pipe'[c] = pipe[c]
    BY <1>2, <1>4
  <2>4. \A c \in Pipes \ Server :
           pipe'[c].pc \in {"none", "read", "write", "done"} /\ ~pipe'[c].live
    BY <2>3 DEF IInv, Shape
  <2>5. pipe'["cin"].pc = "none" <=> pipe'["cout"].pc = "none"
    BY <2>3 DEF IInv, Shape, Pipes, Server
  <2>6. /\ stage' # "piped" => pipe'["in"].pc = "none"
        /\ stage' \notin {"half", "piped"} => pipe'["out"].pc = "none"
    BY <1>1, <1>4 DEF IInv, Shape, Pipes, Server
  <2>7. QED
    BY <1>1, <2>1, <2>2, <2>4, <2>5, <2>6 DEF IInv, Shape
<1>6. \A c \in Pipes : pipe'[c].n = pipe[c].n
  BY <1>3, <1>4
<1>7. \A c \in Server : Passed(c)' = Passed(c)
  BY <1>3, <1>4 DEF Passed, Pipes
<1>8. UNCHANGED <<InFlow, OutFlow, InPassed, OutPassed>>
  BY <1>1, <1>6, <1>7 DEF InFlow, OutFlow, InPassed, OutPassed, Pipes, Server
<1>9. Flow'
  BY <1>1, <1>8 DEF IInv, Flow
<1>10. Late'
  <2>1. /\ InPassed \in Nat /\ OutPassed \in Nat
        /\ InPassed <= owed["in"] /\ OutPassed <= owed["out"]
    BY PassedIsSent DEF IInv
  <2>2. CASE d = "in"
    <3>1. after["in"] = 0 /\ pipe'["out"] = pipe["out"]
      BY <1>3, <1>4, <2>2 DEF IInv, Late, Pipes, Server
    <3>2. QED
      BY <1>1, <1>8, <2>1, <2>2, <3>1 DEF IInv, Late
  <2>3. CASE d = "out"
    <3>1. after["out"] = 0 /\ pipe'["in"] = pipe["in"]
      BY <1>3, <1>4, <2>3 DEF IInv, Late, Pipes, Server
    <3>2. QED
      BY <1>1, <1>8, <2>1, <2>3, <3>1 DEF IInv, Late
  <2>4. QED
    BY <2>2, <2>3
<1>11. Clean'
  <2> SUFFICES ASSUME ~spoiled PROVE Clean'
    BY <1>1 DEF Clean
  <2>1. stage # "free" /\ stage' \notin {"free", "ended"}
    BY <1>1
  <2>2. \A c \in Server : pipe'[c].pc # "none" => pipe'[c].live
    BY <1>4, <2>1, CleanFacts DEF Pipes
  <2>3. pipe["out"].pc = "done" => pipe'["out"].pc = "done"
    BY <1>3, <1>4 DEF Pipes, Server
  <2>4. pipe["cout"].pc = "done" => pipe'["cout"].pc = "done"
    BY <1>3, <1>4 DEF Pipes, Server
  <2>5. QED
    BY <1>1, <1>8, <2>1, <2>2, <2>3, <2>4, CleanFacts DEF Clean, SvcLeft, Closed
<1>12. QED
  BY <1>5, <1>9, <1>10, <1>11 DEF IInv

\* The client's two goroutines start together, over an empty link.
LEMMA DialInv ==
  ASSUME IInv, Dial
  PROVE  IInv'
<1>1. /\ end["cli"] = "open" /\ pipe["cin"] = NoPipe
      /\ end' = [end EXCEPT !["loc"] = "open", !["svc"] = "open"]
      /\ pipe' = [pipe EXCEPT !["cin"].pc = "read", !["cout"].pc = "read"]
      /\ UNCHANGED <<on, limit, stage, lim, inbox, cut, sent, owed, after, spoiled>>
  BY DEF Dial, rule
<1>2. stage # "free" /\ pipe \in [Pipes -> PipeRec] /\ end \in [Ends -> EndStates]
  BY <1>1, InUse, Typed DEF IInv, Ends
<1>3. pipe["cin"].pc = "none" /\ pipe["cout"].pc = "none"
  BY <1>1 DEF NoPipe, IInv, Shape
<1>4. /\ end' \in [Ends -> EndStates] /\ \A e \in Ends \ {"loc", "svc"} : end'[e] = end[e]
      /\ end'["loc"] = "open" /\ end'["svc"] = "open"
  BY <1>1, <1>2 DEF EndStates, Ends
<1>5. /\ pipe' \in [Pipes -> PipeRec] /\ \A c \in Server : pipe'[c] = pipe[c]
      /\ \A c \in Pipes : pipe'[c].n = pipe[c].n /\ pipe'[c].live = pipe[c].live
      /\ pipe'["cin"].pc = "read" /\ pipe'["cout"].pc = "read"
  <2> DEFINE mid == [pipe EXCEPT !["cin"].pc = "read"]
  <2>1. /\ mid \in [Pipes -> PipeRec] /\ \A c \in Pipes \ {"cin"} : mid[c] = pipe[c]
        /\ mid["cin"].pc = "read" /\ mid["cin"].n = pipe["cin"].n
        /\ mid["cin"].live = pipe["cin"].live
    BY <1>2 DEF PipeRec, Pipes
  <2>2. pipe' = [mid EXCEPT !["cout"].pc = "read"]
    BY <1>1
  <2> HIDE DEF mid
  <2>3. /\ pipe' \in [Pipes -> PipeRec] /\ \A c \in Pipes \ {"cout"} : pipe'[c] = mid[c]
        /\ pipe'["cout"].pc = "read" /\ pipe'["cout"].n = mid["cout"].n
        /\ pipe'["cout"].live = mid["cout"].live
    BY <2>1, <2>2 DEF PipeRec, Pipes
  <2>4. QED
    BY <2>1, <2>3 DEF Pipes, Server
<1>6. Shape'
  <2>1. TypeOK'
    BY <1>1, <1>4, <1>5 DEF IInv, Shape, TypeOK, PipeRec, EndStates
  <2>2. \A c \in Pipes : pipe'[c].n = 0 <=> pipe'[c].pc \in {"none", "check", "read", "done"}
    BY <1>3, <1>5 DEF IInv, Shape, Pipes, Server
  <2>3. \A c \in Pipes \ Server :
           pipe'[c].pc \in {"none", "read", "write", "done"} /\ ~pipe'[c].live
    BY <1>5 DEF IInv, Shape, Pipes, Server
  <2>4. \A e \in Held : end'[e] # "fin"
    BY <1>4 DEF IInv, Shape, Held, Ends
  <2>5. /\ stage # "piped" => pipe'["in"].pc = "none"
        /\ stage \notin {"half", "piped"} => pipe'["out"].pc = "none"
    BY <1>5 DEF IInv, Shape, Server
  <2>6. QED
    BY <1>1, <1>2, <1>5, <2>1, <2>2, <2>3, <2>4, <2>5 DEF IInv, Shape
<1>7. UNCHANGED <<InFlow, OutFlow, InPassed, OutPassed>>
  BY <1>1, <1>5 DEF InFlow, OutFlow, InPassed, OutPassed, Passed, Pipes, Server
<1>8. Flow' /\ Late'
  BY <1>1, <1>5, <1>7 DEF IInv, Flow, Late, Server
<1>9. Clean'
  <2> SUFFICES ASSUME ~spoiled PROVE Clean'
    BY <1>1 DEF Clean
  <2>1. ~Closed("cli") /\ ~Closed("srv") /\ ~Closed("pub")
    BY <1>1, <1>2, CleanFacts DEF Closed
  <2>2. QED
    <3>1. \A c \in Server : pipe'[c].pc # "none" => pipe'[c].live
      BY <1>2, <1>5, CleanFacts
    <3>2. /\ end'["user"] = "open" /\ end'["svc"] = "open" /\ end'["loc"] = "open"
          /\ end'["cli"] # "closed" /\ end'["srv"] # "closed" /\ end'["pub"] # "closed"
      BY <1>2, <1>4, <2>1, CleanFacts DEF Ends, Closed
    <3>3. ~cut /\ on /\ stage # "ended" /\ OutFlow' = owed'["out"]
      BY <1>1, <1>2, <1>7, CleanFacts
    <3>4. QED
      BY <1>1, <3>1, <3>2, <3>3 DEF Clean, SvcLeft, Closed
<1>10. QED
  BY <1>6, <1>8, <1>9 DEF IInv

-----------------------------------------------------------------------------
(* The user and the service.                                                *)

\* What was sent after the stop is still owed.
LEMMA LateIsOwed ==
  ASSUME Shape, Flow, Late
  PROVE  /\ \A d \in Server : after[d] <= owed[d] /\ owed[d] <= sent[d]
         /\ \A d \in Server : after[d] \in Nat /\ owed[d] \in Nat /\ sent[d] \in Nat
<1>1. InPassed \in Nat /\ OutPassed \in Nat
  BY PassedIsSent
<1>2. after["in"] <= owed["in"] /\ after["out"] <= owed["out"]
  BY <1>1, Typed DEF Late
<1>3. QED
  BY <1>2, Typed DEF Flow, Server

\* One more is sent, whether it arrives or not.
LEMMA SendShape ==
  ASSUME IInv, NEW d \in Server, Send(d)
  PROVE  /\ Shape' /\ stage # "free"
         /\ sent'[d] = sent[d] + 1 /\ owed'[d] = owed[d] + 1
         /\ IF pipe[d].pc # "none" /\ ~pipe[d].live THEN after'[d] = after[d] + 1
                                                    ELSE after'[d] = after[d]
         /\ \A c \in Server \ {d} :
               sent'[c] = sent[c] /\ owed'[c] = owed[c] /\ after'[c] = after[c]
<1>1. /\ end[Far[d]] = "open" /\ sent[d] < Units[d] /\ Put(Far[d], 1)
      /\ sent' = [sent EXCEPT ![d] = @ + 1] /\ owed' = [owed EXCEPT ![d] = @ + 1]
      /\ after' = IF pipe[d].pc # "none" /\ ~pipe[d].live THEN [after EXCEPT ![d] = @ + 1] ELSE after
      /\ spoiled' = (spoiled \/ (d = "in" /\ end["svc"] \in {"fin", "closed"}))
      /\ UNCHANGED <<on, limit, stage, lim, pipe, cut>>
  BY DEF Send, rule
<1>2. Far[d] \in Ends
  BY Wiring DEF Server, Ends
<1>3. stage # "free" /\ Shape
  BY <1>1, <1>2, InUse DEF IInv
<1>4. end' = end /\ inbox' \in [Ends -> 0..Cap]
  BY <1>1, <1>2, <1>3, PutFacts
<1>5. /\ sent \in [Server -> Nat] /\ owed \in [Server -> Nat] /\ after \in [Server -> Nat]
  BY DEF IInv, Shape
<1>6. /\ sent' \in [Server -> Nat] /\ owed' \in [Server -> Nat] /\ after' \in [Server -> Nat]
      /\ sent'[d] = sent[d] + 1 /\ owed'[d] = owed[d] + 1
      /\ IF pipe[d].pc # "none" /\ ~pipe[d].live THEN after'[d] = after[d] + 1
                                                 ELSE after'[d] = after[d]
      /\ \A c \in Server \ {d} :
            sent'[c] = sent[c] /\ owed'[c] = owed[c] /\ after'[c] = after[c]
  <2>1. sent[d] + 1 \in Nat /\ owed[d] + 1 \in Nat /\ after[d] + 1 \in Nat
    BY <1>5
  <2>2. /\ sent' \in [Server -> Nat] /\ sent'[d] = sent[d] + 1
        /\ \A c \in Server \ {d} : sent'[c] = sent[c]
    BY <1>1, <1>5, <2>1
  <2>3. /\ owed' \in [Server -> Nat] /\ owed'[d] = owed[d] + 1
        /\ \A c \in Server \ {d} : owed'[c] = owed[c]
    BY <1>1, <1>5, <2>1
  <2>4. /\ after' \in [Server -> Nat]
        /\ IF pipe[d].pc # "none" /\ ~pipe[d].live THEN after'[d] = after[d] + 1
                                                   ELSE after'[d] = after[d]
        /\ \A c \in Server \ {d} : after'[c] = after[c]
    BY <1>1, <1>5, <2>1
  <2>5. QED
    BY <2>2, <2>3, <2>4
<1>7. TypeOK'
  <2>1. \A c \in Server : {sent[c], owed[c], after[c]} \subseteq 0..Units[c] /\ Units[c] \in Nat
    BY Wiring, SizesTyped DEF IInv, Shape, TypeOK, Server
  <2>2. after[d] <= owed[d] /\ owed[d] <= sent[d] /\ after[d] \in Nat /\ owed[d] \in Nat /\ sent[d] \in Nat
    BY LateIsOwed DEF IInv
  <2>3. {sent'[d], owed'[d], after'[d]} \subseteq 0..Units[d]
    <3>1. sent[d] + 1 <= Units[d]
      BY <1>1, <2>1, <2>2
    <3>2. sent'[d] \in 0..Units[d]
      BY <1>6, <2>1, <2>2, <3>1
    <3>3. owed'[d] \in 0..Units[d]
      BY <1>6, <2>1, <2>2, <3>1
    <3>4. after'[d] \in 0..Units[d]
      BY <1>6, <2>1, <2>2, <3>1
    <3>5. QED
      BY <3>2, <3>3, <3>4
  <2>4. \A c \in Server : {sent'[c], owed'[c], after'[c]} \subseteq 0..Units[c]
    BY <1>6, <2>1, <2>3
  <2>5. spoiled' \in BOOLEAN
    BY <1>1, Zenon DEF IInv, Shape, TypeOK
  <2>6. QED
    BY <1>1, <1>4, <2>4, <2>5 DEF IInv, Shape, TypeOK
<1>8. Shape'
  BY <1>1, <1>3, <1>4, <1>6, <1>7 DEF Shape
<1>9. QED
  BY <1>3, <1>6, <1>8

\* What is sent is owed, and late if the context has been cancelled.
LEMMA SendInv ==
  ASSUME IInv, NEW d \in Server, Send(d)
  PROVE  IInv'
<1>1. /\ end[Far[d]] = "open" /\ Put(Far[d], 1)
      /\ spoiled' = (spoiled \/ (d = "in" /\ end["svc"] \in {"fin", "closed"}))
      /\ UNCHANGED <<on, limit, stage, lim, pipe, cut>>
  BY DEF Send, rule
<1>2. /\ Shape' /\ stage # "free"
      /\ sent'[d] = sent[d] + 1 /\ owed'[d] = owed[d] + 1
      /\ IF pipe[d].pc # "none" /\ ~pipe[d].live THEN after'[d] = after[d] + 1
                                                 ELSE after'[d] = after[d]
      /\ \A c \in Server \ {d} :
            sent'[c] = sent[c] /\ owed'[c] = owed[c] /\ after'[c] = after[c]
  BY SendShape
<1>3. Far[d] \in Ends /\ Shape /\ spoiled \in BOOLEAN
  BY Wiring DEF Server, Ends, IInv, Shape, TypeOK
<1>4. /\ end' = end /\ inbox' \in [Ends -> 0..Cap]
      /\ \/ /\ ~Closed(Pair[Far[d]])
            /\ inbox'[Pair[Far[d]]] = inbox[Pair[Far[d]]] + 1
            /\ \A f \in Ends \ {Pair[Far[d]]} : inbox'[f] = inbox[f]
         \/ /\ Closed(Pair[Far[d]])
            /\ inbox'[Far[d]] = inbox[Far[d]] \/ inbox'[Far[d]] = 0
            /\ \A f \in Ends \ {Far[d]} : inbox'[f] = inbox[f]
  BY <1>1, <1>3, PutFacts
<1>5. \A c \in Server : /\ after[c] <= owed[c] /\ owed[c] <= sent[c]
                        /\ after[c] \in Nat /\ owed[c] \in Nat /\ sent[c] \in Nat
  BY LateIsOwed DEF IInv
<1>6. InFlow \in Nat /\ OutFlow \in Nat
  BY <1>3, FlowTyped, Addends DEF InFlow, OutFlow
<1>7. CASE d = "in"
  <2>1. ~SvcLeft \/ spoiled'
    <3>1. SvcLeft => (spoiled \/ (d = "in" /\ end["svc"] \in {"fin", "closed"}))
      BY <1>7, Zenon DEF SvcLeft
    <3>2. QED
      BY <1>1, <3>1, Zenon
  <2>2. /\ InFlow' = InFlow + 1 \/ InFlow' = InFlow
        /\ InPassed' = InPassed
    BY <1>1, <1>3, <1>4, <1>7, Wiring, FlowTyped DEF InFlow, InPassed, Passed, Ends
  <2>3. /\ OutFlow' <= OutFlow /\ OutPassed' <= OutPassed
        /\ OutFlow' \in Nat /\ OutPassed' \in Nat /\ OutPassed \in Nat
        /\ OutFlow' = OutFlow \/ Closed("pub")
    BY <1>1, <1>3, <1>4, <1>7, Wiring, FlowTyped DEF OutFlow, OutPassed, Passed, Ends
  <2>4. InPassed \in Nat
    BY <1>3, PassedIsSent DEF IInv
  <2>5. Flow'
    BY <1>2, <1>5, <1>6, <1>7, <2>2, <2>3 DEF IInv, Flow, Server
  <2>6. Late'
    BY <1>1, <1>2, <1>5, <1>7, <2>2, <2>3, <2>4 DEF IInv, Late, Server
  <2>7. Clean'
    <3> SUFFICES ASSUME ~spoiled' PROVE Clean'
      BY DEF Clean
    <3>1. ~spoiled
      BY <1>1, Zenon
    <3>2. ~SvcLeft /\ ~Closed("cli") /\ ~Closed("loc") /\ ~Closed("srv") /\ ~Closed("pub")
      BY <1>2, <2>1, <3>1, CleanFacts
    <3>3. OutFlow' = owed'["out"]
      BY <1>2, <1>7, <2>3, <3>1, <3>2, CleanFacts DEF Server
    <3>4. QED
      BY <1>1, <1>2, <1>4, <3>1, <3>2, <3>3, CleanFacts DEF Clean, SvcLeft, Closed
  <2>8. QED
    BY <1>2, <2>5, <2>6, <2>7 DEF IInv
<1>8. CASE d = "out"
  <2>1. spoiled' = spoiled
    BY <1>1, <1>3, <1>8
  <2>2. /\ OutFlow' = OutFlow + 1 \/ (OutFlow' = OutFlow /\ Closed("loc"))
        /\ OutPassed' = OutPassed
    BY <1>1, <1>3, <1>4, <1>8, Wiring, FlowTyped DEF OutFlow, OutPassed, Passed, Ends
  <2>3. /\ InFlow' <= InFlow /\ InPassed' <= InPassed
        /\ InFlow' \in Nat /\ InPassed' \in Nat /\ InPassed \in Nat
    BY <1>1, <1>3, <1>4, <1>8, Wiring, FlowTyped DEF InFlow, InPassed, Passed, Ends
  <2>4. OutPassed \in Nat
    BY <1>3, PassedIsSent DEF IInv
  <2>5. Flow'
    BY <1>2, <1>5, <1>6, <1>8, <2>2, <2>3 DEF IInv, Flow, Server
  <2>6. Late'
    BY <1>1, <1>2, <1>5, <1>8, <2>2, <2>3, <2>4 DEF IInv, Late, Server
  <2>7. Clean'
    <3> SUFFICES ASSUME ~spoiled' PROVE Clean'
      BY DEF Clean
    <3>1. ~spoiled
      BY <2>1
    <3>2. ~SvcLeft
      BY <1>1, <1>8, Wiring DEF SvcLeft
    <3>3. ~Closed("cli") /\ ~Closed("loc") /\ ~Closed("srv") /\ ~Closed("pub")
      BY <1>2, <3>1, <3>2, CleanFacts
    <3>4. OutFlow' = owed'["out"]
      BY <1>2, <1>8, <2>2, <3>1, <3>3, CleanFacts
    <3>5. QED
      BY <1>1, <1>2, <1>4, <3>1, <3>2, <3>3, <3>4, CleanFacts DEF Clean, SvcLeft, Closed
  <2>8. QED
    BY <1>2, <2>5, <2>6, <2>7 DEF IInv
<1>9. QED
  BY <1>7, <1>8 DEF Server

\* What is received was under way, and is owed no more.
LEMMA ReceiveInv ==
  ASSUME IInv, NEW d \in Server, Receive(d)
  PROVE  IInv'
<1>1. /\ end[To[d]] \in {"open", "fin"} /\ inbox[To[d]] > 0
      /\ inbox' = [inbox EXCEPT ![To[d]] = @ - 1]
      /\ owed' = [owed EXCEPT ![d] = @ - 1]
      /\ UNCHANGED <<on, limit, stage, lim, end, pipe, cut, sent, after, spoiled>>
  BY DEF Receive, rule
<1>2. To[d] \in Ends /\ Shape /\ To["in"] = "svc" /\ To["out"] = "user"
  BY Wiring DEF Server, Ends, IInv
<1>3. stage # "free"
  BY <1>1, <1>2, InUse
<1>4. /\ inbox' \in [Ends -> 0..Cap] /\ inbox'[To[d]] = inbox[To[d]] - 1
      /\ \A e \in Ends \ {To[d]} : inbox'[e] = inbox[e]
  <2>1. inbox \in [Ends -> 0..Cap] /\ inbox[To[d]] \in 0..Cap
    BY <1>2, Typed
  <2>2. inbox[To[d]] - 1 \in 0..Cap
    BY <1>1, <2>1, SizesTyped
  <2>3. QED
    BY <1>1, <1>2, <2>1, <2>2
<1>5. \A c \in Server : /\ after[c] <= owed[c] /\ owed[c] <= sent[c]
                        /\ after[c] \in Nat /\ owed[c] \in Nat /\ sent[c] \in Nat
  BY LateIsOwed DEF IInv
<1>6. /\ InFlow \in Nat /\ OutFlow \in Nat /\ InPassed \in Nat /\ OutPassed \in Nat
      /\ inbox["svc"] <= InFlow /\ inbox["user"] <= OutFlow
  BY <1>2, FlowTyped, PassedIsSent DEF IInv, InFlow, OutFlow
<1>7. owed[d] >= 1
  BY <1>1, <1>2, <1>5, <1>6, FlowTyped DEF IInv, Flow, Server
<1>8. /\ owed' \in [Server -> Nat] /\ owed'[d] = owed[d] - 1
      /\ \A c \in Server \ {d} : owed'[c] = owed[c]
  <2>1. owed \in [Server -> Nat] /\ owed[d] - 1 \in Nat
    BY <1>2, <1>5, <1>7 DEF Shape
  <2>2. QED
    BY <1>1, <2>1
<1>9. Shape'
  <2>1. \A c \in Server : {sent[c], owed[c], after[c]} \subseteq 0..Units[c] /\ Units[c] \in Nat
    BY <1>2, Wiring, SizesTyped DEF Shape, TypeOK, Server
  <2>2. owed'[d] \in 0..Units[d]
    BY <1>5, <1>7, <1>8, <2>1
  <2>3. \A c \in Server : {sent[c], owed'[c], after[c]} \subseteq 0..Units[c]
    BY <1>8, <2>1, <2>2
  <2>4. TypeOK'
    BY <1>1, <1>2, <1>4, <2>3 DEF Shape, TypeOK
  <2>5. QED
    BY <1>1, <1>2, <1>3, <1>8, <2>4 DEF Shape
<1>10. CASE d = "in"
  <2>1. /\ InFlow' = InFlow - 1 /\ InPassed' = InPassed - 1
        /\ OutFlow' = OutFlow /\ OutPassed' = OutPassed
    BY <1>1, <1>2, <1>4, <1>10, FlowTyped DEF InFlow, InPassed, OutFlow, OutPassed, Passed, Ends
  <2>2. Flow'
    BY <1>1, <1>5, <1>6, <1>8, <1>10, <2>1 DEF IInv, Flow, Server
  <2>3. Late'
    BY <1>1, <1>5, <1>6, <1>8, <1>10, <2>1 DEF IInv, Late, Server
  <2>4. Clean'
    <3> SUFFICES ASSUME ~spoiled PROVE Clean'
      BY <1>1 DEF Clean
    <3>1. ~SvcLeft
      BY <1>3, <1>5, <1>7, <1>10, CleanFacts DEF Server
    <3>2. ~Closed("cli") /\ ~Closed("loc") /\ ~Closed("srv") /\ ~Closed("pub")
      BY <1>3, <3>1, CleanFacts
    <3>3. OutFlow' = owed'["out"]
      BY <1>3, <1>8, <1>10, <2>1, CleanFacts DEF Server
    <3>4. QED
      BY <1>1, <1>3, <3>1, <3>2, <3>3, CleanFacts DEF Clean, SvcLeft, Closed
  <2>5. QED
    BY <1>9, <2>2, <2>3, <2>4 DEF IInv
<1>11. CASE d = "out"
  <2>1. /\ OutFlow' = OutFlow - 1 /\ OutPassed' = OutPassed - 1
        /\ InFlow' = InFlow /\ InPassed' = InPassed
    BY <1>1, <1>2, <1>4, <1>11, FlowTyped DEF InFlow, InPassed, OutFlow, OutPassed, Passed, Ends
  <2>2. Flow'
    BY <1>1, <1>5, <1>6, <1>8, <1>11, <2>1 DEF IInv, Flow, Server
  <2>3. Late'
    BY <1>1, <1>5, <1>6, <1>8, <1>11, <2>1 DEF IInv, Late, Server
  <2>4. Clean'
    <3> SUFFICES ASSUME ~spoiled PROVE Clean'
      BY <1>1 DEF Clean
    <3>1. OutFlow' = owed'["out"] /\ owed'["in"] = owed["in"]
      BY <1>3, <1>8, <1>11, <2>1, CleanFacts DEF Server
    <3>2. inbox'["loc"] = inbox["loc"] /\ inbox'["srv"] = inbox["srv"]
      BY <1>2, <1>4, <1>11 DEF Ends
    <3>3. QED
      BY <1>1, <1>3, <3>1, <3>2, CleanFacts DEF Clean, SvcLeft, Closed
  <2>5. QED
    BY <1>9, <2>2, <2>3, <2>4 DEF IInv
<1>12. QED
  BY <1>10, <1>11 DEF Server

-----------------------------------------------------------------------------
(* The whole.                                                               *)

\* A connection that is not there has the shape, and nothing under way.
LEMMA InitIInv == Init => IInv
<1> SUFFICES ASSUME Init PROVE IInv
  OBVIOUS
<1>1. /\ on = FALSE /\ limit \in Limits /\ lim = limit
      /\ stage = "free" /\ end = Unused /\ inbox = NoUnits /\ pipe = NoPipes
      /\ cut = FALSE /\ spoiled = FALSE
      /\ sent = Zero /\ owed = Zero /\ after = Zero
  BY DEF Init
<1>2. /\ end \in [Ends -> EndStates] /\ inbox \in [Ends -> 0..Cap] /\ pipe \in [Pipes -> PipeRec]
      /\ sent \in [Server -> Nat] /\ owed \in [Server -> Nat] /\ after \in [Server -> Nat]
      /\ \A d \in Server : {sent[d], owed[d], after[d]} \subseteq 0..Units[d]
  BY <1>1, Wiring, SizesTyped
     DEF Unused, NoUnits, NoPipes, NoPipe, PipeRec, EndStates, Zero, Server
<1>3. /\ \A e \in Ends : end[e] = "none" /\ inbox[e] = 0
      /\ \A d \in Pipes : pipe[d].pc = "none" /\ pipe[d].n = 0 /\ ~pipe[d].live
      /\ \A d \in Server : sent[d] = 0 /\ owed[d] = 0 /\ after[d] = 0
  BY <1>1 DEF Unused, NoUnits, NoPipes, NoPipe, Zero
<1>4. TypeOK
  BY <1>1, <1>2 DEF TypeOK, EndStates, PipeRec
<1>5. Shape
  BY <1>1, <1>2, <1>3, <1>4 DEF Shape, Held, Ends, Pipes, Server
<1>6. InFlow = 0 /\ OutFlow = 0
  BY <1>3 DEF InFlow, OutFlow, Ends, Pipes, Server
<1>7. Flow /\ Late
  BY <1>3, <1>6 DEF Flow, Late, Ends, Pipes, Server
<1>8. QED
  BY <1>1, <1>5, <1>7 DEF IInv, Clean

\* A connection is forgotten only when nothing is left of it.
LEMMA ForgetInv ==
  ASSUME IInv, Forget
  PROVE  IInv'
<1>1. /\ stage' = "free" /\ end' = Unused /\ inbox' = NoUnits /\ pipe' = NoPipes
      /\ cut' = FALSE /\ spoiled' = FALSE
      /\ sent' = Zero /\ owed' = Zero /\ after' = Zero
      /\ lim' = limit /\ on' = on /\ limit' = limit
  BY DEF Forget, rule
<1>2. /\ end' \in [Ends -> EndStates] /\ inbox' \in [Ends -> 0..Cap] /\ pipe' \in [Pipes -> PipeRec]
      /\ sent' \in [Server -> Nat] /\ owed' \in [Server -> Nat] /\ after' \in [Server -> Nat]
      /\ \A d \in Server : {sent'[d], owed'[d], after'[d]} \subseteq 0..Units[d]
  BY <1>1, Wiring, SizesTyped
     DEF Unused, NoUnits, NoPipes, NoPipe, PipeRec, EndStates, Zero, Server
<1>3. /\ \A e \in Ends : end'[e] = "none" /\ inbox'[e] = 0
      /\ \A d \in Pipes : pipe'[d].pc = "none" /\ pipe'[d].n = 0 /\ ~pipe'[d].live
      /\ \A d \in Server : sent'[d] = 0 /\ owed'[d] = 0 /\ after'[d] = 0
  BY <1>1 DEF Unused, NoUnits, NoPipes, NoPipe, Zero
<1>4. TypeOK'
  BY <1>1, <1>2 DEF TypeOK, EndStates, PipeRec, IInv, Shape
<1>5. Shape'
  BY <1>1, <1>2, <1>3, <1>4 DEF Shape, Held, Ends, Pipes, Server
<1>6. InFlow' = 0 /\ OutFlow' = 0
  BY <1>3 DEF InFlow, OutFlow, Ends, Pipes, Server
<1>7. Flow' /\ Late'
  BY <1>3, <1>6 DEF Flow, Late, Ends, Pipes, Server
<1>8. QED
  BY <1>1, <1>5, <1>7 DEF IInv, Clean

\* Every step keeps the invariant, by one case per action.
LEMMA NextIInv == IInv /\ [Next]_vars => IInv'
<1> SUFFICES ASSUME IInv, [Next]_vars PROVE IInv'
  OBVIOUS
<1>1. CASE Start \/ Stop \/ Accept
  BY <1>1, StartInv, StopInv, AcceptInv
<1>2. CASE AcceptLoop
  <2>1. CASE NoStream \/ NoHeader
    BY <2>1, NoStreamInv
  <2>2. CASE OpenStream \/ Header
    BY <2>2, OpenStreamInv, HeaderInv
  <2>3. CASE Launch("headed", "out", "half")
    BY <2>3, LaunchInv
  <2>4. CASE Launch("half", "in", "piped")
    BY <2>4, LaunchInv
  <2>5. QED
    BY <1>2, <2>1, <2>2, <2>3, <2>4 DEF AcceptLoop
<1>3. CASE Dial \/ DialFails
  BY <1>3, DialInv, DialFailsInv
<1>4. CASE \E d \in Pipes : PipeStep(d)
  BY <1>4, PipeStepInv
<1>5. CASE \E d \in Server : Send(d) \/ Receive(d) \/ Leave(d)
  BY <1>5, SendInv, ReceiveInv, LeaveInv
<1>6. CASE Cut \/ Forget
  BY <1>6, CutInv, ForgetInv
<1>7. CASE UNCHANGED vars
  BY <1>7 DEF vars, IInv, Shape, TypeOK, Flow, Late, Clean, InFlow, OutFlow, InPassed, OutPassed,
              Passed, SvcLeft, Closed
<1>8. QED
  BY <1>1, <1>2, <1>3, <1>4, <1>5, <1>6, <1>7 DEF Next

\* The invariant holds in every behaviour.
LEMMA AlwaysIInv == Spec => []IInv
BY InitIInv, NextIInv, PTL DEF Spec

-----------------------------------------------------------------------------
(* The theorems.                                                            *)

\* Every variable keeps its type: no inbox, buffer or counter leaves its range,
\* whatever the sizes.
THEOREM TypeCorrect == Spec => []TypeOK
<1>1. IInv => TypeOK
  BY DEF IInv, Shape
<1>2. QED
  BY <1>1, AlwaysIInv, PTL

\* What a side sends over a connection whose rule has been stopped is never
\* received (rateLimitedProxy checks its context before each read and in the
\* wait for the limiter, proxy.go:120-135).
THEOREM NothingCrossesAStop == Spec => []StopCutsOff
<1>1. IInv => StopCutsOff
  BY LateIsOwed DEF IInv, StopCutsOff
<1>2. QED
  BY <1>1, AlwaysIInv, PTL

\* No unit is received twice or made up: what is under way in a direction was
\* sent in it and is not received yet (proxy.go:117-145, client.go:144-156).
THEOREM NothingIsMadeUp == Spec => []Flow
<1>1. IInv => Flow
  BY DEF IInv
<1>2. QED
  BY <1>1, AlwaysIInv, PTL

\* The server closes a user's connection nothing has spoiled only when the whole
\* answer of the service is written to it (proxy.go:111-145, client.go:144-156).
THEOREM AnswersArrive == Spec => []AnswerArrives
<1>1. ASSUME IInv, ~spoiled, end["pub"] = "closed"
      PROVE  owed["out"] = inbox["user"]
  <2>1. stage # "free"
    BY <1>1, InUse DEF IInv, Ends
  <2>2. /\ pipe["out"].pc = "done" /\ inbox["srv"] = 0
        /\ pipe["cout"].pc = "done" /\ inbox["loc"] = 0 /\ OutFlow = owed["out"]
    BY <1>1, <2>1, CleanFacts DEF Closed
  <2>3. pipe["out"].n = 0 /\ pipe["cout"].n = 0
    BY <1>1, <2>2 DEF IInv, Shape, Pipes, Server
  <2>4. QED
    <3>1. inbox["user"] \in Nat
      BY FlowTyped, <1>1 DEF IInv
    <3>2. OutFlow = inbox["user"]
      BY <2>2, <2>3, <3>1 DEF OutFlow
    <3>3. QED
      BY <2>2, <3>2
<1>2. IInv => AnswerArrives
  BY <1>1 DEF AnswerArrives
<1>3. QED
  BY <1>2, AlwaysIInv, PTL
=============================================================================
