------------------------------ MODULE CertsProofs ------------------------------
(***************************************************************************)
(* What Certs keeps for any number of overlapping commands, of key pairs   *)
(* and of faults: a command that nothing disturbs leaves files that fit,   *)
(* and a service start panics only of damage or of a command beside it.    *)
(***************************************************************************)
EXTENDS Certs, TLAPS

-----------------------------------------------------------------------------
(* The inductive invariant.                                                 *)

Issued(key, by) == [key |-> key, by |-> by]

\* The files a command has still to write.
Ca2(k) == << Writes("ca.key", k, k), Writes("ca.crt", k, k) >>
Ca1(k) == << Writes("ca.crt", k, k) >>
Gen4(g, by) == << Writes("server.key", g, g), Writes("server.crt", g, by),
                  Writes("client.key", g, g), Writes("client.crt", g, by) >>
Gen3(g, by) == << Writes("server.crt", g, by), Writes("client.key", g, g),
                  Writes("client.crt", g, by) >>
Gen2(g, by) == << Writes("client.key", g, g), Writes("client.crt", g, by) >>
Gen1(g, by) == << Writes("client.crt", g, by) >>

OpRec == [kind : {"none", "ca", "gen"}, ca : Pem \cup {Nil}, todo : Seq(Block),
          opened : BOOLEAN, mixed : BOOLEAN]

Types ==
    /\ file \in [Files -> Pem \cup {Torn, Nil}]
    /\ op \in [Ops -> OpRec]
    /\ svc \in [pc : {"off", "crt", "key", "ca"}, crt : Pem \cup {Torn, Nil}, mixed : BOOLEAN]
    /\ panicked \in BOOLEAN /\ damaged \in BOOLEAN

\* The command x beside the files d: what it has still to write, and that what
\* it has written is there unless it was disturbed.
CaStage(x, d) ==
    x.ca = Nil /\ \E k \in CaKeys :
        \/ x.todo = Ca2(k)
        \/ x.todo = Ca1(k) /\ (~x.mixed => d["ca.key"] = Issued(k, k))

GenRead(x, d) ==
    /\ x.todo = << >> /\ ~x.opened /\ x.ca \in Pem
    /\ ~x.mixed => d["ca.crt"] = x.ca

GenStage(x, d) ==
    x.ca = Nil /\ \E g \in Leafs, by \in CaKeys \cup Leafs :
        /\ ~x.mixed => d["ca.crt"] \in Pem /\ d["ca.crt"].key = by
        /\ \/ x.todo = Gen4(g, by)
           \/ /\ x.todo = Gen3(g, by)
              /\ ~x.mixed => d["server.key"] = Issued(g, g)
           \/ /\ x.todo = Gen2(g, by)
              /\ ~x.mixed => d["server.key"] = Issued(g, g) /\ d["server.crt"] = Issued(g, by)
           \/ /\ x.todo = Gen1(g, by)
              /\ ~x.mixed => /\ d["server.key"] = Issued(g, g) /\ d["server.crt"] = Issued(g, by)
                             /\ d["client.key"] = Issued(g, g)

Stage(x, d) ==
    \/ x = IdleOp
    \/ x.kind = "ca" /\ CaStage(x, d)
    \/ x.kind = "gen" /\ (GenRead(x, d) \/ GenStage(x, d))

Stages == \A o \in Ops : Stage(op[o], file)

\* A command that is not mixed is the only one, and nothing else runs beside a
\* service start that is not.
Alone ==
    /\ \A o, q \in Ops : Busy(o) /\ ~op[o].mixed /\ Busy(q) => q = o
    /\ svc.pc # "off" /\ ~svc.mixed => \A o \in Ops : ~Busy(o)

\* Without damage the files no command is writing are whole.
ServerWhole == (file["server.key"] = Nil /\ file["server.crt"] = Nil) \/ Pair("server.key", "server.crt")
CaWhole == file["ca.crt"] # Torn
Whole ==
    ~damaged =>
        /\ (\A o \in Ops : op[o].kind = "gen" => op[o].todo = << >>) => ServerWhole
        /\ (\A o \in Ops : op[o].kind # "ca") => CaWhole

\* What a service start has found, and what it has read.
Started ==
    svc.pc # "off" =>
        /\ \A f \in {"ca.crt", "server.key", "server.crt"} : Exists(f)
        /\ svc.pc = "key" /\ ~svc.mixed => svc.crt = file["server.crt"]

\* Nothing runs in a process that has died.
Dead == panicked => svc.pc \in {"key", "ca"} /\ \A o \in Ops : op[o] = IdleOp

IInv == Types /\ Stages /\ Alone /\ Whole /\ Started /\ Dead /\ PanicNeedsDamage

-----------------------------------------------------------------------------
(* The blocks of a command and the files it writes.                         *)

\* What is left to write after a file, and which file is next.
LEMMA CaTodo ==
  ASSUME NEW k
  PROVE  /\ Len(Ca2(k)) = 2 /\ Head(Ca2(k)) = Writes("ca.key", k, k) /\ Tail(Ca2(k)) = Ca1(k)
         /\ Len(Ca1(k)) = 1 /\ Head(Ca1(k)) = Writes("ca.crt", k, k)
         /\ Ca2(k) # << >> /\ Ca1(k) # << >>
BY DEF Ca2, Ca1

\* The same of a `cert gen`, whose four files are written in a fixed order.
LEMMA GenTodo ==
  ASSUME NEW g, NEW by
  PROVE  /\ Len(Gen4(g, by)) = 4 /\ Head(Gen4(g, by)) = Writes("server.key", g, g)
         /\ Tail(Gen4(g, by)) = Gen3(g, by)
         /\ Len(Gen3(g, by)) = 3 /\ Head(Gen3(g, by)) = Writes("server.crt", g, by)
         /\ Tail(Gen3(g, by)) = Gen2(g, by)
         /\ Len(Gen2(g, by)) = 2 /\ Head(Gen2(g, by)) = Writes("client.key", g, g)
         /\ Tail(Gen2(g, by)) = Gen1(g, by)
         /\ Len(Gen1(g, by)) = 1 /\ Head(Gen1(g, by)) = Writes("client.crt", g, by)
         /\ Gen4(g, by) # << >> /\ Gen3(g, by) # << >> /\ Gen2(g, by) # << >> /\ Gen1(g, by) # << >>
BY DEF Gen4, Gen3, Gen2, Gen1

\* A block to write, and its file.
LEMMA WritesFacts ==
  ASSUME NEW f, NEW k, NEW by
  PROVE  Writes(f, k, by).file = f /\ Writes(f, k, by).pem = Issued(k, by)
BY DEF Writes, Issued

\* A block to be written is a well-typed one.
LEMMA BlockTyped ==
  ASSUME NEW f \in Files, NEW k \in CaKeys \cup Leafs, NEW by \in CaKeys \cup Leafs
  PROVE  /\ Writes(f, k, by) \in Block
         /\ Issued(k, by) \in Pem
         /\ Issued(k, by).key = k /\ Issued(k, by).by = by
BY DEF Writes, Block, Issued, Pem

\* The empty slot.
LEMMA IdleFacts ==
  /\ IdleOp \in OpRec /\ IdleOp.kind = "none" /\ IdleOp.todo = << >>
  /\ IdleOp.opened = FALSE /\ IdleOp.mixed = FALSE
BY DEF IdleOp, OpRec

\* Nothing is claimed of the files of a disturbed command.
LEMMA MixedStage ==
  ASSUME NEW x, NEW d, NEW e, Stage(x, d), x = IdleOp \/ x.mixed
  PROVE  Stage(x, e)
BY DEF Stage, CaStage, GenRead, GenStage

\* A command that is disturbed stands where it stood.
LEMMA Disturbed ==
  ASSUME NEW x \in OpRec, NEW d, NEW e, Stage(x, d), x # IdleOp
  PROVE  Stage([x EXCEPT !.mixed = TRUE], e)
<1> DEFINE y == [x EXCEPT !.mixed = TRUE]
<1>1. /\ y.kind = x.kind /\ y.ca = x.ca /\ y.todo = x.todo /\ y.opened = x.opened
      /\ y.mixed = TRUE
  BY DEF OpRec
<1> HIDE DEF y
<1>2. Stage(y, e)
  BY <1>1 DEF Stage, CaStage, GenRead, GenStage
<1>3. QED
  BY <1>2 DEF y

\* A command that is not in an empty slot is under way.
LEMMA StageFacts ==
  ASSUME IInv, NEW o \in Ops
  PROVE  /\ op[o] \in OpRec
         /\ Busy(o) <=> op[o] # IdleOp
         /\ op[o].opened => op[o].todo # << >>
         /\ op[o].kind = "ca" => op[o].todo # << >>
         /\ op[o].todo # << >> => op[o].kind \in {"ca", "gen"}
<1>1. op[o] \in OpRec /\ Stage(op[o], file)
  BY DEF IInv, Types, Stages
<1>2. CASE op[o] = IdleOp
  BY <1>1, <1>2, IdleFacts DEF Busy
<1>3. CASE op[o].kind = "ca" /\ CaStage(op[o], file)
  BY <1>1, <1>3, IdleFacts, CaTodo DEF Busy, CaStage
<1>4. CASE op[o].kind = "gen" /\ GenRead(op[o], file)
  BY <1>1, <1>4, IdleFacts DEF Busy, GenRead
<1>5. CASE op[o].kind = "gen" /\ GenStage(op[o], file)
  BY <1>1, <1>5, IdleFacts, GenTodo DEF Busy, GenStage
<1>6. QED
  BY <1>1, <1>2, <1>3, <1>4, <1>5 DEF Stage

-----------------------------------------------------------------------------
(* Every step keeps the invariant.                                          *)

\* A command begins, beside whatever is under way.
LEMMA BeginInv ==
  ASSUME IInv, NEW o \in Ops, NEW x \in OpRec, ~panicked,
         x.kind # "none", x.kind = "gen" => x.todo = << >>,
         \A m \in BOOLEAN : Stage([x EXCEPT !.mixed = m], file),
         Begin(o, x), UNCHANGED <<file, panicked, damaged>>
  PROVE  IInv'
<1> DEFINE m == \E p \in Ops : Busy(p)
           y == [x EXCEPT !.mixed = m]
<1>1. /\ ~Busy(o)
      /\ op' = [q \in Ops |-> IF q = o THEN y
                              ELSE IF Busy(q) THEN [op[q] EXCEPT !.mixed = TRUE] ELSE op[q]]
      /\ svc' = [svc EXCEPT !.mixed = (svc.pc # "off")]
  BY DEF Begin
<1>2. /\ y \in OpRec /\ Stage(y, file)
      /\ y.kind = x.kind /\ y.todo = x.todo /\ y.mixed = m
  <2>1. m \in BOOLEAN
    OBVIOUS
  <2>2. QED
    BY <2>1 DEF OpRec
<1> HIDE DEF y
<1>3. op'[o] = y
  BY <1>1
<1>4. ASSUME NEW q \in Ops, q # o
      PROVE  /\ op'[q] \in OpRec /\ Stage(op'[q], file)
             /\ op'[q].kind = op[q].kind /\ op'[q].todo = op[q].todo
             /\ Busy(q) => op'[q].mixed
  <2>1. op[q] \in OpRec /\ Stage(op[q], file)
    BY DEF IInv, Types, Stages
  <2>2. CASE Busy(q)
    <3>1. op'[q] = [op[q] EXCEPT !.mixed = TRUE]
      BY <1>1, <1>4, <2>2
    <3>2. Stage(op'[q], file)
      BY <2>1, <2>2, <3>1, Disturbed, StageFacts
    <3>3. QED
      BY <2>1, <3>1, <3>2 DEF OpRec
  <2>3. CASE ~Busy(q)
    BY <1>1, <1>4, <2>1, <2>3
  <2>4. QED
    BY <2>2, <2>3
<1>5. /\ svc' \in [pc : {"off", "crt", "key", "ca"}, crt : Pem \cup {Torn, Nil}, mixed : BOOLEAN]
      /\ svc'.pc = svc.pc /\ svc'.crt = svc.crt
      /\ svc'.mixed = (svc.pc # "off")
  BY <1>1 DEF IInv, Types
<1>6. Types'
  <2>1. op' \in [Ops -> OpRec]
    BY <1>1, <1>2, <1>3, <1>4
  <2>2. QED
    BY <2>1, <1>5 DEF IInv, Types
<1>7. Stages'
  BY <1>2, <1>3, <1>4 DEF Stages
<1>8. Alone'
  <2>1. ASSUME NEW p \in Ops, NEW q \in Ops, Busy(p)', ~op'[p].mixed, Busy(q)'
        PROVE  q = p
    <3>1. p = o
      BY <1>4, <2>1 DEF Busy
    <3>2. ~m
      BY <3>1, <1>2, <1>3, <2>1
    <3>3. q # o => ~Busy(q)'
      BY <3>2, <1>4 DEF Busy
    <3>4. QED
      BY <3>1, <3>3, <2>1
  <2>2. svc'.pc # "off" => svc'.mixed
    BY <1>5
  <2>3. QED
    BY <2>1, <2>2 DEF Alone
<1>9. Whole'
  <2>1. op'[o].kind # "none" /\ (op'[o].kind = "gen" => op'[o].todo = << >>)
    BY <1>2, <1>3
  <2>2. op[o].kind = "none"
    BY <1>1 DEF Busy
  <2>3. (\A q \in Ops : op'[q].kind = "gen" => op'[q].todo = << >>)
           => \A q \in Ops : op[q].kind = "gen" => op[q].todo = << >>
    BY <1>4, <2>2
  <2>4. (\A q \in Ops : op'[q].kind # "ca") => \A q \in Ops : op[q].kind # "ca"
    BY <1>4, <2>2
  <2>5. ServerWhole' = ServerWhole /\ CaWhole' = CaWhole
    BY DEF ServerWhole, CaWhole, Pair, Parses
  <2>6. QED
    BY <2>3, <2>4, <2>5 DEF IInv, Whole
<1>10. Started'
  BY <1>5 DEF IInv, Started, Exists
<1>11. Dead' /\ PanicNeedsDamage'
  BY DEF Dead, PanicNeedsDamage
<1>12. QED
  BY <1>6, <1>7, <1>8, <1>9, <1>10, <1>11 DEF IInv

\* cert ca.
LEMMA GenerateCAInv ==
  ASSUME IInv, ~panicked, NEW o \in Ops, NEW overwrite \in BOOLEAN, GenerateCA(o, overwrite)
  PROVE  IInv'
<1>1. PICK k \in CaKeys :
        Begin(o, [IdleOp EXCEPT !.kind = "ca", !.todo =
                    << Writes("ca.key", k, k), Writes("ca.crt", k, k) >>])
  BY DEF GenerateCA
<1> DEFINE x == [IdleOp EXCEPT !.kind = "ca", !.todo = Ca2(k)]
<1>2. Begin(o, x) /\ UNCHANGED <<file, panicked, damaged>>
  BY <1>1 DEF Ca2, GenerateCA
<1>3. x.kind = "ca" /\ x.ca = Nil /\ x.todo = Ca2(k)
  BY DEF IdleOp
<1>4. Ca2(k) \in Seq(Block)
  <2>1. Writes("ca.key", k, k) \in Block /\ Writes("ca.crt", k, k) \in Block
    BY BlockTyped DEF Files
  <2>2. QED
    BY <2>1 DEF Ca2
<1>5. x \in OpRec
  BY <1>4, IdleFacts DEF OpRec
<1> HIDE DEF x
<1>6. ASSUME NEW m \in BOOLEAN PROVE Stage([x EXCEPT !.mixed = m], file)
  <2> DEFINE y == [x EXCEPT !.mixed = m]
  <2>1. y.kind = "ca" /\ y.ca = Nil /\ y.todo = Ca2(k)
    BY <1>3, <1>5 DEF OpRec
  <2> HIDE DEF y
  <2>2. Stage(y, file)
    BY <2>1 DEF Stage, CaStage
  <2>3. QED
    BY <2>2 DEF y
<1>7. QED
  BY <1>2, <1>3, <1>5, <1>6, BeginInv

\* cert gen begins.
LEMMA ReadCAInv ==
  ASSUME IInv, ~panicked, NEW o \in Ops, ReadCA(o)
  PROVE  IInv'
<1> DEFINE x == [IdleOp EXCEPT !.kind = "gen", !.ca = file["ca.crt"]]
<1>1. Begin(o, x) /\ UNCHANGED <<file, panicked, damaged>>
  BY DEF ReadCA
<1>2. file["ca.crt"] \in Pem
  BY DEF ReadCA, Parses, IInv, Types, Files
<1>3. x.kind = "gen" /\ x.ca = file["ca.crt"] /\ x.todo = << >> /\ ~x.opened
  BY DEF IdleOp
<1>4. x \in OpRec
  BY <1>2, IdleFacts DEF OpRec
<1> HIDE DEF x
<1>5. ASSUME NEW m \in BOOLEAN PROVE Stage([x EXCEPT !.mixed = m], file)
  <2> DEFINE y == [x EXCEPT !.mixed = m]
  <2>1. y.kind = "gen" /\ y.ca = file["ca.crt"] /\ y.todo = << >> /\ ~y.opened
    BY <1>3, <1>4 DEF OpRec
  <2> HIDE DEF y
  <2>2. Stage(y, file)
    BY <2>1, <1>2 DEF Stage, GenRead
  <2>3. QED
    BY <2>2 DEF y
<1>6. QED
  BY <1>1, <1>3, <1>4, <1>5, BeginInv

\* A command ends without having touched a file, or with damage.
LEMMA EndInv ==
  ASSUME IInv, NEW o \in Ops, Busy(o), op' = [op EXCEPT ![o] = IdleOp],
         UNCHANGED <<file, svc, panicked>>,
         damaged' = TRUE \/ (damaged' = damaged /\ op[o].kind = "gen" /\ op[o].todo = << >>)
  PROVE  IInv'
<1>1. op'[o] = IdleOp /\ \A q \in Ops \ {o} : op'[q] = op[q]
  BY DEF IInv, Types
<1>2. Types' /\ Stages'
  BY <1>1, IdleFacts DEF IInv, Types, Stages, Stage
<1>3. Alone'
  BY <1>1, IdleFacts DEF IInv, Alone, Busy
<1>4. Whole'
  <2>1. CASE damaged' = TRUE
    BY <2>1 DEF Whole
  <2>2. CASE damaged' = damaged /\ op[o].kind = "gen" /\ op[o].todo = << >>
    <3>1. ServerWhole' = ServerWhole /\ CaWhole' = CaWhole
      BY DEF ServerWhole, CaWhole, Pair, Parses
    <3>2. (\A q \in Ops : op'[q].kind = "gen" => op'[q].todo = << >>)
             => \A q \in Ops : op[q].kind = "gen" => op[q].todo = << >>
      BY <1>1, <2>2
    <3>3. (\A q \in Ops : op'[q].kind # "ca") => \A q \in Ops : op[q].kind # "ca"
      BY <1>1, <2>2
    <3>4. QED
      BY <2>2, <3>1, <3>2, <3>3 DEF IInv, Whole
  <2>3. QED
    BY <2>1, <2>2
<1>5. Started'
  BY DEF IInv, Started, Exists
<1>6. Dead' /\ PanicNeedsDamage'
  BY <1>1 DEF IInv, Dead, PanicNeedsDamage
<1>7. QED
  BY <1>2, <1>3, <1>4, <1>5, <1>6 DEF IInv

\* cert gen signs, or finds that the CA does not fit; it has written nothing.
LEMMA SignInv ==
  ASSUME IInv, NEW o \in Ops, Sign(o)
  PROVE  IInv'
<1>1. /\ op[o].kind = "gen" /\ op[o].todo = << >>
      /\ UNCHANGED <<file, svc, panicked, damaged>>
  BY DEF Sign
<1>2. Busy(o)
  BY <1>1 DEF Busy
<1>3. CASE ~Signs(o)
  BY <1>1, <1>2, <1>3, EndInv DEF Sign
<1>4. CASE Signs(o)
  <2> DEFINE by == file["ca.key"].key
  <2>1. PICK g \in Leafs : op' = [op EXCEPT ![o].ca = Nil, ![o].todo = Gen4(g, by)]
    BY <1>4 DEF Sign, Gen4
  <2>2. /\ op[o] \in OpRec /\ op \in [Ops -> OpRec] /\ GenRead(op[o], file)
    <3>1. op[o].kind # "ca" /\ op[o] # IdleOp /\ ~GenStage(op[o], file)
      BY <1>1, IdleFacts, GenTodo DEF GenStage
    <3>2. QED
      BY <3>1 DEF IInv, Types, Stages, Stage
  <2>3. file["ca.key"] \in Pem
    BY <1>4 DEF Signs, Parses, IInv, Types, Files
  <2>4. by \in CaKeys \cup Leafs
    BY <2>3 DEF Pem
  <2>5. ~op[o].mixed => file["ca.crt"] \in Pem /\ file["ca.crt"].key = by
    BY <1>4, <2>2 DEF GenRead, Signs
  <2> HIDE DEF by
  <2>6. Gen4(g, by) \in Seq(Block)
    <3>1. /\ Writes("server.key", g, g) \in Block /\ Writes("server.crt", g, by) \in Block
          /\ Writes("client.key", g, g) \in Block /\ Writes("client.crt", g, by) \in Block
      BY <2>4, BlockTyped DEF Files
    <3>2. QED
      BY <3>1 DEF Gen4
  <2>7. /\ op' \in [Ops -> OpRec]
        /\ \A q \in Ops \ {o} : op'[q] = op[q]
        /\ op'[o].kind = "gen" /\ op'[o].ca = Nil /\ op'[o].todo = Gen4(g, by)
        /\ op'[o].opened = op[o].opened /\ op'[o].mixed = op[o].mixed
    <3> DEFINE mid == [op EXCEPT ![o].ca = Nil]
    <3>1. /\ mid \in [Ops -> OpRec]
          /\ \A q \in Ops \ {o} : mid[q] = op[q]
          /\ mid[o].kind = "gen" /\ mid[o].ca = Nil
          /\ mid[o].opened = op[o].opened /\ mid[o].mixed = op[o].mixed
      BY <1>1, <2>2 DEF OpRec
    <3>2. op' = [mid EXCEPT ![o].todo = Gen4(g, by)]
      BY <2>1, <2>2
    <3> HIDE DEF mid
    <3>3. QED
      BY <3>1, <3>2, <2>6 DEF OpRec
  <2>8. Types'
    BY <1>1, <2>7 DEF IInv, Types
  <2>9. Stages'
    <3>1. GenStage(op'[o], file)
      BY <2>4, <2>5, <2>7 DEF GenStage
    <3>2. QED
      BY <1>1, <2>7, <3>1 DEF IInv, Stages, Stage
  <2>10. Alone'
    BY <1>1, <2>7 DEF IInv, Alone, Busy
  <2>11. Whole'
    <3>1. op'[o].todo # << >>
      BY <2>7, GenTodo
    <3>2. (\A q \in Ops : op'[q].kind # "ca") => \A q \in Ops : op[q].kind # "ca"
      BY <1>1, <2>7
    <3>3. CaWhole' = CaWhole
      BY <1>1 DEF CaWhole
    <3>4. QED
      BY <1>1, <2>7, <3>1, <3>2, <3>3 DEF IInv, Whole
  <2>12. Started' /\ Dead' /\ PanicNeedsDamage'
    BY <1>1, <1>2, IdleFacts DEF IInv, Started, Exists, Dead, PanicNeedsDamage, Busy
  <2>13. QED
    BY <2>8, <2>9, <2>10, <2>11, <2>12 DEF IInv
<1>5. QED
  BY <1>3, <1>4

\* Where a command stands when it has a file to write: which file it is, what it
\* puts there, and what is left.
LEMMA Writing ==
  ASSUME IInv, NEW o \in Ops, op[o].todo # << >>
  PROVE  /\ Busy(o) /\ op[o].ca = Nil /\ op[o].todo \in Seq(Block)
         /\ Head(op[o].todo).file \in Files /\ Head(op[o].todo).pem \in Pem
         /\ \/ op[o].kind = "ca" /\ CaStage(op[o], file) /\ Head(op[o].todo).file \in {"ca.key", "ca.crt"}
            \/ op[o].kind = "gen" /\ GenStage(op[o], file)
               /\ Head(op[o].todo).file \in {"server.key", "server.crt", "client.key", "client.crt"}
<1>1. op[o] \in OpRec /\ Stage(op[o], file) /\ op[o] # IdleOp
  BY IdleFacts DEF IInv, Types, Stages
<1>2. Busy(o) /\ op[o].todo \in Seq(Block)
  BY <1>1, StageFacts DEF OpRec
<1>3. Head(op[o].todo) \in Block
  BY <1>2
<1>4. Head(op[o].todo).file \in Files /\ Head(op[o].todo).pem \in Pem
  BY <1>3 DEF Block
<1>5. CASE op[o].kind = "ca" /\ CaStage(op[o], file)
  <2>1. PICK k \in CaKeys : op[o].todo = Ca2(k) \/ op[o].todo = Ca1(k)
    BY <1>5 DEF CaStage
  <2>2. Head(op[o].todo).file \in {"ca.key", "ca.crt"}
    <3>1. CASE op[o].todo = Ca2(k)
      BY <3>1, CaTodo, WritesFacts
    <3>2. CASE op[o].todo = Ca1(k)
      BY <3>2, CaTodo, WritesFacts
    <3>3. QED
      BY <2>1, <3>1, <3>2
  <2>3. QED
    BY <1>2, <1>4, <1>5, <2>2 DEF CaStage
<1>6. CASE op[o].kind = "gen" /\ GenStage(op[o], file)
  <2>1. PICK g \in Leafs, by \in CaKeys \cup Leafs :
          op[o].todo \in {Gen4(g, by), Gen3(g, by), Gen2(g, by), Gen1(g, by)}
    BY <1>6 DEF GenStage
  <2>2. Head(op[o].todo).file \in {"server.key", "server.crt", "client.key", "client.crt"}
    <3>1. CASE op[o].todo = Gen4(g, by)
      BY <3>1, GenTodo, WritesFacts
    <3>2. CASE op[o].todo = Gen3(g, by)
      BY <3>2, GenTodo, WritesFacts
    <3>3. CASE op[o].todo = Gen2(g, by)
      BY <3>3, GenTodo, WritesFacts
    <3>4. CASE op[o].todo = Gen1(g, by)
      BY <3>4, GenTodo, WritesFacts
    <3>5. QED
      BY <2>1, <3>1, <3>2, <3>3, <3>4
  <2>3. QED
    BY <1>2, <1>4, <1>6, <2>2 DEF GenStage
<1>7. QED
  BY <1>1, <1>5, <1>6 DEF Stage, GenRead

\* Opening or writing a file of a command disturbs nobody else: either nobody
\* else runs, or all are disturbed already.
LEMMA Others ==
  ASSUME IInv, NEW o \in Ops, Busy(o), NEW q \in Ops, q # o, NEW d
  PROVE  Stage(op[q], d)
<1>1. op[q] \in OpRec /\ Stage(op[q], file)
  BY DEF IInv, Types, Stages
<1>2. op[q] = IdleOp \/ op[q].mixed
  BY StageFacts DEF IInv, Alone
<1>3. QED
  BY <1>1, <1>2, MixedStage

\* A file that is created or written exists, and no file is ever removed.
LEMMA StillStarted ==
  ASSUME IInv, NEW f \in Files, NEW x \in Pem \cup {Torn}, file' = [file EXCEPT ![f] = x],
         svc' = svc, svc.pc # "off" => svc.mixed
  PROVE  Started'
<1>1. \A e \in Files : Exists(e) => file'[e] # Nil
  BY NilAssumption DEF IInv, Types, Exists
<1>2. QED
  BY <1>1 DEF IInv, Started, Exists, Files

\* A command truncates the file it will write next.
LEMMA CreateInv ==
  ASSUME IInv, NEW o \in Ops, Create(o)
  PROVE  IInv'
<1>1. op[o].todo # << >> /\ ~op[o].opened /\ UNCHANGED <<svc, panicked>>
  BY DEF Create
<1>2. Busy(o) /\ op[o] \in OpRec
  BY <1>1, Writing, StageFacts
<1> DEFINE f == Head(op[o].todo).file
<1>3. CASE Fail(o) /\ UNCHANGED file
  BY <1>1, <1>2, <1>3, EndInv DEF Fail
<1>4. CASE file' = [file EXCEPT ![f] = Torn] /\ op' = [op EXCEPT ![o].opened = TRUE]
           /\ UNCHANGED damaged
  <2>1. /\ f \in Files
        /\ \/ op[o].kind = "ca" /\ CaStage(op[o], file) /\ f \in {"ca.key", "ca.crt"}
           \/ op[o].kind = "gen" /\ GenStage(op[o], file)
              /\ f \in {"server.key", "server.crt", "client.key", "client.crt"}
    BY <1>1, Writing
  <2>2. /\ op' \in [Ops -> OpRec]
        /\ \A q \in Ops \ {o} : op'[q] = op[q]
        /\ op'[o].kind = op[o].kind /\ op'[o].ca = op[o].ca /\ op'[o].todo = op[o].todo
        /\ op'[o].mixed = op[o].mixed
    BY <1>2, <1>4 DEF IInv, Types, OpRec
  <2>3. /\ file' \in [Files -> Pem \cup {Torn, Nil}]
        /\ file'[f] = Torn
        /\ \A e \in Files \ {f} : file'[e] = file[e]
    BY <1>4, <2>1 DEF IInv, Types
  <2>4. Types'
    BY <1>1, <1>4, <2>2, <2>3 DEF IInv, Types
  <2>5. Stage(op'[o], file')
    <3>1. CASE op[o].kind = "ca" /\ CaStage(op[o], file)
      <4>1. PICK k \in CaKeys :
              \/ op[o].todo = Ca2(k)
              \/ op[o].todo = Ca1(k) /\ (~op[o].mixed => file["ca.key"] = Issued(k, k))
        BY <3>1 DEF CaStage
      <4>2. op[o].todo = Ca1(k) => f = "ca.crt"
        BY CaTodo, WritesFacts
      <4>3. CaStage(op'[o], file')
        BY <3>1, <4>1, <4>2, <2>2, <2>3 DEF CaStage, Files
      <4>4. QED
        BY <3>1, <4>3, <2>2 DEF Stage
    <3>2. CASE op[o].kind = "gen" /\ GenStage(op[o], file)
      <4>1. PICK g \in Leafs, by \in CaKeys \cup Leafs :
              /\ ~op[o].mixed => file["ca.crt"] \in Pem /\ file["ca.crt"].key = by
              /\ \/ op[o].todo = Gen4(g, by)
                 \/ /\ op[o].todo = Gen3(g, by)
                    /\ ~op[o].mixed => file["server.key"] = Issued(g, g)
                 \/ /\ op[o].todo = Gen2(g, by)
                    /\ ~op[o].mixed => file["server.key"] = Issued(g, g)
                                       /\ file["server.crt"] = Issued(g, by)
                 \/ /\ op[o].todo = Gen1(g, by)
                    /\ ~op[o].mixed => /\ file["server.key"] = Issued(g, g)
                                       /\ file["server.crt"] = Issued(g, by)
                                       /\ file["client.key"] = Issued(g, g)
        BY <3>2 DEF GenStage
      <4>2. /\ op[o].todo = Gen4(g, by) => f = "server.key"
            /\ op[o].todo = Gen3(g, by) => f = "server.crt"
            /\ op[o].todo = Gen2(g, by) => f = "client.key"
            /\ op[o].todo = Gen1(g, by) => f = "client.crt"
        BY GenTodo, WritesFacts
      <4>3. op[o].ca = Nil
        BY <3>2 DEF GenStage
      <4> HIDE DEF f
      <4>4. f # "ca.crt"
        BY <4>1, <4>2
      <4>5. GenStage(op'[o], file')
        BY <4>1, <4>2, <4>3, <4>4, <2>2, <2>3 DEF GenStage, Files
      <4>6. QED
        BY <3>2, <4>5, <2>2 DEF Stage
    <3>3. QED
      BY <2>1, <3>1, <3>2
  <2>6. Stages'
    BY <1>2, <2>2, <2>5, Others DEF Stages
  <2>7. Alone'
    BY <1>1, <2>2 DEF IInv, Alone, Busy
  <2>8. Whole'
    <3>1. op[o].kind = "ca" => ServerWhole' = ServerWhole
      BY <2>1, <2>3 DEF ServerWhole, Pair, Parses, Files
    <3>2. op[o].kind = "gen" => CaWhole' = CaWhole
      BY <2>1, <2>3 DEF CaWhole, Files
    <3>3. QED
      BY <1>1, <1>4, <2>1, <2>2, <3>1, <3>2 DEF IInv, Whole
  <2>9. Started'
    <3>1. svc.pc # "off" => svc.mixed
      BY <1>2 DEF IInv, Alone, Types
    <3>2. QED
      BY <3>1, <1>1, <1>4, <2>1, StillStarted
  <2>10. Dead' /\ PanicNeedsDamage'
    BY <1>1, <1>2, <1>4, IdleFacts DEF IInv, Dead, PanicNeedsDamage, Busy
  <2>11. QED
    BY <2>4, <2>6, <2>7, <2>8, <2>9, <2>10 DEF IInv
<1>5. QED
  BY <1>3, <1>4 DEF Create

\* The last file of a command that nothing disturbed completes what it is for.
LEMMA LastWrite ==
  ASSUME IInv, NEW o \in Ops, op[o].todo # << >>, Len(op[o].todo) = 1,
         file' = [file EXCEPT ![Head(op[o].todo).file] = Head(op[o].todo).pem]
  PROVE  /\ op[o].kind = "ca" => /\ file'["ca.crt"] \in Pem
                                 /\ ~op[o].mixed => Pair("ca.key", "ca.crt")'
                                 /\ \A e \in Files \ {"ca.crt"} : file'[e] = file[e]
         /\ op[o].kind = "gen" => /\ ~op[o].mixed => Usable'
                                  /\ file'["ca.crt"] = file["ca.crt"]
<1> DEFINE f == Head(op[o].todo).file
           b == Head(op[o].todo).pem
<1>1. f \in Files /\ b \in Pem /\ file \in [Files -> Pem \cup {Torn, Nil}]
  BY Writing DEF IInv, Types
<1>2. file'[f] = b /\ \A e \in Files \ {f} : file'[e] = file[e]
  BY <1>1
<1>3. CASE op[o].kind = "ca" /\ CaStage(op[o], file)
  <2>1. PICK k \in CaKeys :
          op[o].todo = Ca1(k) /\ (~op[o].mixed => file["ca.key"] = Issued(k, k))
    BY <1>3, CaTodo DEF CaStage
  <2>2. f = "ca.crt" /\ b = Issued(k, k)
    BY <2>1, CaTodo, WritesFacts
  <2> HIDE DEF f, b
  <2>3. file'["ca.crt"] = Issued(k, k) /\ \A e \in Files \ {"ca.crt"} : file'[e] = file[e]
    BY <1>2, <2>2
  <2>4. ~op[o].mixed => file'["ca.key"] = Issued(k, k)
    BY <2>1, <2>3 DEF Files
  <2>5. Issued(k, k) \in Pem
    BY BlockTyped DEF Files
  <2>6. QED
    BY <1>3, <2>3, <2>4, <2>5, NilAssumption DEF Pair, Parses
<1>4. CASE op[o].kind = "gen" /\ GenStage(op[o], file)
  <2>1. PICK g \in Leafs, by \in CaKeys \cup Leafs :
          /\ op[o].todo = Gen1(g, by)
          /\ ~op[o].mixed => /\ file["ca.crt"] \in Pem /\ file["ca.crt"].key = by
                             /\ file["server.key"] = Issued(g, g)
                             /\ file["server.crt"] = Issued(g, by)
                             /\ file["client.key"] = Issued(g, g)
    BY <1>4, GenTodo DEF GenStage
  <2>2. f = "client.crt" /\ b = Issued(g, by)
    BY <2>1, GenTodo, WritesFacts
  <2> HIDE DEF f, b
  <2>3. file'["client.crt"] = Issued(g, by) /\ \A e \in Files \ {"client.crt"} : file'[e] = file[e]
    BY <1>2, <2>2
  <2>4. /\ Issued(g, by) \in Pem /\ Issued(g, by).key = g /\ Issued(g, by).by = by
        /\ Issued(g, g) \in Pem /\ Issued(g, g).key = g
    BY BlockTyped DEF Files
  <2>5. ASSUME ~op[o].mixed PROVE Usable'
    <3>1. /\ file'["ca.crt"] \in Pem /\ file'["ca.crt"].key = by
          /\ file'["server.key"] = Issued(g, g) /\ file'["server.crt"] = Issued(g, by)
          /\ file'["client.key"] = Issued(g, g)
      BY <2>1, <2>3, <2>5 DEF Files
    <3>2. QED
      BY <3>1, <2>3, <2>4, NilAssumption DEF Usable, Pair, Parses
  <2>6. QED
    BY <1>4, <2>3, <2>5 DEF Files
<1>5. QED
  BY <1>3, <1>4, Writing

\* A file more, and what is left is what a command has left at its next stage.
LEMMA NextFile ==
  ASSUME IInv, NEW o \in Ops, op[o].todo # << >>, Len(op[o].todo) # 1,
         file' = [file EXCEPT ![Head(op[o].todo).file] = Head(op[o].todo).pem],
         NEW x, x.kind = op[o].kind, x.ca = op[o].ca, x.mixed = op[o].mixed,
         x.todo = Tail(op[o].todo)
  PROVE  Stage(x, file') /\ x.todo # << >>
<1> DEFINE f == Head(op[o].todo).file
           b == Head(op[o].todo).pem
<1>1. f \in Files /\ b \in Pem /\ file \in [Files -> Pem \cup {Torn, Nil}]
  BY Writing DEF IInv, Types
<1>2. file'[f] = b /\ \A e \in Files \ {f} : file'[e] = file[e]
  BY <1>1
<1>3. CASE op[o].kind = "ca" /\ CaStage(op[o], file)
  <2>1. PICK k \in CaKeys : op[o].todo = Ca2(k)
    BY <1>3, CaTodo DEF CaStage
  <2>2. f = "ca.key" /\ b = Issued(k, k) /\ x.todo = Ca1(k)
    BY <2>1, CaTodo, WritesFacts
  <2> HIDE DEF f, b
  <2>3. CaStage(x, file')
    BY <1>2, <1>3, <2>2 DEF CaStage
  <2>4. QED
    BY <1>3, <2>2, <2>3, CaTodo DEF Stage
<1>4. CASE op[o].kind = "gen" /\ GenStage(op[o], file)
  <2>1. PICK g \in Leafs, by \in CaKeys \cup Leafs :
          /\ ~op[o].mixed => file["ca.crt"] \in Pem /\ file["ca.crt"].key = by
          /\ \/ op[o].todo = Gen4(g, by)
             \/ /\ op[o].todo = Gen3(g, by)
                /\ ~op[o].mixed => file["server.key"] = Issued(g, g)
             \/ /\ op[o].todo = Gen2(g, by)
                /\ ~op[o].mixed => file["server.key"] = Issued(g, g)
                                   /\ file["server.crt"] = Issued(g, by)
    BY <1>4, GenTodo DEF GenStage
  <2>2. op[o].ca = Nil
    BY <1>4 DEF GenStage
  <2>3. CASE op[o].todo = Gen4(g, by)
    <3>1. f = "server.key" /\ b = Issued(g, g) /\ x.todo = Gen3(g, by)
      BY <2>3, GenTodo, WritesFacts
    <3> HIDE DEF f, b
    <3>2. file'["server.key"] = Issued(g, g) /\ file'["ca.crt"] = file["ca.crt"]
      BY <1>2, <3>1 DEF Files
    <3>3. Stage(x, file')
      BY <1>4, <2>1, <2>2, <3>1, <3>2 DEF Stage, GenStage
    <3>4. QED
      BY <3>3, <3>1, GenTodo
  <2>4. CASE op[o].todo = Gen3(g, by)
    <3>1. f = "server.crt" /\ b = Issued(g, by) /\ x.todo = Gen2(g, by)
      BY <2>4, GenTodo, WritesFacts
    <3>2. ~op[o].mixed => file["server.key"] = Issued(g, g)
      BY <2>1, <2>4, GenTodo
    <3> HIDE DEF f, b
    <3>3. file'["server.crt"] = Issued(g, by) /\ file'["server.key"] = file["server.key"]
          /\ file'["ca.crt"] = file["ca.crt"]
      BY <1>2, <3>1 DEF Files
    <3>4. Stage(x, file')
      BY <1>4, <2>1, <2>2, <3>1, <3>2, <3>3 DEF Stage, GenStage
    <3>5. QED
      BY <3>4, <3>1, GenTodo
  <2>5. CASE op[o].todo = Gen2(g, by)
    <3>1. f = "client.key" /\ b = Issued(g, g) /\ x.todo = Gen1(g, by)
      BY <2>5, GenTodo, WritesFacts
    <3>2. ~op[o].mixed => file["server.key"] = Issued(g, g) /\ file["server.crt"] = Issued(g, by)
      BY <2>1, <2>5, GenTodo
    <3> HIDE DEF f, b
    <3>3. /\ file'["client.key"] = Issued(g, g) /\ file'["server.key"] = file["server.key"]
          /\ file'["server.crt"] = file["server.crt"] /\ file'["ca.crt"] = file["ca.crt"]
      BY <1>2, <3>1 DEF Files
    <3>4. Stage(x, file')
      BY <1>4, <2>1, <2>2, <3>1, <3>2, <3>3 DEF Stage, GenStage
    <3>5. QED
      BY <3>4, <3>1, GenTodo
  <2>6. QED
    BY <2>1, <2>3, <2>4, <2>5
<1>5. QED
  BY <1>3, <1>4, Writing

\* A command writes a file; the last one may undo damage, if nothing disturbed it.
LEMMA WriteInv ==
  ASSUME IInv, NEW o \in Ops, Write(o)
  PROVE  IInv'
<1>1. op[o].opened /\ UNCHANGED <<svc, panicked>>
  BY DEF Write
<1>2. op[o].todo # << >> /\ op[o] \in OpRec
  BY <1>1, StageFacts
<1>3. Busy(o)
  BY <1>2, Writing
<1> DEFINE f == Head(op[o].todo).file
           b == Head(op[o].todo).pem
<1>4. CASE Fail(o) /\ UNCHANGED file
  BY <1>1, <1>3, <1>4, EndInv DEF Fail
<1>5. ASSUME file' = [file EXCEPT ![f] = b]
      PROVE  /\ file' \in [Files -> Pem \cup {Torn, Nil}]
             /\ \A e \in Files \ {f} : file'[e] = file[e]
             /\ op[o].kind = "ca" => f \in {"ca.key", "ca.crt"}
             /\ op[o].kind = "gen" => f \in {"server.key", "server.crt", "client.key", "client.crt"}
             /\ op[o].kind \in {"ca", "gen"}
             /\ Started'
  <2>1. f \in Files /\ b \in Pem
    BY <1>2, Writing
  <2>2. svc.pc # "off" => svc.mixed
    BY <1>3 DEF IInv, Alone, Types
  <2>3. Started'
    BY <2>1, <2>2, <1>1, <1>5, StillStarted
  <2>4. QED
    BY <2>1, <2>3, <1>2, <1>5, Writing DEF IInv, Types
<1>6. CASE /\ file' = [file EXCEPT ![f] = b] /\ Len(op[o].todo) # 1
           /\ op' = [op EXCEPT ![o].todo = Tail(@), ![o].opened = FALSE] /\ UNCHANGED damaged
  <2>1. /\ op' \in [Ops -> OpRec]
        /\ \A q \in Ops \ {o} : op'[q] = op[q]
        /\ op'[o].kind = op[o].kind /\ op'[o].ca = op[o].ca /\ op'[o].mixed = op[o].mixed
        /\ op'[o].todo = Tail(op[o].todo)
    <3>1. op[o].todo \in Seq(Block) /\ op \in [Ops -> OpRec]
      BY <1>2, Writing DEF IInv, Types
    <3>2. Tail(op[o].todo) \in Seq(Block)
      BY <3>1, <1>2
    <3> DEFINE mid == [op EXCEPT ![o].todo = Tail(op[o].todo)]
    <3>3. /\ mid \in [Ops -> OpRec]
          /\ \A q \in Ops \ {o} : mid[q] = op[q]
          /\ mid[o].kind = op[o].kind /\ mid[o].ca = op[o].ca /\ mid[o].mixed = op[o].mixed
          /\ mid[o].todo = Tail(op[o].todo)
      BY <3>1, <3>2 DEF OpRec
    <3>4. op' = [mid EXCEPT ![o].opened = FALSE]
      BY <1>6, <3>1
    <3> HIDE DEF mid
    <3>5. QED
      BY <3>3, <3>4 DEF OpRec
  <2>2. Stage(op'[o], file')
    BY <1>2, <1>6, <2>1, NextFile
  <2>3. Stages'
    BY <1>3, <2>1, <2>2, Others DEF Stages
  <2>4. op'[o].todo # << >> /\ (op[o].kind = "ca" \/ op[o].kind = "gen")
    <3>1. op[o].kind \in {"ca", "gen"}
      BY <1>5, <1>6
    <3>2. QED
      BY <3>1, <1>2, <1>6, <2>1, NextFile
  <2>5. Alone'
    BY <1>1, <2>1 DEF IInv, Alone, Busy
  <2>6. Whole'
    <3>1. op[o].kind = "ca" => ServerWhole' = ServerWhole
      BY <1>5, <1>6 DEF ServerWhole, Pair, Parses, Files
    <3>2. op[o].kind = "gen" => CaWhole' = CaWhole
      BY <1>5, <1>6 DEF CaWhole, Files
    <3>3. QED
      BY <1>2, <1>6, <2>1, <2>4, <3>1, <3>2 DEF IInv, Whole
  <2>7. Types' /\ Started'
    BY <1>1, <1>5, <1>6, <2>1 DEF IInv, Types
  <2>8. Dead' /\ PanicNeedsDamage'
    BY <1>1, <1>3, <1>6, IdleFacts DEF IInv, Dead, PanicNeedsDamage, Busy
  <2>9. QED
    BY <2>3, <2>5, <2>6, <2>7, <2>8 DEF IInv
<1>7. CASE /\ file' = [file EXCEPT ![f] = b] /\ Len(op[o].todo) = 1
           /\ op' = [op EXCEPT ![o] = IdleOp]
           /\ damaged' = (op[o].mixed \/ (op[o].kind = "ca" /\ damaged))
  <2>1. /\ op' \in [Ops -> OpRec] /\ op'[o] = IdleOp
        /\ \A q \in Ops \ {o} : op'[q] = op[q]
    BY <1>7, IdleFacts DEF IInv, Types
  <2>2. Types' /\ Started'
    BY <1>1, <1>5, <1>7, <1>2, <2>1 DEF IInv, Types, OpRec
  <2>3. Stages'
    BY <1>3, <2>1, Others DEF Stages, Stage
  <2>4. Alone'
    BY <1>1, <2>1, IdleFacts DEF IInv, Alone, Busy
  <2>5. Whole'
    <3> SUFFICES ASSUME ~damaged' PROVE ServerWhole' /\ CaWhole'
      BY DEF Whole
    <3>1. ~op[o].mixed
      BY <1>7
    <3>2. \A q \in Ops : q # o => ~Busy(q)
      BY <3>1, <1>3 DEF IInv, Alone
    <3>3. CASE op[o].kind = "gen"
      <4>1. Usable'
        BY <3>1, <3>3, <1>2, <1>7, LastWrite
      <4>2. QED
        BY <4>1 DEF Usable, ServerWhole, CaWhole, Pair, Parses
    <3>4. CASE op[o].kind = "ca"
      <4>1. ~damaged /\ ServerWhole
        BY <1>7, <3>2, <3>4 DEF IInv, Whole, Busy
      <4>2. file'["ca.crt"] \in Pem /\ \A e \in Files \ {"ca.crt"} : file'[e] = file[e]
        BY <3>4, <1>2, <1>7, LastWrite
      <4>3. QED
        BY <4>1, <4>2, NilAssumption DEF ServerWhole, CaWhole, Pair, Parses, Files
    <3>5. QED
      BY <1>5, <1>7, <3>3, <3>4
  <2>6. Dead' /\ PanicNeedsDamage'
    BY <1>1, <1>3, IdleFacts DEF IInv, Dead, PanicNeedsDamage, Busy
  <2>7. QED
    BY <2>2, <2>3, <2>4, <2>5, <2>6 DEF IInv
<1>8. QED
  BY <1>4, <1>6, <1>7 DEF Write

\* A service start finds four files, whole unless there is damage.
LEMMA StartCheckInv ==
  ASSUME IInv, ~panicked, StartCheck
  PROVE  IInv'
<1>1. /\ \A f \in {"ca.crt", "ca.key", "server.crt", "server.key"} : Exists(f)
      /\ svc' = [IdleSvc EXCEPT !.pc = "crt", !.mixed = \E o \in Ops : Busy(o)]
      /\ UNCHANGED <<file, op, panicked, damaged>>
  BY DEF StartCheck
<1>2. /\ svc' \in [pc : {"off", "crt", "key", "ca"}, crt : Pem \cup {Torn, Nil}, mixed : BOOLEAN]
      /\ svc'.pc = "crt" /\ svc'.mixed = \E o \in Ops : Busy(o)
  BY <1>1 DEF IdleSvc
<1>3. Types' /\ Stages' /\ Whole' /\ Dead' /\ PanicNeedsDamage'
  BY <1>1, <1>2 DEF IInv, Types, Stages, Whole, ServerWhole, CaWhole, Pair, Parses, Dead, PanicNeedsDamage
<1>4. Alone' /\ Started'
  BY <1>1, <1>2 DEF IInv, Alone, Busy, Started, Exists
<1>5. QED
  BY <1>3, <1>4 DEF IInv

\* A start that reads the server's certificate finds it whole, or panics of damage.
LEMMA LoadCrtInv ==
  ASSUME IInv, LoadCrt
  PROVE  IInv'
<1>1. /\ svc.pc = "crt" /\ svc' = [svc EXCEPT !.pc = "key", !.crt = file["server.crt"]]
      /\ UNCHANGED <<file, op, panicked, damaged>>
  BY DEF LoadCrt
<1>2. file["server.crt"] \in Pem \cup {Torn, Nil}
  BY DEF IInv, Types, Files
<1>3. /\ svc' \in [pc : {"off", "crt", "key", "ca"}, crt : Pem \cup {Torn, Nil}, mixed : BOOLEAN]
      /\ svc'.pc = "key" /\ svc'.mixed = svc.mixed /\ svc'.crt = file["server.crt"]
  BY <1>1, <1>2 DEF IInv, Types
<1>4. Types' /\ Stages' /\ Whole' /\ Dead' /\ PanicNeedsDamage'
  BY <1>1, <1>3 DEF IInv, Types, Stages, Whole, ServerWhole, CaWhole, Pair, Parses, Dead, PanicNeedsDamage
<1>5. Alone' /\ Started'
  BY <1>1, <1>3 DEF IInv, Alone, Busy, Started, Exists
<1>6. QED
  BY <1>4, <1>5 DEF IInv

\* The death of the process, with damage or with a command beside the start.
LEMMA PanicInv ==
  ASSUME IInv, Panic, svc.pc \in {"key", "ca"},
         damaged \/ svc.mixed
  PROVE  IInv'
<1>1. /\ panicked' = TRUE /\ op' = [o \in Ops |-> IdleOp]
      /\ damaged' = (damaged \/ \E o \in Ops : Busy(o))
      /\ UNCHANGED <<file, svc>>
  BY DEF Panic
<1>2. Types' /\ Stages' /\ Alone'
  BY <1>1, IdleFacts DEF IInv, Types, Stages, Stage, Alone, Busy
<1>3. Whole'
  <2>1. ~damaged' => ~damaged /\ \A o \in Ops : ~Busy(o)
    BY <1>1
  <2>2. ~damaged' => ServerWhole /\ CaWhole
    BY <2>1 DEF IInv, Whole, Busy
  <2>3. QED
    BY <1>1, <2>2 DEF Whole, ServerWhole, CaWhole, Pair, Parses
<1>4. Started' /\ Dead' /\ PanicNeedsDamage'
  BY <1>1, IdleFacts DEF IInv, Started, Exists, Dead, PanicNeedsDamage
<1>5. QED
  BY <1>2, <1>3, <1>4 DEF IInv

\* What an undisturbed start finds without damage.
LEMMA SoundStart ==
  ASSUME IInv, svc.pc # "off", ~damaged, ~svc.mixed
  PROVE  /\ Pair("server.key", "server.crt") /\ Parses("ca.crt")
         /\ svc.pc = "key" => svc.crt = file["server.crt"]
<1>1. \A o \in Ops : ~Busy(o)
  BY DEF IInv, Alone
<1>2. ServerWhole /\ CaWhole
  BY <1>1 DEF IInv, Whole, Busy
<1>3. Exists("ca.crt") /\ Exists("server.key") /\ Exists("server.crt")
      /\ (svc.pc = "key" => svc.crt = file["server.crt"])
  BY DEF IInv, Started
<1>4. QED
  BY <1>2, <1>3 DEF ServerWhole, CaWhole, Exists, Parses

\* The key it reads next belongs to that certificate, or there was damage or a command.
LEMMA LoadKeyInv ==
  ASSUME IInv, LoadKey
  PROVE  IInv'
<1>1. svc.pc = "key" /\ ~panicked
  BY DEF LoadKey
<1>2. CASE Panic
  <2>1. CASE damaged \/ svc.mixed
    BY <1>1, <1>2, <2>1, PanicInv
  <2>2. CASE ~damaged /\ ~svc.mixed
    <3>1. Pair("server.key", "server.crt") /\ svc.crt = file["server.crt"]
      BY <1>1, <2>2, SoundStart
    <3>2. svc' = [svc EXCEPT !.pc = "ca", !.crt = Nil] /\ panicked' = panicked
      BY <3>1 DEF LoadKey, Pair, Parses
    <3>3. QED
      BY <1>1, <1>2, <3>2 DEF Panic
  <2>3. QED
    BY <2>1, <2>2
<1>3. CASE svc' = [svc EXCEPT !.pc = "ca", !.crt = Nil] /\ UNCHANGED <<file, op, panicked, damaged>>
  <2>1. /\ svc' \in [pc : {"off", "crt", "key", "ca"}, crt : Pem \cup {Torn, Nil}, mixed : BOOLEAN]
        /\ svc'.pc = "ca" /\ svc'.mixed = svc.mixed
    BY <1>3 DEF IInv, Types
  <2>2. Types' /\ Stages' /\ Whole' /\ Dead' /\ PanicNeedsDamage'
    BY <1>1, <1>3, <2>1 DEF IInv, Types, Stages, Whole, ServerWhole, CaWhole, Pair, Parses, Dead, PanicNeedsDamage
  <2>3. Alone' /\ Started'
    BY <1>1, <1>3, <2>1 DEF IInv, Alone, Busy, Started, Exists
  <2>4. QED
    BY <2>2, <2>3 DEF IInv
<1>4. QED
  BY <1>2, <1>3 DEF LoadKey

\* The CA's certificate it reads last is whole, or there was damage or a command.
LEMMA LoadCAInv ==
  ASSUME IInv, LoadCA
  PROVE  IInv'
<1>1. svc.pc = "ca" /\ ~panicked
  BY DEF LoadCA
<1>2. CASE ~Parses("ca.crt")
  <2>1. damaged \/ svc.mixed
    BY <1>1, <1>2, SoundStart DEF IInv, Types
  <2>2. QED
    BY <1>1, <1>2, <2>1, PanicInv DEF LoadCA
<1>3. CASE Parses("ca.crt")
  <2>1. svc' = IdleSvc /\ UNCHANGED <<file, op, panicked, damaged>>
    BY <1>3 DEF LoadCA
  <2>2. /\ svc' \in [pc : {"off", "crt", "key", "ca"}, crt : Pem \cup {Torn, Nil}, mixed : BOOLEAN]
        /\ svc'.pc = "off"
    BY <2>1 DEF IdleSvc
  <2>3. Types' /\ Stages' /\ Whole' /\ Dead' /\ PanicNeedsDamage'
    BY <1>1, <2>1, <2>2 DEF IInv, Types, Stages, Whole, ServerWhole, CaWhole, Pair, Parses, Dead, PanicNeedsDamage
  <2>4. Alone' /\ Started'
    BY <2>1, <2>2 DEF IInv, Alone, Busy, Started
  <2>5. QED
    BY <2>3, <2>4 DEF IInv
<1>4. QED
  BY <1>2, <1>3

\* The process is started again, over whatever a command has left.
LEMMA RestartInv ==
  ASSUME IInv, Restart
  PROVE  IInv'
<1>1. /\ op' = [o \in Ops |-> IdleOp] /\ svc' = IdleSvc /\ panicked' = FALSE
      /\ damaged' = (damaged \/ \E o \in Ops : Busy(o)) /\ UNCHANGED file
  BY DEF Restart
<1>2. svc'.pc = "off"
      /\ svc' \in [pc : {"off", "crt", "key", "ca"}, crt : Pem \cup {Torn, Nil}, mixed : BOOLEAN]
  BY <1>1 DEF IdleSvc
<1>3. Types' /\ Stages' /\ Alone'
  BY <1>1, <1>2, IdleFacts DEF IInv, Types, Stages, Stage, Alone, Busy
<1>4. Whole'
  <2>1. ~damaged' => ~damaged /\ \A o \in Ops : ~Busy(o)
    BY <1>1
  <2>2. ~damaged' => ServerWhole /\ CaWhole
    BY <2>1 DEF IInv, Whole, Busy
  <2>3. QED
    BY <1>1, <2>2 DEF Whole, ServerWhole, CaWhole, Pair, Parses
<1>5. Started' /\ Dead' /\ PanicNeedsDamage'
  BY <1>1, <1>2 DEF Started, Dead, PanicNeedsDamage
<1>6. QED
  BY <1>3, <1>4, <1>5 DEF IInv

-----------------------------------------------------------------------------
(* The theorems.                                                            *)

\* The files the server finds when it is installed are none, or whole.
LEMMA InitIInv == Init => IInv
<1> SUFFICES ASSUME Init PROVE IInv
  OBVIOUS
<1>1. Types /\ Stages
  BY IdleFacts DEF Init, Types, Stages, Stage, IdleSvc
<1>2. Alone /\ Whole /\ Started /\ Dead /\ PanicNeedsDamage
  BY IdleFacts, NilAssumption
     DEF Init, Alone, Busy, Whole, ServerWhole, CaWhole, Started, Dead, PanicNeedsDamage, IdleSvc, Files
<1>3. QED
  BY <1>1, <1>2 DEF IInv

\* Every step keeps the invariant, by one case per action.
LEMMA NextIInv == IInv /\ [Next]_vars => IInv'
<1> SUFFICES ASSUME IInv, [Next]_vars PROVE IInv'
  OBVIOUS
<1>1. ASSUME ~panicked, NEW o \in Ops, Command(o) PROVE IInv'
  BY <1>1, GenerateCAInv, ReadCAInv DEF Command
<1>2. ASSUME NEW o \in Ops, Sign(o) \/ Create(o) \/ Write(o) PROVE IInv'
  BY <1>2, SignInv, CreateInv, WriteInv
<1>3. CASE UNCHANGED vars
  BY <1>3 DEF vars, IInv, Types, Stages, Alone, Busy, Whole, ServerWhole, CaWhole, Pair, Parses,
              Started, Exists, Dead, PanicNeedsDamage
<1>4. QED
  BY <1>1, <1>2, <1>3, StartCheckInv, LoadCrtInv, LoadKeyInv, LoadCAInv, RestartInv DEF Next

\* Always, for any number of commands and key pairs, and any faults.
LEMMA AlwaysIInv == Spec => []IInv
<1>1. QED
  BY InitIInv, NextIInv, PTL DEF Spec

\* The variables have their types, and no command has more than four files to
\* write.
THEOREM TypeCorrect == Spec => []TypeOK
<1>1. ASSUME IInv PROVE TypeOK
  <2>1. ASSUME NEW o \in Ops
        PROVE  /\ op[o].kind \in {"none", "ca", "gen"} /\ op[o].ca \in Pem \cup {Nil}
               /\ Len(op[o].todo) <= 4
               /\ \A i \in DOMAIN op[o].todo : op[o].todo[i] \in Block
               /\ {op[o].opened, op[o].mixed} \subseteq BOOLEAN
    <3>1. op[o] \in OpRec /\ Stage(op[o], file)
      BY <1>1 DEF IInv, Types, Stages
    <3>2. Len(op[o].todo) <= 4
      BY <3>1, IdleFacts, CaTodo, GenTodo DEF Stage, CaStage, GenRead, GenStage
    <3>3. op[o].todo \in Seq(Block)
      BY <3>1 DEF OpRec
    <3>4. QED
      BY <3>1, <3>2, <3>3 DEF OpRec
  <2>2. QED
    BY <1>1, <2>1 DEF IInv, Types, TypeOK
<1>2. QED
  BY <1>1, AlwaysIInv, PTL

\* A service start dies of its certificates only beside a cert command, or of
\* damage no undisturbed `cert gen` has undone (shellcmd.go:40-44,
\* controller.go:56-61,112-133).
THEOREM OnlyDamagePanics == Spec => []PanicNeedsDamage
<1>1. IInv => PanicNeedsDamage
  BY DEF IInv
<1>2. QED
  BY <1>1, AlwaysIInv, PTL

\* The step in which a command reports success is the one that writes its last file.
LEMMA SuccessWrites ==
  ASSUME IInv, [Next]_vars, NEW o \in Ops, Succeeds(o)
  PROVE  /\ op[o].todo # << >> /\ Len(op[o].todo) = 1
         /\ file' = [file EXCEPT ![Head(op[o].todo).file] = Head(op[o].todo).pem]
<1>1. op[o].opened /\ Len(op[o].todo) = 1 /\ op'[o] = IdleOp /\ file' # file
  BY DEF Succeeds
<1>2. op[o].todo # << >>
  BY <1>1, StageFacts
<1>3. op[o] # IdleOp
  BY <1>1, IdleFacts
<1>4. PICK q \in Ops : Create(q) \/ Write(q)
  BY <1>1 DEF Next, Command, GenerateCA, ReadCA, Sign, StartCheck, LoadCrt, LoadKey, LoadCA, Panic,
              Restart, vars
<1>5. q = o
  BY <1>1, <1>3, <1>4 DEF Create, Write, Fail, IInv, Types
<1>6. ~Create(o)
  BY <1>1 DEF Create
<1>7. QED
  BY <1>1, <1>2, <1>4, <1>5, <1>6 DEF Write

\* A `cert gen` that reports success and overlapped no other command leaves a
\* server and a client that accept each other, whatever was in the directory
\* before (gen.go:100-147).
THEOREM GenRepairs == Spec => GenLeavesUsable
<1>1. IInv /\ [Next]_vars =>
        \A o \in Ops : op[o].kind = "gen" /\ ~op[o].mixed /\ Succeeds(o) => Usable'
  BY SuccessWrites, LastWrite
<1>2. QED
  BY <1>1, AlwaysIInv, PTL DEF Spec, GenLeavesUsable

\* A `cert ca` that writes its files, and overlapped nothing, leaves a CA that can
\* sign (gen.go:60-97).
THEOREM CaRepairs == Spec => CaLeavesPair
<1>1. IInv /\ [Next]_vars =>
        \A o \in Ops : op[o].kind = "ca" /\ ~op[o].mixed /\ Succeeds(o) => Pair("ca.key", "ca.crt")'
  BY SuccessWrites, LastWrite
<1>2. QED
  BY <1>1, AlwaysIInv, PTL DEF Spec, CaLeavesPair
=============================================================================
