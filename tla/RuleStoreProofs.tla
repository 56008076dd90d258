--------------------------- MODULE RuleStoreProofs ---------------------------
(***************************************************************************)
(* What RuleStore keeps for any names, settings, objects, commands in      *)
(* flight and failing statements: its types; that a start meets a nil rule *)
(* only after a delete of it; if no two deletes of a rule overlap, that    *)
(* every rule in memory is on disk; and, if updates are kept apart from    *)
(* what also writes their row, that memory and disk agree.                 *)
(***************************************************************************)
EXTENDS RuleStore, FiniteSetTheorems, TLAPS

\* What a command knows at each of its steps.
OpKnows ==
    \A o \in Ops :
        /\ op[o].pc # "idle" => op[o].name \in Names
        /\ op[o].pc \in {"insert", "set", "updrow", "updsel", "updmem"} => op[o].val \in Vals
        /\ op[o].pc \in {"updrow", "flagrow"} => op[o].obj \in Objs

TypeInv == TypeOK /\ OpKnows

\* What an empty slot of the heap holds is a rule.
LEMMA BlankIsRule == Blank \in Rule
<1>1. PICK v \in Vals : TRUE
  BY ValsAssumption
<1>2. [val |-> v, enable |-> TRUE] \in Rule
  BY <1>1 DEF Rule
<1>3. \E r \in Rule : TRUE
  BY <1>2
<1>4. QED
  BY <1>3 DEF Blank

\* The number of rows is a number: there are finitely many names.
LEMMA RowCountType == RowCount \in Int
<1>1. IsFiniteSet({n \in Names : row[n] # Nil})
  BY NamesAssumption, FS_Subset
<1>2. QED
  BY <1>1, FS_CardinalityType DEF RowCount

\* What ConfigLoad leaves is well typed.
LEMMA TypeInvInit == Init => TypeInv
<1> SUFFICES ASSUME Init PROVE TypeInv
  OBVIOUS
<1>1. IdleOp \in OpType
  BY DEF IdleOp, OpType
<1>2. TypeOK
  BY <1>1, RowCountType DEF Init, TypeOK
<1>3. OpKnows
  BY DEF Init, OpKnows, IdleOp
<1>4. QED
  BY <1>2, <1>3 DEF TypeInv

\* A step that gives o another well-typed state, or none, keeps the facts about op.
LEMMA OpMoves ==
  ASSUME TypeInv, NEW o \in Ops, NEW x \in OpType,
         op' = [op EXCEPT ![o] = x],
         x.pc # "idle" => x.name \in Names,
         x.pc \in {"insert", "set", "updrow", "updsel", "updmem"} => x.val \in Vals,
         x.pc \in {"updrow", "flagrow"} => x.obj \in Objs
  PROVE  op' \in [Ops -> OpType] /\ OpKnows'
BY DEF TypeInv, TypeOK, OpKnows

\* A command that ends keeps the facts about commands.
LEMMA OpEnds ==
  ASSUME TypeInv, NEW o \in Ops, End(o)
  PROVE  op' \in [Ops -> OpType] /\ OpKnows'
<1>1. IdleOp \in OpType /\ IdleOp.pc = "idle"
  BY DEF IdleOp, OpType
<1>2. QED
  BY <1>1, OpMoves DEF End

\* A command that goes on with the values it has keeps them too.
LEMMA OpGoes ==
  ASSUME TypeInv, NEW o \in Ops,
         NEW pc \in {"set", "delrow", "updsel", "updmem", "flagget", "startget"},
         Goes(o, pc),
         op[o].pc # "idle",
         pc \in {"set", "updsel", "updmem"} => op[o].val \in Vals
  PROVE  op' \in [Ops -> OpType] /\ OpKnows'
<1> DEFINE x == [op[o] EXCEPT !.pc = pc]
<1>1. op' = [op EXCEPT ![o] = x]
  BY DEF Goes
<1>2. x \in OpType /\ x.pc = pc /\ x.name = op[o].name /\ x.val = op[o].val
  BY DEF TypeInv, TypeOK, OpType
<1>3. x.name \in Names
  BY <1>2 DEF TypeInv, OpKnows
<1> HIDE DEF x
<1>4. QED
  BY <1>1, <1>2, <1>3, OpMoves

\* So does one that begins with what its first step needs.
LEMMA OpBegins ==
  ASSUME TypeInv, NEW o \in Ops,
         NEW pc \in {"insert", "delmem", "updrow", "flagmem", "enable", "disable"},
         NEW n \in Names, NEW p \in Objs \cup {Nil}, NEW v \in Vals \cup {Nil},
         pc \in {"insert", "updrow"} => v \in Vals,
         pc = "updrow" => p \in Objs,
         Begin(o, pc, n, p, v)
  PROVE  op' \in [Ops -> OpType] /\ OpKnows'
<1> DEFINE x == [pc |-> pc, name |-> n, obj |-> p, val |-> v, gone |-> FALSE]
<1>1. x \in OpType /\ x.pc = pc /\ x.name = n /\ x.val = v /\ x.obj = p
  BY DEF OpType
<1>2. op' = [op EXCEPT ![o] = x]
  BY DEF Begin
<1> HIDE DEF x
<1>3. QED
  BY <1>1, <1>2, OpMoves

\* UpdateEnable keeps the heap well typed, whether or not the rule exists.
LEMMA SetEnableType ==
  ASSUME TypeOK, NEW n \in Names, NEW b \in BOOLEAN, SetEnable(n, b)
  PROVE  heap' \in [Objs -> Rule]
<1>1. CASE table[n] = Nil
  BY <1>1 DEF SetEnable, TypeOK
<1>2. CASE table[n] # Nil
  <2>1. table[n] \in Objs /\ heap' = [heap EXCEPT ![table[n]].enable = b]
    BY <1>2 DEF SetEnable, TypeOK
  <2>2. [heap[table[n]] EXCEPT !.enable = b] \in Rule
    BY <2>1 DEF TypeOK, Rule
  <2>3. QED
    BY <2>1, <2>2 DEF TypeOK
<1>3. QED
  BY <1>1, <1>2

\* A command that follows a nil rule ends, alone or with the process.
LEMMA FollowsNilType ==
  ASSUME TypeInv, NEW o \in Ops, FollowsNil(o), UNCHANGED <<table, heap, row, count, failed>>
  PROVE  TypeInv'
<1>1. IdleOp \in OpType /\ IdleOp.pc = "idle"
  BY DEF IdleOp, OpType
<1>2. CASE panicked' = TRUE /\ op' = [q \in Ops |-> IdleOp]
  BY <1>1, <1>2 DEF TypeInv, TypeOK, OpKnows
<1>3. CASE End(o) /\ UNCHANGED panicked
  BY <1>3, OpEnds DEF TypeInv, TypeOK
<1>4. QED
  BY <1>2, <1>3 DEF FollowsNil

-----------------------------------------------------------------------------
(* Every step keeps the types.                                              *)

\* A crash and a restart keep the types.
LEMMA RestartType == TypeInv /\ Restart => TypeInv'
<1> SUFFICES ASSUME TypeInv, Restart PROVE TypeInv'
  OBVIOUS
<1>1. IdleOp \in OpType /\ IdleOp.pc = "idle"
  BY DEF IdleOp, OpType
<1>2. op' \in [Ops -> OpType] /\ OpKnows'
  BY <1>1 DEF Restart, OpKnows
<1>3. /\ table' \in [Names -> Objs \cup {Nil}]
      /\ heap' \in [Objs -> Rule]
      /\ count' \in Int
  BY BlankIsRule, RowCountType DEF Restart
<1>4. row' \in [Names -> Rule \cup {Nil}] /\ panicked' \in BOOLEAN /\ failed' \in SUBSET Names
  BY DEF Restart, TypeInv, TypeOK
<1>5. QED
  BY <1>2, <1>3, <1>4 DEF TypeInv, TypeOK

\* The first step of every command keeps the types.
LEMMA CommandType ==
  ASSUME TypeInv, NEW o \in Ops, Command(o)
  PROVE  TypeInv'
<1>1. UNCHANGED <<table, heap, row, count, panicked, failed>>
  BY DEF Command, AddCheck, UpdCheck, DelCheck, FlagCheck, StartEnable, StopCheck
<1>2. PICK n \in Names :
         \/ \E v \in Vals : AddCheck(o, n, v) \/ UpdCheck(o, n, v)
         \/ DelCheck(o, n) \/ FlagCheck(o, n) \/ StartEnable(o, n) \/ StopCheck(o, n)
  BY DEF Command
<1>3. op' \in [Ops -> OpType] /\ OpKnows'
  <2>1. ASSUME NEW v \in Vals, AddCheck(o, n, v)
        PROVE  op' \in [Ops -> OpType] /\ OpKnows'
    BY <2>1, OpBegins DEF AddCheck
  <2>2. ASSUME NEW v \in Vals, UpdCheck(o, n, v)
        PROVE  op' \in [Ops -> OpType] /\ OpKnows'
    <3>1. table[n] \in Objs
      BY <2>2 DEF UpdCheck, TypeInv, TypeOK
    <3>2. QED
      BY <2>2, <3>1, OpBegins DEF UpdCheck
  <2>3. CASE DelCheck(o, n)
    BY <2>3, OpBegins DEF DelCheck
  <2>4. CASE FlagCheck(o, n)
    BY <2>4, OpBegins DEF FlagCheck
  <2>5. CASE StartEnable(o, n)
    BY <2>5, OpBegins DEF StartEnable
  <2>6. CASE StopCheck(o, n)
    BY <2>6, OpBegins DEF StopCheck
  <2>7. QED
    BY <1>2, <2>1, <2>2, <2>3, <2>4, <2>5, <2>6
<1>4. QED
  BY <1>1, <1>3 DEF TypeInv, TypeOK

\* Every later step of a command keeps the types.
LEMMA StepType ==
  ASSUME TypeInv, NEW o \in Ops, Step(o)
  PROVE  TypeInv'
<1> USE DEF TypeInv
<1>1. CASE AddInsert(o)
  <2>1. op[o].name \in Names /\ op[o].val \in Vals
    BY <1>1 DEF AddInsert, OpKnows
  <2>2. row' \in [Names -> Rule \cup {Nil}]
    <3>1. [val |-> op[o].val, enable |-> FALSE] \in Rule
      BY <2>1 DEF Rule
    <3>2. QED
      BY <1>1, <2>1, <3>1 DEF AddInsert, TypeOK
  <2>3. op' \in [Ops -> OpType] /\ OpKnows'
    BY <1>1, <2>1, OpGoes, OpEnds DEF AddInsert
  <2>4. QED
    BY <1>1, <2>2, <2>3 DEF AddInsert, TypeOK
<1>2. CASE AddSet(o)
  <2>1. op[o].name \in Names /\ op[o].val \in Vals
    BY <1>2 DEF AddSet, OpKnows
  <2>2. PICK p \in Objs :
           /\ table' = [table EXCEPT ![op[o].name] = p]
           /\ heap' = [heap EXCEPT ![p] = [val |-> op[o].val, enable |-> FALSE]]
    BY <1>2 DEF AddSet
  <2>3. [val |-> op[o].val, enable |-> FALSE] \in Rule
    BY <2>1 DEF Rule
  <2>4. op' \in [Ops -> OpType] /\ OpKnows'
    BY <1>2, OpEnds DEF AddSet
  <2>5. QED
    BY <1>2, <2>1, <2>2, <2>3, <2>4 DEF AddSet, TypeOK
<1>3. CASE DelMem(o)
  <2>1. op[o].name \in Names
    BY <1>3 DEF DelMem, OpKnows
  <2>2. ASSUME NEW q \in Ops
        PROVE  /\ op'[q] \in OpType
               /\ op'[q].name = op[q].name /\ op'[q].val = op[q].val /\ op'[q].obj = op[q].obj
               /\ op'[q].pc = IF q = o THEN "delrow" ELSE op[q].pc
    BY <1>3 DEF DelMem, TypeOK, OpType
  <2>3. op' \in [Ops -> OpType]
    BY <1>3, <2>2 DEF DelMem
  <2>4. OpKnows'
    BY <2>1, <2>2 DEF OpKnows
  <2>5. QED
    BY <1>3, <2>1, <2>3, <2>4 DEF DelMem, TypeOK
<1>4. CASE DelRow(o)
  <2>1. op[o].name \in Names /\ op' \in [Ops -> OpType] /\ OpKnows'
    BY <1>4, OpEnds DEF DelRow, OpKnows
  <2>2. QED
    BY <1>4, <2>1 DEF DelRow, TypeOK
<1>5. CASE UpdRow(o)
  <2>1. op[o].name \in Names /\ op[o].val \in Vals /\ op[o].obj \in Objs
    BY <1>5 DEF UpdRow, OpKnows
  <2>2. [val |-> op[o].val, enable |-> heap[op[o].obj].enable] \in Rule
    BY <2>1 DEF TypeOK, Rule
  <2>3. row' \in [Names -> Rule \cup {Nil}]
    BY <1>5, <2>1, <2>2 DEF UpdRow, UpdateRow, TypeOK
  <2>4. op' \in [Ops -> OpType] /\ OpKnows'
    BY <1>5, <2>1, OpGoes, OpEnds DEF UpdRow, Fails, End
  <2>5. QED
    BY <1>5, <2>1, <2>3, <2>4 DEF UpdRow, Reported, TypeOK
<1>6. CASE UpdSelect(o)
  <2>1. op[o].name \in Names /\ op[o].val \in Vals
    BY <1>6 DEF UpdSelect, OpKnows
  <2>2. op' \in [Ops -> OpType] /\ OpKnows'
    BY <1>6, <2>1, OpGoes, OpEnds DEF UpdSelect, Fails, End
  <2>3. QED
    BY <1>6, <2>1, <2>2 DEF UpdSelect, Reported, TypeOK
<1>7. CASE UpdMem(o)
  <2>1. op[o].name \in Names /\ op[o].val \in Vals
    BY <1>7 DEF UpdMem, OpKnows
  <2>2. ASSUME NEW p \in Objs PROVE [heap[p] EXCEPT !.val = op[o].val] \in Rule
    BY <2>1 DEF TypeOK, Rule
  <2>3. heap' \in [Objs -> Rule]
    BY <1>7, <2>1, <2>2 DEF UpdMem, TypeOK
  <2>4. op' \in [Ops -> OpType] /\ OpKnows'
    BY <1>7, OpEnds DEF UpdMem
  <2>5. QED
    BY <1>7, <2>3, <2>4 DEF UpdMem, TypeOK
<1>8. CASE FlagMem(o)
  <2>1. heap' \in [Objs -> Rule]
    BY <1>8, SetEnableType DEF FlagMem, OpKnows
  <2>2. op' \in [Ops -> OpType] /\ OpKnows'
    BY <1>8, OpGoes, OpEnds DEF FlagMem
  <2>3. QED
    BY <1>8, <2>1, <2>2 DEF FlagMem, TypeOK
<1>9. CASE FlagGet(o)
  <2>1. CASE table[op[o].name] = Nil
    BY <1>9, <2>1, FollowsNilType DEF FlagGet
  <2>2. CASE table[op[o].name] # Nil
    <3> DEFINE x == [op[o] EXCEPT !.pc = "flagrow", !.obj = table[op[o].name],
                              !.gone = FALSE]
    <3>1. op[o].name \in Names
      BY <1>9 DEF FlagGet, OpKnows
    <3>2. table[op[o].name] \in Objs
      BY <2>2, <3>1 DEF TypeOK
    <3>3. x \in OpType /\ x.pc = "flagrow" /\ x.name \in Names /\ x.obj \in Objs
      BY <3>1, <3>2 DEF TypeOK, OpType
    <3>4. op' = [op EXCEPT ![o] = x] /\ panicked' = panicked
      BY <1>9, <2>2 DEF FlagGet
    <3> HIDE DEF x
    <3>5. op' \in [Ops -> OpType] /\ OpKnows'
      BY <3>3, <3>4, OpMoves
    <3>6. QED
      BY <1>9, <3>4, <3>5 DEF FlagGet, TypeOK
  <2>3. QED
    BY <2>1, <2>2
<1>10. CASE FlagRow(o)
  <2>1. op[o].name \in Names /\ op[o].obj \in Objs
    BY <1>10 DEF FlagRow, OpKnows
  <2>2. [val |-> heap[op[o].obj].val, enable |-> TRUE] \in Rule
    BY <2>1 DEF TypeOK, Rule
  <2>3. row' \in [Names -> Rule \cup {Nil}]
    BY <1>10, <2>1, <2>2 DEF FlagRow, UpdateRow, TypeOK
  <2>4. op' \in [Ops -> OpType] /\ OpKnows'
    BY <1>10, OpEnds DEF FlagRow
  <2>5. QED
    BY <1>10, <2>3, <2>4 DEF FlagRow, TypeOK
<1>11. CASE EnableMem(o)
  <2>1. heap' \in [Objs -> Rule]
    BY <1>11, SetEnableType DEF EnableMem, OpKnows
  <2>2. op' \in [Ops -> OpType] /\ OpKnows'
    BY <1>11, OpGoes, OpEnds DEF EnableMem
  <2>3. QED
    BY <1>11, <2>1, <2>2 DEF EnableMem, TypeOK
<1>12. CASE StartGet(o)
  <2>1. CASE table[op[o].name] = Nil
    BY <1>12, <2>1, FollowsNilType DEF StartGet
  <2>2. CASE table[op[o].name] # Nil
    BY <1>12, <2>2, OpEnds DEF StartGet, TypeOK
  <2>3. QED
    BY <2>1, <2>2
<1>13. CASE DisableMem(o)
  <2>1. heap' \in [Objs -> Rule]
    BY <1>13, SetEnableType DEF DisableMem, OpKnows
  <2>2. op' \in [Ops -> OpType] /\ OpKnows'
    BY <1>13, OpEnds DEF DisableMem
  <2>3. QED
    BY <1>13, <2>1, <2>2 DEF DisableMem, TypeOK
<1>14. QED
  BY <1>1, <1>2, <1>3, <1>4, <1>5, <1>6, <1>7, <1>8, <1>9, <1>10, <1>11, <1>12, <1>13
     DEF Step

\* Every step keeps the types.
LEMMA TypeInvStep == TypeInv /\ [Next]_vars => TypeInv'
<1>1. CASE UNCHANGED vars
  BY <1>1 DEF vars, TypeInv, TypeOK, OpKnows
<1>2. QED
  BY <1>1, RestartType, CommandType, StepType DEF Next

\* Every variable keeps its type: whatever commands overlap and whatever fails,
\* no command follows an object or a value it does not have.
THEOREM TypeCorrect == Spec => []TypeOK
<1>1. TypeInv => TypeOK
  BY DEF TypeInv
<1>2. QED
  BY TypeInvInit, TypeInvStep, <1>1, PTL DEF Spec

-----------------------------------------------------------------------------
(* What a step leaves of the other commands.                                *)

\* Another command goes on with what it has, or the process dies.
Undisturbed(q) ==
    \/ op'[q].pc = "idle"
    \/ /\ op'[q].pc = op[q].pc
       /\ op'[q].name = op[q].name
       /\ op'[q].val = op[q].val
       /\ op'[q].obj = op[q].obj

\* A command that begins was idle, disturbs no other and starts with a check.
LEMMA CommandMoves ==
  ASSUME TypeOK, NEW o \in Ops, Command(o)
  PROVE  /\ UNCHANGED <<table, heap, row, count, panicked, failed>>
         /\ \A q \in Ops \ {o} : op'[q] = op[q]
         /\ op[o].pc = "idle" /\ ~op'[o].gone
         /\ op'[o].pc \in {"insert", "delmem", "updrow", "flagmem", "enable", "disable"}
         /\ op'[o].pc = "delmem" => table[op'[o].name] # Nil
<1>1. PICK pc, n, p, v :
        /\ Begin(o, pc, n, p, v)
        /\ pc \in {"insert", "delmem", "updrow", "flagmem", "enable", "disable"}
        /\ pc = "delmem" => table[n] # Nil
  BY DEF Command, AddCheck, UpdCheck, DelCheck, FlagCheck, StartEnable, StopCheck
<1>2. op' = [op EXCEPT ![o] = [pc |-> pc, name |-> n, obj |-> p, val |-> v, gone |-> FALSE]]
  BY <1>1 DEF Begin
<1>3. op'[o] = [pc |-> pc, name |-> n, obj |-> p, val |-> v, gone |-> FALSE]
  BY <1>2 DEF TypeOK
<1>4. \A q \in Ops \ {o} : op'[q] = op[q]
  BY <1>2 DEF TypeOK
<1>5. op[o].pc = "idle"
  BY <1>1 DEF Begin, IdleOp
<1>6. UNCHANGED <<table, heap, row, count, panicked, failed>>
  BY DEF Command, AddCheck, UpdCheck, DelCheck, FlagCheck, StartEnable, StopCheck
<1>7. QED
  BY <1>1, <1>3, <1>4, <1>5, <1>6

\* The first half of a delete disturbs no other command: it does no more than
\* tell the starts of its rule that the rule is gone.
LEMMA DelMemMoves ==
  ASSUME TypeOK, NEW o \in Ops, DelMem(o)
  PROVE  \A q \in Ops :
            /\ op'[q].pc = IF q = o THEN "delrow" ELSE op[q].pc
            /\ op'[q].name = op[q].name
            /\ op'[q].val = op[q].val
            /\ op'[q].obj = op[q].obj
BY DEF DelMem, TypeOK, OpType

\* Where each step leads.
Follows == [insert |-> {"set"}, set |-> {}, delmem |-> {"delrow"}, delrow |-> {},
            updrow |-> {"updsel"}, updsel |-> {"updmem"}, updmem |-> {},
            flagmem |-> {"flagget"}, flagget |-> {"flagrow"}, flagrow |-> {},
            enable |-> {"startget"}, startget |-> {}, disable |-> {}]

\* A step is taken by a command that has begun, which goes on or ends.
LEMMA StepMoves ==
  ASSUME TypeOK, NEW o \in Ops, Step(o)
  PROVE  /\ op[o].pc # "idle"
         /\ op'[o].pc = "idle" \/ (op'[o].pc \in Follows[op[o].pc] /\ op'[o].name = op[o].name)
         /\ \A q \in Ops \ {o} : Undisturbed(q)
<1>1. CASE DelMem(o)
  <2>1. op[o].pc = "delmem" /\ Follows["delmem"] = {"delrow"}
    BY <1>1 DEF DelMem, Follows
  <2>2. \A q \in Ops \ {o} : Undisturbed(q)
    BY <1>1, DelMemMoves DEF Undisturbed
  <2>3. QED
    BY <1>1, <2>1, <2>2, DelMemMoves
<1>2. CASE AddInsert(o) \/ AddSet(o) \/ DelRow(o)
  BY <1>2 DEF AddInsert, AddSet, DelRow, Goes, End, IdleOp, TypeOK, OpType, Undisturbed, Follows
<1>3. CASE UpdRow(o) \/ UpdSelect(o) \/ UpdMem(o)
  BY <1>3 DEF UpdRow, UpdSelect, UpdMem, Goes, Fails, End, IdleOp, TypeOK, OpType, Undisturbed,
              Follows
<1>4. CASE FlagMem(o) \/ EnableMem(o) \/ DisableMem(o) \/ FlagRow(o)
  <2>1. \/ op[o].pc = "flagmem" /\ Goes(o, "flagget")
        \/ op[o].pc = "enable" /\ Goes(o, "startget")
        \/ op[o].pc # "idle" /\ End(o)
    BY <1>4 DEF FlagMem, EnableMem, DisableMem, FlagRow
  <2>2. QED
    BY <2>1 DEF Goes, End, IdleOp, TypeOK, OpType, Undisturbed, Follows
<1>5. CASE (FlagGet(o) \/ StartGet(o)) /\ (FollowsNil(o) \/ End(o))
  BY <1>5 DEF FlagGet, StartGet, FollowsNil, End, IdleOp, TypeOK, Undisturbed
<1>6. CASE FlagGet(o) /\ table[op[o].name] # Nil
  BY <1>6 DEF FlagGet, TypeOK, OpType, Undisturbed, Follows
<1>7. QED
  BY <1>1, <1>2, <1>3, <1>4, <1>5, <1>6 DEF Step, FlagGet, StartGet

-----------------------------------------------------------------------------
(* A start that meets a nil rule.                                           *)

\* A step leaves the starts that are at their second look as NilNeedsDelete has
\* it if each of them still finds its rule when it did, or is told.
LEMMA StillToldOrThere ==
  ASSUME TypeInv, NilNeedsDelete,
         \A n \in Names : table[n] # Nil => table'[n] # Nil,
         \A q \in Ops : op'[q].pc \in SecondLook =>
            \/ op'[q].pc = op[q].pc /\ op'[q].name = op[q].name /\ op'[q].gone = op[q].gone
            \/ table'[op'[q].name] # Nil
  PROVE  NilNeedsDelete'
<1> SUFFICES ASSUME NEW q \in Ops, op'[q].pc \in SecondLook, table'[op'[q].name] = Nil
             PROVE  op'[q].gone
  BY DEF NilNeedsDelete, SecondLook
<1>1. op[q].pc \in SecondLook /\ op'[q].name = op[q].name /\ op'[q].gone = op[q].gone
  OBVIOUS
<1>2. op[q].name \in Names
  BY <1>1 DEF SecondLook, TypeInv, OpKnows
<1>3. QED
  BY <1>1, <1>2 DEF NilNeedsDelete

\* The first half of a delete tells every start of its rule.
LEMMA DelMemTells ==
  ASSUME TypeInv, NilNeedsDelete, NEW o \in Ops, DelMem(o)
  PROVE  NilNeedsDelete'
<1> SUFFICES ASSUME NEW q \in Ops, op'[q].pc \in SecondLook, table'[op'[q].name] = Nil
             PROVE  op'[q].gone
  BY DEF NilNeedsDelete, SecondLook
<1>1. op'[q].pc = (IF q = o THEN "delrow" ELSE op[q].pc) /\ op'[q].name = op[q].name
  BY DelMemMoves DEF TypeInv
<1>2. q # o /\ op[q].pc \in SecondLook /\ op[q].name \in Names
  BY <1>1 DEF SecondLook, TypeInv, OpKnows
<1>3. CASE op[q].name = op[o].name
  BY <1>2, <1>3 DEF DelMem, TypeInv, TypeOK, OpType
<1>4. CASE op[q].name # op[o].name
  <2>1. table[op[q].name] = Nil /\ op'[q] = op[q]
    BY <1>1, <1>2, <1>4 DEF DelMem, TypeInv, TypeOK
  <2>2. QED
    BY <1>2, <2>1 DEF NilNeedsDelete
<1>5. QED
  BY <1>3, <1>4

\* Every other step finds the rule that it is going to look up again, or takes
\* no rule away.
LEMMA StepTells ==
  ASSUME TypeInv, NilNeedsDelete, NEW o \in Ops, Step(o)
  PROVE  NilNeedsDelete'
<1> USE DEF TypeInv
<1>1. CASE DelMem(o)
  BY <1>1, DelMemTells
<1>2. CASE AddSet(o)
  <2>1. op[o].name \in Names
    BY <1>2 DEF AddSet, OpKnows
  <2>2. PICK p \in Objs : table' = [table EXCEPT ![op[o].name] = p]
    BY <1>2 DEF AddSet
  <2>3. \A m \in Names : table[m] # Nil => table'[m] # Nil
    BY <2>1, <2>2, NilAssumption DEF TypeOK
  <2>4. op'[o].pc = "idle" /\ \A q \in Ops \ {o} : op'[q] = op[q]
    BY <1>2 DEF AddSet, End, IdleOp, TypeOK
  <2>5. QED
    BY <2>3, <2>4, StillToldOrThere DEF SecondLook
<1>3. CASE FlagMem(o) \/ EnableMem(o)
  <2>1. /\ table' = table
        /\ \/ End(o)
           \/ /\ table[op[o].name] # Nil
              /\ Goes(o, "flagget") \/ Goes(o, "startget")
    BY <1>3 DEF FlagMem, EnableMem
  <2>2. /\ \A q \in Ops \ {o} : op'[q] = op[q]
        /\ op'[o].pc \in SecondLook => table'[op'[o].name] # Nil
    BY <2>1 DEF End, IdleOp, Goes, TypeOK, OpType, SecondLook
  <2>3. QED
    BY <2>1, <2>2, StillToldOrThere
<1>4. CASE FlagGet(o) \/ StartGet(o)
  <2>1. \A q \in Ops : op'[q].pc \notin SecondLook \/ op'[q] = op[q]
    BY <1>4 DEF FlagGet, StartGet, FollowsNil, End, IdleOp, TypeOK, OpType, SecondLook
  <2>2. table' = table
    BY <1>4 DEF FlagGet, StartGet
  <2>3. QED
    BY <2>1, <2>2, StillToldOrThere
<1>5. CASE AddInsert(o) \/ DelRow(o) \/ UpdRow(o) \/ UpdSelect(o) \/ UpdMem(o)
           \/ FlagRow(o) \/ DisableMem(o)
  <2>1. table' = table
    BY <1>5 DEF AddInsert, DelRow, UpdRow, UpdSelect, UpdMem, FlagRow, DisableMem
  <2>2. End(o) \/ \E pc \in {"set", "updsel", "updmem"} : Goes(o, pc)
    BY <1>5 DEF AddInsert, DelRow, UpdRow, UpdSelect, UpdMem, FlagRow, DisableMem, Fails, End
  <2>3. op'[o].pc \notin SecondLook /\ \A q \in Ops \ {o} : op'[q] = op[q]
    BY <2>2 DEF End, IdleOp, Goes, TypeOK, OpType, SecondLook
  <2>4. QED
    BY <2>1, <2>3, StillToldOrThere
<1>6. QED
  BY <1>1, <1>2, <1>3, <1>4, <1>5 DEF Step

\* A start follows a nil rule, which ends the process or its request, only if
\* the rule was deleted between its two look-ups (shellcmd.go:156-171,
\* web.go:175-182): whatever else overlaps, fails or is restarted.
THEOREM NilRuleNeedsDelete == Spec => []NilNeedsDelete
<1> DEFINE Inv == TypeInv /\ NilNeedsDelete
<1>1. Init => Inv
  BY TypeInvInit DEF Init, IdleOp, NilNeedsDelete, SecondLook
<1>2. Inv /\ [Next]_vars => Inv'
  <2> SUFFICES ASSUME Inv, [Next]_vars PROVE NilNeedsDelete'
    BY TypeInvStep
  <2>1. CASE UNCHANGED vars
    BY <2>1 DEF vars, NilNeedsDelete, SecondLook
  <2>2. CASE Restart
    BY <2>2 DEF Restart, IdleOp, NilNeedsDelete, SecondLook
  <2>3. ASSUME NEW o \in Ops, Command(o) PROVE NilNeedsDelete'
    <3>1. /\ table' = table /\ op'[o].pc \notin SecondLook
          /\ \A q \in Ops \ {o} : op'[q] = op[q]
      BY <2>3, CommandMoves DEF TypeInv, SecondLook
    <3>2. QED
      BY <3>1, StillToldOrThere
  <2>4. ASSUME NEW o \in Ops, Step(o) PROVE NilNeedsDelete'
    BY <2>4, StepTells
  <2>5. QED
    BY <2>1, <2>2, <2>3, <2>4 DEF Next
<1>3. QED
  BY <1>1, <1>2, PTL DEF Spec

-----------------------------------------------------------------------------
(* Commands that are kept apart do not overlap.                             *)

Kinds == {"add", "del", "upd", "flag", "start", "stop"}

\* Only commands of the kinds that are given are executed, and no two of them
\* that Apart keeps apart for one rule.
KeptApart ==
    /\ \A o \in Ops, k \in Kinds : op[o].pc \in StepsOf[k] => k \in Commands
    /\ \A o, q \in Ops, j, k \in Kinds, n \in Names :
          o # q /\ Executes(o, j, n) /\ Executes(q, k, n) => {j, k} \notin Apart

\* Commands of these kinds never overlap for one rule: one kind is not given, the
\* operators see to it, or all commands come one at a time.
Excluded(j, k) ==
    \/ j \notin Commands \/ k \notin Commands
    \/ {j, k} \in Apart
    \/ \A o, q \in Ops : o = q

\* So no two commands of such kinds are executed for one rule.
LEMMA Exclusive ==
  ASSUME KeptApart, NEW j \in Kinds, NEW k \in Kinds, Excluded(j, k),
         NEW o \in Ops, NEW q \in Ops, NEW n \in Names, Executes(o, j, n), Executes(q, k, n)
  PROVE  o = q
<1>1. j \in Commands /\ k \in Commands
  BY DEF KeptApart, Executes
<1>2. QED
  BY <1>1 DEF KeptApart, Excluded

\* A command stays of its kind until it ends.
LEMMA StepKind ==
  ASSUME TypeOK, NEW o \in Ops, Step(o), NEW q \in Ops, NEW k \in Kinds
  PROVE  op'[q].pc \in StepsOf[k] => op[q].pc \in StepsOf[k] /\ op'[q].name = op[q].name
<1>1. "idle" \notin StepsOf[k]
  BY DEF Kinds, StepsOf
<1>2. CASE q # o
  BY <1>1, <1>2, StepMoves DEF Undisturbed
<1>3. CASE q = o
  <2> SUFFICES ASSUME op'[o].pc \in StepsOf[k]
               PROVE  op[o].pc \in StepsOf[k] /\ op'[o].name = op[o].name
    BY <1>3
  <2>1. op'[o].pc \in Follows[op[o].pc] /\ op'[o].name = op[o].name /\ op[o].pc # "idle"
    BY <1>1, StepMoves
  <2>2. op[o].pc \in {"insert", "set", "delmem", "delrow", "updrow", "updsel", "updmem",
                      "flagmem", "flagget", "flagrow", "enable", "startget", "disable"}
    BY <2>1 DEF TypeOK, OpType
  <2>3. op[o].pc \in StepsOf[k]
    BY <2>1, <2>2 DEF Follows, StepsOf, Kinds
  <2>4. QED
    BY <2>1, <2>3
<1>4. QED
  BY <1>2, <1>3

\* A command that begins is given: no command it is kept apart from is executed.
LEMMA CommandKind ==
  ASSUME TypeOK, NEW o \in Ops, Command(o), NEW k \in Kinds, op'[o].pc \in StepsOf[k]
  PROVE  op'[o].name \in Names /\ Given(k, op'[o].name)
<1>1. PICK kind, pc, n :
        /\ kind \in Kinds /\ pc \in StepsOf[kind] /\ n \in Names
        /\ Given(kind, n)
        /\ \E p, v : Begin(o, pc, n, p, v)
  BY DEF Command, AddCheck, UpdCheck, DelCheck, FlagCheck, StartEnable, StopCheck,
         Kinds, StepsOf
<1>2. op'[o].pc = pc /\ op'[o].name = n
  BY <1>1 DEF Begin, TypeOK
<1>3. kind = k
  BY <1>1, <1>2 DEF Kinds, StepsOf
<1>4. QED
  BY <1>1, <1>2, <1>3

\* What is kept apart stays apart.
LEMMA KeptApartStep == TypeInv /\ KeptApart /\ [Next]_vars => KeptApart'
<1> SUFFICES ASSUME TypeInv, KeptApart, [Next]_vars PROVE KeptApart'
  OBVIOUS
<1>1. CASE UNCHANGED vars
  BY <1>1 DEF vars, KeptApart, Executes
<1>2. CASE Restart
  <2>1. \A o \in Ops, k \in Kinds : op'[o].pc \notin StepsOf[k]
    BY <1>2 DEF Restart, IdleOp, Kinds, StepsOf
  <2>2. QED
    BY <2>1 DEF KeptApart, Executes
<1>3. ASSUME NEW o \in Ops, Step(o) PROVE KeptApart'
  <2>1. ASSUME NEW q \in Ops, NEW k \in Kinds
        PROVE  op'[q].pc \in StepsOf[k] => op[q].pc \in StepsOf[k] /\ op'[q].name = op[q].name
    BY <1>3, StepKind DEF TypeInv
  <2>2. QED
    BY <2>1 DEF KeptApart, Executes
<1>4. ASSUME NEW o \in Ops, Command(o) PROVE KeptApart'
  <2>1. \A q \in Ops \ {o} : op'[q] = op[q]
    BY <1>4, CommandMoves DEF TypeInv
  <2>2. ASSUME NEW k \in Kinds, op'[o].pc \in StepsOf[k]
        PROVE  op'[o].name \in Names /\ Given(k, op'[o].name)
    BY <1>4, <2>2, CommandKind DEF TypeInv
  <2>3. ASSUME NEW q \in Ops, NEW k \in Kinds, op'[q].pc \in StepsOf[k]
        PROVE  k \in Commands
    BY <2>1, <2>2, <2>3 DEF KeptApart, Given
  <2>4. ASSUME NEW q \in Ops \ {o}, NEW j \in Kinds, NEW k \in Kinds, NEW n \in Names,
               Executes(o, j, n)', Executes(q, k, n)'
        PROVE  {j, k} \notin Apart /\ {k, j} \notin Apart
    <3>1. op'[o].pc \in StepsOf[j] /\ op'[o].name = n
      BY <2>4 DEF Executes
    <3>2. Executes(q, k, n) /\ k \in Commands
      BY <2>1, <2>4 DEF Executes, KeptApart
    <3>3. {j, k} \notin Apart
      BY <2>2, <3>1, <3>2 DEF Given
    <3>4. {k, j} = {j, k}
      OBVIOUS
    <3>5. QED
      BY <3>3, <3>4
  <2>5. ASSUME NEW x \in Ops, NEW q \in Ops, NEW j \in Kinds, NEW k \in Kinds, NEW n \in Names,
               x # q, Executes(x, j, n)', Executes(q, k, n)'
        PROVE  {j, k} \notin Apart
    <3>1. CASE x # o /\ q # o
      BY <2>1, <2>5, <3>1 DEF Executes, KeptApart
    <3>2. CASE x = o \/ q = o
      BY <2>4, <2>5, <3>2
    <3>3. QED
      BY <3>1, <3>2
  <2>6. QED
    BY <2>3, <2>5 DEF KeptApart
<1>5. QED
  BY <1>1, <1>2, <1>3, <1>4 DEF Next

-----------------------------------------------------------------------------
(* A rule in memory is on disk.                                             *)

\* No two deletes of one rule overlap; everything else may.
Calm == Excluded("del", "del")

\* Between its two halves an add has the row and a delete has the table entry:
\* so the one never finds its rule while the other is between them.
HalfDone ==
    \A o \in Ops :
        /\ op[o].pc = "set" => row[op[o].name] # Nil /\ table[op[o].name] = Nil
        /\ op[o].pc = "delmem" => table[op[o].name] # Nil
        /\ op[o].pc = "delrow" => row[op[o].name] # Nil /\ table[op[o].name] = Nil

\* No add is between its halves with another add or a delete of its name.
HalvesApart ==
    \A o, q \in Ops :
        /\ op[o].pc = "set"
        /\ op[q].pc \in {"set", "delrow"}
        /\ op[o].name = op[q].name
        => o = q

StoreInv == TypeInv /\ KeptApart /\ MemInDb /\ HalfDone /\ HalvesApart

\* Nil is neither a row nor an object.
LEMMA NilIsNoRule == Nil \notin Rule /\ Nil \notin Objs
BY NilAssumption DEF Rule

\* There is one delete of a rule at a time.
LEMMA OneDelete ==
  ASSUME Calm, StoreInv, NEW o \in Ops, NEW q \in Ops, op[o].name = op[q].name,
         op[o].pc \in {"delmem", "delrow"}, op[q].pc \in {"delmem", "delrow"}
  PROVE  o = q
<1>1. op[o].name \in Names
  BY DEF StoreInv, TypeInv, OpKnows
<1>2. Executes(o, "del", op[o].name) /\ Executes(q, "del", op[o].name)
  BY DEF Executes, StepsOf
<1>3. "del" \in Kinds
  BY DEF Kinds
<1>4. QED
  BY <1>1, <1>2, <1>3, Exclusive DEF Calm, StoreInv

\* What ConfigLoad leaves in memory is what is on disk.
LEMMA StoreInvInit == Init => StoreInv
<1> SUFFICES ASSUME Init PROVE StoreInv
  OBVIOUS
<1>1. \A o \in Ops : op[o].pc = "idle"
  BY DEF Init, IdleOp
<1>2. MemInDb
  BY DEF Init, Loads, MemInDb
<1>3. KeptApart
  BY <1>1 DEF KeptApart, Executes, Kinds, StepsOf
<1>4. QED
  BY <1>1, <1>2, <1>3, TypeInvInit DEF StoreInv, HalfDone, HalvesApart

\* After a restart memory holds what is on disk, or nothing.
LEMMA RestartStore == StoreInv /\ Restart => MemInDb' /\ HalfDone' /\ HalvesApart'
<1> SUFFICES ASSUME StoreInv, Restart PROVE MemInDb' /\ HalfDone' /\ HalvesApart'
  OBVIOUS
<1>1. \A o \in Ops : op'[o].pc = "idle"
  BY DEF Restart, IdleOp
<1>2. MemInDb'
  BY DEF Restart, Loads, MemInDb
<1>3. QED
  BY <1>1, <1>2 DEF HalfDone, HalvesApart

\* A step that moves no rule in memory and removes no row, of a command that is
\* then between no halves, keeps the rules in memory on disk.
LEMMA QuietStore ==
  ASSUME StoreInv, table' = table,
         \A n \in Names : row[n] # Nil => row'[n] # Nil,
         \A q \in Ops : op'[q].pc \in {"set", "delmem", "delrow"} =>
            \/ op'[q].pc = op[q].pc /\ op'[q].name = op[q].name
            \/ op'[q].pc = "delmem" /\ table[op'[q].name] # Nil
  PROVE  MemInDb' /\ HalfDone' /\ HalvesApart'
<1>1. MemInDb'
  BY DEF StoreInv, MemInDb
<1>2. HalfDone'
  <2>1. ASSUME NEW q \in Ops, op'[q].pc \in {"set", "delrow"}
        PROVE  row'[op'[q].name] # Nil /\ table'[op'[q].name] = Nil
    <3>1. op'[q].pc = op[q].pc /\ op'[q].name = op[q].name
      BY <2>1
    <3>2. op[q].name \in Names
      BY <2>1, <3>1 DEF StoreInv, TypeInv, OpKnows
    <3>3. QED
      BY <2>1, <3>1, <3>2 DEF StoreInv, HalfDone
  <2>2. ASSUME NEW q \in Ops, op'[q].pc = "delmem" PROVE table'[op'[q].name] # Nil
    BY <2>2 DEF StoreInv, HalfDone
  <2>3. QED
    BY <2>1, <2>2 DEF HalfDone
<1>3. HalvesApart'
  BY DEF StoreInv, HalvesApart
<1>4. QED
  BY <1>1, <1>2, <1>3

\* The first step of a command is such a step.
LEMMA CommandStore ==
  ASSUME StoreInv, NEW o \in Ops, Command(o)
  PROVE  MemInDb' /\ HalfDone' /\ HalvesApart'
<1>1. /\ UNCHANGED <<table, row>>
      /\ \A q \in Ops \ {o} : op'[q] = op[q]
      /\ op'[o].pc \notin {"set", "delrow"}
      /\ op'[o].pc = "delmem" => table[op'[o].name] # Nil
  BY CommandMoves DEF StoreInv, TypeInv
<1>2. QED
  BY <1>1, QuietStore

\* So are the later steps but an add's insert and a delete's first half.
LEMMA QuietStep ==
  ASSUME TypeOK, NEW o \in Ops, Step(o), op[o].pc \notin {"insert", "delmem"}
  PROVE  \A q \in Ops : op'[q].pc \in {"set", "delmem", "delrow"} =>
            q # o /\ op'[q].pc = op[q].pc /\ op'[q].name = op[q].name
<1>1. op'[o].pc \notin {"set", "delmem", "delrow"}
  BY StepMoves DEF Follows, TypeOK, OpType
<1>2. QED
  BY <1>1, StepMoves DEF Undisturbed

\* An UPDATE removes no row.
LEMMA UpdateRowKeeps ==
  ASSUME TypeOK, NEW n \in Names, NEW new \in Rule, UpdateRow(n, new)
  PROVE  \A m \in Names : row[m] # Nil => row'[m] # Nil
BY NilIsNoRule DEF TypeOK, UpdateRow

\* The halves of an addition.
LEMMA AddStore ==
  ASSUME StoreInv, NEW o \in Ops, AddInsert(o) \/ AddSet(o)
  PROVE  MemInDb' /\ HalfDone' /\ HalvesApart'
<1> USE DEF StoreInv, TypeInv
<1> DEFINE n == op[o].name
<1>1. n \in Names /\ op[o].val \in Vals
  BY DEF AddInsert, AddSet, OpKnows
<1>2. CASE /\ AddInsert(o)
           /\ row[n] = Nil /\ row' = [row EXCEPT ![n] = [val |-> op[o].val, enable |-> FALSE]]
           /\ Goes(o, "set")
  <2>1. [val |-> op[o].val, enable |-> FALSE] # Nil
    <3>1. [val |-> op[o].val, enable |-> FALSE] \in Rule
      BY <1>1 DEF Rule
    <3>2. QED
      BY <3>1, NilIsNoRule
  <2>2. row'[n] # Nil /\ \A m \in Names \ {n} : row'[m] = row[m]
    BY <1>1, <1>2, <2>1 DEF TypeOK
  <2>3. /\ \A q \in Ops \ {o} : op'[q] = op[q]
        /\ op'[o].pc = "set" /\ op'[o].name = n
    BY <1>2 DEF Goes, TypeOK, OpType
  <2>4. \A q \in Ops : op[q].pc \in {"set", "delrow"} => op[q].name # n
    BY <1>2 DEF HalfDone
  <2>5. table[n] = Nil /\ table' = table
    BY <1>1, <1>2 DEF MemInDb, AddInsert
  <2>6. MemInDb'
    BY <2>2, <2>5 DEF MemInDb
  <2>7. HalfDone'
    BY <1>1, <2>2, <2>3, <2>4, <2>5 DEF HalfDone, OpKnows
  <2>8. HalvesApart'
    BY <2>3, <2>4 DEF HalvesApart
  <2>9. QED
    BY <2>6, <2>7, <2>8
<1>3. CASE AddInsert(o) /\ End(o) /\ UNCHANGED row
  <2>1. table' = table /\ op'[o].pc = "idle" /\ \A q \in Ops \ {o} : op'[q] = op[q]
    BY <1>3 DEF AddInsert, End, IdleOp, TypeOK
  <2>2. QED
    BY <1>3, <2>1, QuietStore
<1>4. CASE AddSet(o)
  <2>1. PICK p \in Objs : table' = [table EXCEPT ![n] = p]
    BY <1>4 DEF AddSet
  <2>2. table'[n] # Nil /\ \A m \in Names \ {n} : table'[m] = table[m]
    BY <1>1, <2>1, NilIsNoRule DEF TypeOK
  <2>3. /\ row' = row /\ op[o].pc = "set"
        /\ op'[o].pc = "idle" /\ \A q \in Ops \ {o} : op'[q] = op[q]
    BY <1>4 DEF AddSet, End, IdleOp, TypeOK
  <2>4. row[n] # Nil
    BY <2>3 DEF HalfDone
  <2>5. \A q \in Ops \ {o} : op[q].pc \in {"set", "delrow"} => op[q].name # n
    BY <2>3 DEF HalvesApart
  <2>6. MemInDb'
    BY <2>2, <2>3, <2>4 DEF MemInDb
  <2>7. HalfDone'
    BY <1>1, <2>2, <2>3, <2>5 DEF HalfDone, OpKnows
  <2>8. HalvesApart'
    BY <2>3 DEF HalvesApart
  <2>9. QED
    BY <2>6, <2>7, <2>8
<1>5. QED
  BY <1>2, <1>3, <1>4 DEF AddInsert

\* The halves of a delete.
LEMMA DelStore ==
  ASSUME Calm, StoreInv, NEW o \in Ops, DelMem(o) \/ DelRow(o)
  PROVE  MemInDb' /\ HalfDone' /\ HalvesApart'
<1> USE DEF StoreInv, TypeInv
<1> DEFINE n == op[o].name
<1>1. n \in Names /\ op[o].pc \in {"delmem", "delrow"}
  BY DEF DelMem, DelRow, OpKnows
<1>2. \A q \in Ops \ {o} : op[q].pc \in {"delmem", "delrow"} => op[q].name # n
  BY <1>1, OneDelete
<1>3. CASE DelMem(o)
  <2>1. row' = row /\ table'[n] = Nil /\ \A m \in Names \ {n} : table'[m] = table[m]
    BY <1>1, <1>3 DEF DelMem, TypeOK
  <2>2. /\ \A q \in Ops : op'[q].name = op[q].name
        /\ \A q \in Ops \ {o} : op'[q].pc = op[q].pc
        /\ op[o].pc = "delmem" /\ op'[o].pc = "delrow"
    <3>1. op[o].pc = "delmem"
      BY <1>3 DEF DelMem
    <3>2. \A q \in Ops :
            /\ op'[q].name = op[q].name
            /\ op'[q].pc = IF q = o THEN "delrow" ELSE op[q].pc
      BY <1>3, DelMemMoves
    <3>3. QED
      BY <3>1, <3>2
  <2>3. row[n] # Nil /\ \A q \in Ops : op[q].pc = "set" => op[q].name # n
    BY <1>1, <2>2 DEF HalfDone, MemInDb
  <2>4. MemInDb'
    BY <2>1 DEF MemInDb
  <2>5. HalfDone'
    BY <1>1, <1>2, <2>1, <2>2, <2>3 DEF HalfDone, OpKnows
  <2>6. HalvesApart'
    BY <2>2, <2>3 DEF HalvesApart
  <2>7. QED
    BY <2>4, <2>5, <2>6
<1>4. CASE DelRow(o)
  <2>1. /\ table' = table /\ \A m \in Names \ {n} : row'[m] = row[m]
        /\ op[o].pc = "delrow"
        /\ op'[o].pc = "idle" /\ \A q \in Ops \ {o} : op'[q] = op[q]
    BY <1>4 DEF DelRow, End, IdleOp, TypeOK
  <2>2. table[n] = Nil /\ \A q \in Ops : op[q].pc = "set" => op[q].name # n
    BY <1>1, <2>1 DEF HalfDone, HalvesApart
  <2>3. MemInDb'
    BY <2>1, <2>2 DEF MemInDb
  <2>4. HalfDone'
    BY <1>2, <2>1, <2>2 DEF HalfDone, OpKnows
  <2>5. HalvesApart'
    BY <2>1 DEF HalvesApart
  <2>6. QED
    BY <2>3, <2>4, <2>5
<1>5. QED
  BY <1>3, <1>4

\* Every later step of a command keeps the rules in memory on disk.
LEMMA StepStore ==
  ASSUME Calm, StoreInv, NEW o \in Ops, Step(o)
  PROVE  MemInDb' /\ HalfDone' /\ HalvesApart'
<1> USE DEF StoreInv, TypeInv
<1> DEFINE n == op[o].name
<1>1. CASE AddInsert(o) \/ AddSet(o)
  BY <1>1, AddStore
<1>2. CASE DelMem(o) \/ DelRow(o)
  BY <1>2, DelStore
<1>3. CASE UpdRow(o)
  <2>1. n \in Names /\ op[o].val \in Vals /\ op[o].obj \in Objs /\ op[o].pc = "updrow"
    BY <1>3 DEF UpdRow, OpKnows
  <2>2. [val |-> op[o].val, enable |-> heap[op[o].obj].enable] \in Rule
    BY <2>1 DEF TypeOK, Rule
  <2>3. table' = table /\ \A m \in Names : row[m] # Nil => row'[m] # Nil
    BY <1>3, <2>1, <2>2, UpdateRowKeeps DEF UpdRow
  <2>4. QED
    BY <2>1, <2>3, QuietStep, QuietStore
<1>4. CASE FlagRow(o)
  <2>1. n \in Names /\ op[o].obj \in Objs /\ op[o].pc = "flagrow"
    BY <1>4 DEF FlagRow, OpKnows
  <2>2. [val |-> heap[op[o].obj].val, enable |-> TRUE] \in Rule
    BY <2>1 DEF TypeOK, Rule
  <2>3. table' = table /\ \A m \in Names : row[m] # Nil => row'[m] # Nil
    BY <1>4, <2>1, <2>2, UpdateRowKeeps DEF FlagRow
  <2>4. QED
    BY <2>1, <2>3, QuietStep, QuietStore
<1>5. CASE UpdSelect(o) \/ UpdMem(o) \/ FlagMem(o) \/ FlagGet(o) \/ EnableMem(o)
           \/ StartGet(o) \/ DisableMem(o)
  <2>1. UNCHANGED <<table, row>> /\ op[o].pc \notin {"insert", "delmem"}
    BY <1>5 DEF UpdSelect, UpdMem, FlagMem, FlagGet, EnableMem, StartGet, DisableMem
  <2>2. QED
    BY <2>1, QuietStep, QuietStore
<1>6. QED
  BY <1>1, <1>2, <1>3, <1>4, <1>5 DEF Step

\* Every step does, if no two deletes of a rule overlap.
LEMMA StoreInvStep == Calm /\ StoreInv /\ [Next]_vars => StoreInv'
<1> SUFFICES ASSUME Calm, StoreInv, [Next]_vars PROVE StoreInv'
  OBVIOUS
<1>1. TypeInv' /\ KeptApart'
  BY TypeInvStep, KeptApartStep DEF StoreInv
<1>2. MemInDb' /\ HalfDone' /\ HalvesApart'
  <2>1. CASE UNCHANGED vars
    BY <2>1 DEF vars, StoreInv, MemInDb, HalfDone, HalvesApart
  <2>2. QED
    BY <2>1, RestartStore, CommandStore, StepStore DEF Next
<1>3. QED
  BY <1>1, <1>2 DEF StoreInv

\* A rule the server knows is on disk, at every instant and so at every crash,
\* if no two deletes of it overlap (shellcmd.go:208-220,237-238,
\* web.go:270-283,306-307).
THEOREM RulesAreOnDisk ==
  ASSUME Calm
  PROVE  Spec => []MemInDb
<1>1. StoreInv /\ [Next]_vars => StoreInv'
  BY StoreInvStep
<1>2. StoreInv => MemInDb
  BY DEF StoreInv
<1>3. QED
  BY StoreInvInit, <1>1, <1>2, PTL DEF Spec

\* And an add that has inserted its row finds its name vacant in memory,
\* whatever other adds and deletes of that name are under way.
THEOREM AddsFindVacancy ==
  ASSUME Calm
  PROVE  Spec => []AddFindsVacancy
<1>1. StoreInv /\ [Next]_vars => StoreInv'
  BY StoreInvStep
<1>2. StoreInv => AddFindsVacancy
  BY DEF StoreInv, HalfDone, AddFindsVacancy
<1>3. QED
  BY StoreInvInit, <1>1, <1>2, PTL DEF Spec

-----------------------------------------------------------------------------
(* Memory and disk agree.                                                   *)

\* No two commands that write the row of one rule overlap, but two adds, of which
\* only one gets to write it, and two starts in a stopped service.
CalmUpd ==
    /\ Excluded("upd", "upd") /\ Excluded("upd", "flag") /\ Excluded("upd", "add")
    /\ Excluded("flag", "add")

\* No two rules share an object, so that changing one changes no other.
OneRule == \A m, n \in Names : table[m] = table[n] /\ table[m] # Nil => m = n

\* A row that has been written holds what the command goes on with, and the
\* object it is going to be written from is still that of the rule, or the rule
\* has been deleted.
RowKnown ==
    \A o \in Ops :
        /\ op[o].pc \in {"set", "updsel", "updmem"} /\ row[op[o].name] # Nil =>
              row[op[o].name].val = op[o].val
        /\ op[o].pc = "flagrow" => table[op[o].name] \in {op[o].obj, Nil}

\* Memory and disk agree on a rule but between the two halves of its update.
BetweenHalves(n) == \E o \in Ops : op[o].pc \in {"updsel", "updmem"} /\ op[o].name = n
Agree ==
    ~panicked => \A n \in Names \ failed :
        table[n] # Nil /\ row[n] # Nil /\ ~BetweenHalves(n) => heap[table[n]].val = row[n].val

AgreeInv == StoreInv /\ OneRule /\ RowKnown /\ Agree

\* An update is the only command for its rule that writes the row.
LEMMA UpdApart ==
  ASSUME CalmUpd, StoreInv, NEW o \in Ops, NEW q \in Ops, op[o].name = op[q].name,
         op[o].pc \in {"updrow", "updsel", "updmem"},
         op[q].pc \in {"updrow", "updsel", "updmem", "flagrow", "insert", "set"}
  PROVE  o = q
<1>1. op[o].name \in Names
  BY DEF StoreInv, TypeInv, OpKnows
<1>2. Executes(o, "upd", op[o].name)
  BY DEF Executes, StepsOf
<1>3. \/ Executes(q, "upd", op[o].name)
      \/ Executes(q, "flag", op[o].name)
      \/ Executes(q, "add", op[o].name)
  BY DEF Executes, StepsOf
<1>4. {"upd", "flag", "add"} \subseteq Kinds
  BY DEF Kinds
<1>5. QED
  BY <1>1, <1>2, <1>3, <1>4, Exclusive DEF CalmUpd, StoreInv

\* No add of a name is executed beside a start that writes its row.
LEMMA FlagApart ==
  ASSUME CalmUpd, StoreInv, NEW o \in Ops, NEW q \in Ops,
         op[o].pc = "flagrow", op[q].pc \in {"insert", "set"}
  PROVE  op[o].name # op[q].name
<1> SUFFICES ASSUME op[o].name = op[q].name PROVE FALSE
  OBVIOUS
<1>1. op[o].name \in Names
  BY DEF StoreInv, TypeInv, OpKnows
<1>2. Executes(o, "flag", op[o].name) /\ Executes(q, "add", op[o].name)
  BY DEF Executes, StepsOf
<1>3. "flag" \in Kinds /\ "add" \in Kinds
  BY DEF Kinds
<1>4. o = q
  BY <1>1, <1>2, <1>3, Exclusive DEF CalmUpd, StoreInv
<1>5. QED
  BY <1>4

\* At the start memory is what was loaded.
LEMMA FreshAgree ==
  ASSUME Loads(row, table, heap), \A o \in Ops : op[o].pc = "idle"
  PROVE  OneRule /\ RowKnown /\ Agree
BY DEF OneRule, Loads, Agree, RowKnown

\* After a restart it is what was loaded, or there are no rules.
LEMMA RestartAgree ==
  ASSUME Restart
  PROVE  OneRule' /\ RowKnown' /\ Agree'
<1>1. \A o \in Ops : op'[o].pc = "idle"
  BY DEF Restart, IdleOp
<1>2. row' = row /\ (Loads(row, table', heap') \/ \A n \in Names : table'[n] = Nil)
  BY DEF Restart
<1>3. OneRule'
  BY <1>2 DEF OneRule, Loads
<1>4. Agree'
  BY <1>2 DEF Agree, Loads
<1>5. QED
  BY <1>1, <1>3, <1>4 DEF RowKnown

\* A step that changes no setting in memory or on disk keeps them as equal as
\* they were.
LEMMA QuietAgree ==
  ASSUME AgreeInv, NEW o \in Ops, UNCHANGED <<table, row, panicked>>,
         \A p \in Objs : heap'[p].val = heap[p].val, failed \subseteq failed',
         \A q \in Ops \ {o} : op'[q] = op[q],
         op'[o].pc \in {"set", "updsel", "updmem"} /\ row[op'[o].name] # Nil =>
            row[op'[o].name].val = op'[o].val,
         op'[o].pc = "flagrow" => table[op'[o].name] = op'[o].obj,
         op[o].pc \in {"updsel", "updmem"} =>
            \/ op[o].name \in failed'
            \/ op'[o].pc \in {"updsel", "updmem"} /\ op'[o].name = op[o].name
  PROVE  OneRule' /\ RowKnown' /\ Agree'
<1>1. OneRule'
  BY DEF AgreeInv, OneRule
<1>2. RowKnown'
  BY DEF AgreeInv, RowKnown
<1>3. Agree'
  <2> SUFFICES ASSUME ~panicked, NEW n \in Names \ failed', table[n] # Nil, row[n] # Nil,
                      ~BetweenHalves(n)'
               PROVE  heap'[table[n]].val = row[n].val
    BY DEF Agree
  <2>1. ~BetweenHalves(n)
    BY DEF BetweenHalves
  <2>2. heap[table[n]].val = row[n].val
    BY <2>1 DEF AgreeInv, Agree
  <2>3. table[n] \in Objs
    BY DEF AgreeInv, StoreInv, TypeInv, TypeOK
  <2>4. QED
    BY <2>2, <2>3
<1>4. QED
  BY <1>1, <1>2, <1>3

\* A start that follows a nil rule changes nothing.
LEMMA FollowsNilAgree ==
  ASSUME AgreeInv, NEW o \in Ops, FollowsNil(o), UNCHANGED <<table, heap, row, failed>>,
         op[o].pc \notin {"updsel", "updmem"}
  PROVE  OneRule' /\ RowKnown' /\ Agree'
<1> USE DEF AgreeInv, StoreInv, TypeInv
<1>1. CASE panicked' = TRUE /\ op' = [q \in Ops |-> IdleOp]
  BY <1>1 DEF OneRule, RowKnown, Agree, IdleOp
<1>2. CASE End(o) /\ UNCHANGED panicked
  <2>1. op'[o].pc = "idle" /\ \A q \in Ops \ {o} : op'[q] = op[q]
    BY <1>2 DEF End, IdleOp, TypeOK
  <2>2. QED
    BY <1>2, <2>1, QuietAgree
<1>3. QED
  BY <1>1, <1>2 DEF FollowsNil

\* Enable is no setting that memory and disk are to agree on.
LEMMA EnableKeeps ==
  ASSUME TypeOK, NEW n \in Names, NEW b \in BOOLEAN, SetEnable(n, b)
  PROVE  \A p \in Objs : heap'[p].val = heap[p].val
BY DEF SetEnable, TypeOK, Rule

\* An add writes the row of a name that is in no list.
LEMMA AddInsertAgree ==
  ASSUME CalmUpd, AgreeInv, NEW o \in Ops, AddInsert(o)
  PROVE  OneRule' /\ RowKnown' /\ Agree'
<1> USE DEF AgreeInv, StoreInv, TypeInv
<1> DEFINE n == op[o].name
<1> DEFINE new == [val |-> op[o].val, enable |-> FALSE]
<1>1. n \in Names /\ op[o].val \in Vals /\ new.val = op[o].val /\ op[o].pc = "insert"
  BY DEF AddInsert, OpKnows
<1> HIDE DEF new
<1>2. CASE row[n] = Nil /\ row' = [row EXCEPT ![n] = new] /\ Goes(o, "set")
  <2>1. /\ op'[o].pc = "set" /\ op'[o].name = n /\ op'[o].val = op[o].val
        /\ \A q \in Ops \ {o} : op'[q] = op[q]
    BY <1>2 DEF Goes, TypeOK, OpType
  <2>2. UNCHANGED <<table, heap, failed, panicked>>
    BY DEF AddInsert
  <2>3. row'[n] = new /\ \A m \in Names \ {n} : row'[m] = row[m]
    BY <1>1, <1>2 DEF TypeOK
  <2>4. table[n] = Nil
    BY <1>1, <1>2 DEF MemInDb
  <2>5. OneRule'
    BY <2>2 DEF OneRule
  <2>6. \A q \in Ops : op[q].pc \in {"set", "updsel", "updmem"} => op[q].name # n
    BY <1>1, <1>2, UpdApart DEF HalfDone
  <2>7. RowKnown'
    BY <1>1, <2>1, <2>2, <2>3, <2>6 DEF RowKnown, OpKnows
  <2>8. \A m \in Names : BetweenHalves(m)' <=> BetweenHalves(m)
    BY <1>1, <2>1 DEF BetweenHalves
  <2>9. Agree'
    BY <2>2, <2>3, <2>4, <2>8 DEF Agree
  <2>10. QED
    BY <2>5, <2>7, <2>9
<1>3. CASE End(o) /\ UNCHANGED row
  <2>1. /\ op'[o].pc = "idle" /\ UNCHANGED <<table, heap, failed, panicked>>
        /\ \A q \in Ops \ {o} : op'[q] = op[q]
    BY <1>3 DEF AddInsert, End, IdleOp, TypeOK
  <2>2. QED
    BY <1>1, <1>3, <2>1, QuietAgree
<1>4. QED
  BY <1>2, <1>3 DEF AddInsert, new

\* The object an add sets holds what its row holds.
LEMMA AddSetAgree ==
  ASSUME CalmUpd, AgreeInv, NEW o \in Ops, AddSet(o)
  PROVE  OneRule' /\ RowKnown' /\ Agree'
<1> USE DEF AgreeInv, StoreInv, TypeInv
<1> DEFINE n == op[o].name
<1> DEFINE new == [val |-> op[o].val, enable |-> FALSE]
<1>1. n \in Names /\ op[o].val \in Vals /\ new.val = op[o].val
  BY DEF AddSet, OpKnows
<1>2. PICK p \in Objs :
        /\ Free(p)
        /\ table' = [table EXCEPT ![n] = p]
        /\ heap' = [heap EXCEPT ![p] = new]
  BY DEF AddSet
<1> HIDE DEF new
<1>3. /\ failed' = failed \ {n} /\ row' = row /\ panicked' = panicked
      /\ op[o].pc = "set" /\ op'[o].pc = "idle" /\ \A q \in Ops \ {o} : op'[q] = op[q]
  BY DEF AddSet, End, IdleOp, TypeOK
<1>4. /\ table'[n] = p /\ \A m \in Names \ {n} : table'[m] = table[m] /\ table[m] # p
      /\ heap'[p] = new /\ \A x \in Objs \ {p} : heap'[x] = heap[x]
  BY <1>1, <1>2 DEF TypeOK, Free
<1>5. row[n] # Nil /\ row[n].val = op[o].val
  BY <1>3 DEF HalfDone, RowKnown
<1>6. OneRule'
  BY <1>4 DEF OneRule
<1>7. \A q \in Ops : op[q].pc = "flagrow" => op[q].name \in Names \ {n}
  BY <1>3, FlagApart DEF OpKnows
<1>8. RowKnown'
  BY <1>3, <1>4, <1>7 DEF RowKnown
<1>9. Agree'
  <2> SUFFICES ASSUME ~panicked, NEW m \in Names \ failed', table'[m] # Nil, row[m] # Nil,
                      ~BetweenHalves(m)'
               PROVE  heap'[table'[m]].val = row[m].val
    BY <1>3 DEF Agree
  <2>1. CASE m = n
    BY <1>1, <1>4, <1>5, <2>1
  <2>2. CASE m # n
    <3>1. table'[m] = table[m] /\ table[m] \in Objs \ {p} /\ m \in Names \ failed
      BY <1>3, <1>4, <2>2 DEF TypeOK
    <3>2. ~BetweenHalves(m)
      BY <1>3 DEF BetweenHalves
    <3>3. heap[table[m]].val = row[m].val
      BY <3>1, <3>2, NilIsNoRule DEF Agree
    <3>4. QED
      BY <1>4, <3>1, <3>3
  <2>3. QED
    BY <2>1, <2>2
<1>10. QED
  BY <1>6, <1>8, <1>9

\* The halves of a delete take away what might disagree.
LEMMA DelAgree ==
  ASSUME AgreeInv, NEW o \in Ops, DelMem(o) \/ DelRow(o)
  PROVE  OneRule' /\ RowKnown' /\ Agree'
<1> USE DEF AgreeInv, StoreInv, TypeInv
<1>1. op[o].name \in Names /\ op[o].pc \in {"delmem", "delrow"}
  BY DEF DelMem, DelRow, OpKnows
<1>2. op'[o].pc \in {"delrow", "idle"}
  BY DelMemMoves DEF DelRow, End, IdleOp, TypeOK
<1>3. \A q \in Ops \ {o} : /\ op'[q].pc = op[q].pc /\ op'[q].name = op[q].name
                           /\ op'[q].val = op[q].val /\ op'[q].obj = op[q].obj
  BY DelMemMoves DEF DelRow, End, TypeOK
<1>4. /\ UNCHANGED <<heap, failed, panicked>>
      /\ \A m \in Names : /\ table'[m] \in {table[m], Nil}
                          /\ row'[m] \in {row[m], Nil}
  BY <1>1 DEF DelMem, DelRow, TypeOK
<1>5. OneRule'
  BY <1>4 DEF OneRule
<1>6. RowKnown'
  BY <1>2, <1>3, <1>4 DEF RowKnown, OpKnows
<1>7. \A m \in Names : BetweenHalves(m)' <=> BetweenHalves(m)
  BY <1>1, <1>2, <1>3 DEF BetweenHalves
<1>8. Agree'
  BY <1>4, <1>7 DEF Agree
<1>9. QED
  BY <1>5, <1>6, <1>8

\* An UPDATE changes the row it names, if it is there.
LEMMA UpdateRowIs ==
  ASSUME TypeOK, NEW n \in Names, NEW new \in Rule, UpdateRow(n, new)
  PROVE  /\ row'[n] = IF row[n] = Nil THEN Nil ELSE new
         /\ \A m \in Names \ {n} : row'[m] = row[m]
BY DEF TypeOK, UpdateRow

\* The UPDATE of an update begins the time in which memory and disk differ.
LEMMA UpdRowAgree ==
  ASSUME CalmUpd, AgreeInv, NEW o \in Ops, UpdRow(o)
  PROVE  OneRule' /\ RowKnown' /\ Agree'
<1> USE DEF AgreeInv, StoreInv, TypeInv
<1> DEFINE n == op[o].name
<1> DEFINE new == [val |-> op[o].val, enable |-> heap[op[o].obj].enable]
<1>1. n \in Names /\ op[o].val \in Vals /\ op[o].obj \in Objs /\ op[o].pc = "updrow"
  BY DEF UpdRow, OpKnows
<1>2. new \in Rule /\ new.val = op[o].val
  BY <1>1 DEF TypeOK, Rule
<1> HIDE DEF new
<1>3. UNCHANGED <<table, heap, panicked>>
  BY DEF UpdRow
<1>4. CASE UpdateRow(n, new) /\ Goes(o, "updsel") /\ UNCHANGED failed
  <2>1. /\ op'[o].pc = "updsel" /\ op'[o].name = n /\ op'[o].val = op[o].val
        /\ \A q \in Ops \ {o} : op'[q] = op[q]
    BY <1>4 DEF Goes, TypeOK, OpType
  <2>2. /\ row'[n] # Nil => row'[n].val = op[o].val
        /\ \A m \in Names \ {n} : row'[m] = row[m]
    BY <1>1, <1>2, <1>4, UpdateRowIs
  <2>3. OneRule'
    BY <1>3 DEF OneRule
  <2>4. \A q \in Ops \ {o} : op[q].pc \in {"set", "updsel", "updmem"} => op[q].name \in Names \ {n}
    BY <1>1, UpdApart DEF OpKnows
  <2>5. RowKnown'
    BY <1>3, <2>1, <2>2, <2>4 DEF RowKnown
  <2>6. \A m \in Names \ {n} : BetweenHalves(m) => BetweenHalves(m)'
    BY <1>1, <2>1 DEF BetweenHalves
  <2>7. Agree'
    <3> SUFFICES ASSUME ~panicked, NEW m \in Names \ failed, table[m] # Nil, row'[m] # Nil,
                        ~BetweenHalves(m)'
                 PROVE  heap[table[m]].val = row'[m].val
      BY <1>3, <1>4 DEF Agree
    <3>1. m # n
      BY <2>1 DEF BetweenHalves
    <3>2. row'[m] = row[m] /\ ~BetweenHalves(m)
      BY <2>2, <2>6, <3>1
    <3>3. QED
      BY <3>2 DEF Agree
  <2>8. QED
    BY <2>3, <2>5, <2>7
<1>5. CASE Fails(o, "update") /\ Reported(o) /\ UNCHANGED row
  <2>1. /\ op'[o].pc = "idle" /\ failed \subseteq failed'
        /\ \A q \in Ops \ {o} : op'[q] = op[q]
    BY <1>5 DEF Fails, Reported, IdleOp, TypeOK
  <2>2. QED
    BY <1>1, <1>3, <1>5, <2>1, QuietAgree
<1>6. QED
  BY <1>4, <1>5 DEF UpdRow, new

\* Its SELECT ends that time only if it reports a failure.
LEMMA UpdSelectAgree ==
  ASSUME AgreeInv, NEW o \in Ops, UpdSelect(o)
  PROVE  OneRule' /\ RowKnown' /\ Agree'
<1> USE DEF AgreeInv, StoreInv, TypeInv
<1> DEFINE n == op[o].name
<1>1. op[o].pc = "updsel" /\ UNCHANGED <<table, heap, row, panicked>>
  BY DEF UpdSelect
<1>2. CASE row[n] # Nil /\ Goes(o, "updmem") /\ UNCHANGED failed
  <2>1. /\ op'[o].pc = "updmem" /\ op'[o].name = n /\ op'[o].val = op[o].val
        /\ \A q \in Ops \ {o} : op'[q] = op[q]
    BY <1>2 DEF Goes, TypeOK, OpType
  <2>2. row[n].val = op[o].val
    BY <1>1, <1>2 DEF RowKnown
  <2>3. QED
    BY <1>1, <1>2, <2>1, <2>2, QuietAgree
<1>3. CASE (End(o) \/ Fails(o, "select")) /\ Reported(o)
  <2>1. /\ op'[o].pc = "idle" /\ failed \subseteq failed' /\ n \in failed'
        /\ \A q \in Ops \ {o} : op'[q] = op[q]
    BY <1>3 DEF Fails, End, Reported, IdleOp, TypeOK
  <2>2. QED
    BY <1>1, <2>1, QuietAgree
<1>4. QED
  BY <1>2, <1>3 DEF UpdSelect

\* The object an update changes gets the settings of the row.
LEMMA UpdMemAgree ==
  ASSUME AgreeInv, NEW o \in Ops, UpdMem(o)
  PROVE  OneRule' /\ RowKnown' /\ Agree'
<1> USE DEF AgreeInv, StoreInv, TypeInv
<1> DEFINE n == op[o].name
<1>1. /\ n \in Names /\ op[o].val \in Vals
      /\ UNCHANGED <<table, row, panicked>> /\ failed' = failed \ {n}
      /\ op[o].pc = "updmem"
      /\ IF table[n] = Nil THEN heap' = heap
         ELSE heap' = [heap EXCEPT ![table[n]].val = op[o].val]
  BY DEF UpdMem, OpKnows
<1>2. op'[o].pc = "idle" /\ \A q \in Ops \ {o} : op'[q] = op[q]
  BY DEF UpdMem, End, IdleOp, TypeOK
<1>3. row[n] # Nil => row[n].val = op[o].val
  BY <1>1 DEF RowKnown
<1>4. OneRule' /\ RowKnown'
  BY <1>1, <1>2 DEF OneRule, RowKnown
<1>5. ASSUME ~panicked, NEW m \in Names \ failed', table[m] # Nil, row[m] # Nil,
             ~BetweenHalves(m)'
      PROVE  heap'[table[m]].val = row[m].val
  <2>1. table[m] \in Objs /\ heap[table[m]] \in Rule
    BY <1>5 DEF TypeOK
  <2>2. CASE m = n
    <3>1. heap' = [heap EXCEPT ![table[n]].val = op[o].val]
      BY <1>1, <1>5, <2>2
    <3>2. heap'[table[n]].val = op[o].val
      BY <2>1, <2>2, <3>1 DEF TypeOK, Rule
    <3>3. QED
      BY <1>3, <1>5, <2>2, <3>2
  <2>3. CASE m # n
    <3>1. table[m] # table[n]
      BY <1>1, <1>5, <2>3 DEF OneRule
    <3>2. heap'[table[m]] = heap[table[m]]
      BY <1>1, <2>1, <3>1 DEF TypeOK
    <3>3. ~BetweenHalves(m) /\ m \in Names \ failed
      BY <1>1, <1>2, <1>5, <2>3 DEF BetweenHalves
    <3>4. QED
      BY <1>5, <3>2, <3>3 DEF Agree
  <2>4. QED
    BY <2>2, <2>3
<1>6. Agree'
  BY <1>1, <1>5 DEF Agree
<1>7. QED
  BY <1>4, <1>6

\* The row a start writes in a stopped service is that of the object it found,
\* which is still the rule's, or the rule has been deleted.
LEMMA FlagRowAgree ==
  ASSUME CalmUpd, AgreeInv, NEW o \in Ops, FlagRow(o)
  PROVE  OneRule' /\ RowKnown' /\ Agree'
<1> USE DEF AgreeInv, StoreInv, TypeInv
<1> DEFINE n == op[o].name
<1> DEFINE new == [val |-> heap[op[o].obj].val, enable |-> TRUE]
<1>1. n \in Names /\ op[o].obj \in Objs /\ op[o].pc = "flagrow" /\ table[n] \in {op[o].obj, Nil}
  BY DEF FlagRow, OpKnows, RowKnown
<1>2. new \in Rule /\ new.val = heap[op[o].obj].val
  BY <1>1 DEF TypeOK, Rule
<1>3. /\ op'[o].pc = "idle" /\ UNCHANGED <<table, heap, failed, panicked>>
      /\ \A q \in Ops \ {o} : op'[q] = op[q]
  BY DEF FlagRow, End, IdleOp, TypeOK
<1> HIDE DEF new
<1>4. CASE UNCHANGED row
  BY <1>1, <1>3, <1>4, QuietAgree
<1>5. CASE UpdateRow(n, new)
  <2>1. /\ row'[n] # Nil => row'[n].val = heap[op[o].obj].val
        /\ \A m \in Names \ {n} : row'[m] = row[m]
    BY <1>1, <1>2, <1>5, UpdateRowIs
  <2>2. OneRule'
    BY <1>3 DEF OneRule
  <2>3. ASSUME NEW q \in Ops, op[q].pc \in {"set", "updsel", "updmem"}
        PROVE  op[q].name \in Names \ {n}
    <3>1. CASE op[q].pc = "set"
      BY <1>1, <3>1, FlagApart DEF OpKnows
    <3>2. CASE op[q].pc # "set"
      BY <1>1, <2>3, <3>2, UpdApart DEF OpKnows
    <3>3. QED
      BY <3>1, <3>2
  <2>4. RowKnown'
    BY <1>3, <2>1, <2>3 DEF RowKnown
  <2>5. \A m \in Names : BetweenHalves(m)' <=> BetweenHalves(m)
    BY <1>1, <1>3 DEF BetweenHalves
  <2>6. Agree'
    BY <1>1, <1>3, <2>1, <2>5 DEF Agree
  <2>7. QED
    BY <2>2, <2>4, <2>6
<1>6. QED
  BY <1>4, <1>5 DEF FlagRow, new

\* The steps that write the Enable field in memory, or nothing.
LEMMA EnableAgree ==
  ASSUME AgreeInv, NEW o \in Ops,
         FlagMem(o) \/ FlagGet(o) \/ EnableMem(o) \/ StartGet(o) \/ DisableMem(o)
  PROVE  OneRule' /\ RowKnown' /\ Agree'
<1> USE DEF AgreeInv, StoreInv, TypeInv
<1>1. op[o].name \in Names /\ op[o].pc \notin {"updsel", "updmem"}
  BY DEF FlagMem, FlagGet, EnableMem, StartGet, DisableMem, OpKnows
<1>2. UNCHANGED <<table, row, failed>>
  BY DEF FlagMem, FlagGet, EnableMem, StartGet, DisableMem
<1>3. CASE FlagMem(o) \/ EnableMem(o) \/ DisableMem(o)
  <2>1. panicked' = panicked /\ (End(o) \/ Goes(o, "flagget") \/ Goes(o, "startget"))
    BY <1>3 DEF FlagMem, EnableMem, DisableMem
  <2>2. /\ op'[o].pc \in {"idle", "flagget", "startget"}
        /\ \A q \in Ops \ {o} : op'[q] = op[q]
    BY <2>1 DEF Goes, End, IdleOp, TypeOK, OpType
  <2>3. \A p \in Objs : heap'[p].val = heap[p].val
    BY <1>1, <1>3, EnableKeeps DEF FlagMem, EnableMem, DisableMem
  <2>4. QED
    BY <1>1, <1>2, <2>1, <2>2, <2>3, QuietAgree
<1>4. CASE (FlagGet(o) \/ StartGet(o)) /\ FollowsNil(o)
  BY <1>1, <1>4, FollowsNilAgree DEF FlagGet, StartGet
<1>5. CASE StartGet(o) /\ End(o) /\ panicked' = panicked
  <2>1. /\ op'[o].pc = "idle" /\ heap' = heap
        /\ \A q \in Ops \ {o} : op'[q] = op[q]
    BY <1>5 DEF StartGet, End, IdleOp, TypeOK
  <2>2. QED
    BY <1>1, <1>2, <1>5, <2>1, QuietAgree
<1>6. CASE FlagGet(o) /\ table[op[o].name] # Nil
  <2>1. /\ op'[o].pc = "flagrow" /\ op'[o].name = op[o].name /\ op'[o].obj = table[op[o].name]
        /\ UNCHANGED <<heap, panicked>>
        /\ \A q \in Ops \ {o} : op'[q] = op[q]
    BY <1>6 DEF FlagGet, TypeOK, OpType
  <2>2. QED
    BY <1>1, <1>2, <2>1, QuietAgree
<1>7. QED
  BY <1>3, <1>4, <1>5, <1>6 DEF FlagGet, StartGet

\* A step of a command keeps memory and disk in agreement.
LEMMA StepAgree ==
  ASSUME CalmUpd, AgreeInv, NEW o \in Ops, Step(o)
  PROVE  OneRule' /\ RowKnown' /\ Agree'
BY AddInsertAgree, AddSetAgree, DelAgree, UpdRowAgree, UpdSelectAgree, UpdMemAgree,
   FlagRowAgree, EnableAgree DEF Step

\* A command that begins has changed nothing yet.
LEMMA CommandAgree ==
  ASSUME AgreeInv, NEW o \in Ops, Command(o)
  PROVE  OneRule' /\ RowKnown' /\ Agree'
BY CommandMoves, QuietAgree DEF AgreeInv, StoreInv, TypeInv

\* When no command is being executed memory and disk agree on the settings of
\* every rule whose last update was not reported as failed, whatever statements
\* fail and wherever the process dies, if no two deletes of a rule overlap and no
\* update of it overlaps a command that writes its row (mapping.go:87-99,
\* shellcmd.go:264-269).
THEOREM MemoryAndDiskAgree ==
  ASSUME Calm, CalmUpd
  PROVE  Spec => []ValuesAgree
<1>1. Init => AgreeInv
  <2> SUFFICES ASSUME Init PROVE AgreeInv
    OBVIOUS
  <2>1. Loads(row, table, heap) /\ \A o \in Ops : op[o].pc = "idle"
    BY DEF Init, IdleOp
  <2>2. QED
    BY <2>1, FreshAgree, StoreInvInit DEF AgreeInv
<1>2. AgreeInv /\ [Next]_vars => AgreeInv'
  <2> SUFFICES ASSUME AgreeInv, [Next]_vars PROVE AgreeInv'
    OBVIOUS
  <2>1. StoreInv'
    BY StoreInvStep DEF AgreeInv
  <2>2. CASE UNCHANGED vars
    BY <2>1, <2>2 DEF vars, AgreeInv, OneRule, RowKnown, Agree, BetweenHalves
  <2>3. CASE Restart
    BY <2>1, <2>3, RestartAgree DEF AgreeInv
  <2>4. ASSUME NEW o \in Ops, Command(o) PROVE AgreeInv'
    BY <2>1, <2>4, CommandAgree DEF AgreeInv
  <2>5. ASSUME NEW o \in Ops, Step(o) PROVE AgreeInv'
    BY <2>1, <2>5, StepAgree DEF AgreeInv
  <2>6. QED
    BY <2>2, <2>3, <2>4, <2>5 DEF Next
<1>3. AgreeInv => ValuesAgree
  <2> SUFFICES ASSUME AgreeInv, AllIdle PROVE ValuesAgree
    BY DEF ValuesAgree
  <2>1. \A n \in Names : ~BetweenHalves(n)
    BY DEF AllIdle, IdleOp, BetweenHalves
  <2>2. QED
    BY <2>1 DEF AgreeInv, Agree, ValuesAgree
<1>4. QED
  BY <1>1, <1>2, <1>3, PTL DEF Spec
=============================================================================
