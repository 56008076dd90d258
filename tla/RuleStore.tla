------------------------------ MODULE RuleStore ------------------------------
(***************************************************************************)
(* The mapping rules, kept twice: in the memory of session.Manager (table, *)
(* a map from names to *Mapping objects) and in the SQLite table mapping.  *)
(* Shell commands and web requests read and write both, each access under  *)
(* a lock of its own, so a command is several steps and two commands       *)
(* interleave between them.                                                *)
(*                                                                         *)
(* A rule's port, target and rate limit are one value; its traffic counter *)
(* and its listener are left out: the test of Status before `del` and      *)
(* `upd` is an early return without effect, so a command that goes on is   *)
(* one whose rule did not read "active".  Any SQL statement whose kind is  *)
(* in Failing may fail.  A command that has nothing to do simply ends.     *)
(* Nothing in the code keeps two commands apart.  Apart says which of them *)
(* the operators do keep apart for one rule: {j, k} in Apart that those of *)
(* kind j and those of kind k do not overlap, {k} in Apart that no two of  *)
(* kind k do.                                                              *)
(*                                                                         *)
(* Bounds: Objs are heap slots, reused when nothing refers to them; WebOps *)
(* are slots for the requests being executed.                              *)
(***************************************************************************)
EXTENDS Integers, FiniteSets

CONSTANTS
    Names,      \* rule names
    Vals,       \* settings of a rule: port, target address and rate limit
    Objs,       \* *Mapping objects (slots)
    ShellOps,   \* commands typed in the shell being executed: one at most
    WebOps,     \* requests of the web panel being executed (slots)
    Commands,   \* the kinds of commands that are given
    Apart,      \* the kinds of commands that never overlap for one rule
    Failing,    \* the kinds of SQL statements that may fail
    Nil

ASSUME NamesAssumption == IsFiniteSet(Names)
ASSUME ValsAssumption == Vals # {}
ASSUME NilAssumption == Nil \notin Names \cup Vals \cup Objs \cup [val : Vals, enable : BOOLEAN]
ASSUME KindsAssumption ==
    /\ Commands \subseteq {"add", "del", "upd", "flag", "start", "stop"}
    /\ Failing \subseteq {"insert", "delete", "update", "select", "load"}

VARIABLES
    table,      \* table[n]: the object of rule n in memory
    heap,       \* heap[p]: the settings and the Enable field of an object
    row,        \* row[n]: the settings and the enable column of rule n on disk
    count,      \* Manager.totalConns
    op,         \* op[o]: where a command stands
    panicked,   \* the process has died of a panic
    failed      \* rules of which the operators have been told that an update failed

vars == <<table, heap, row, count, op, panicked, failed>>

Ops == ShellOps \cup WebOps

Rule == [val : Vals, enable : BOOLEAN]
Blank == CHOOSE r \in Rule : TRUE    \* what a slot without an object holds

\* gone tells of a start that its rule was deleted between its two look-ups; it
\* is a record and no step reads it.
IdleOp == [pc |-> "idle", name |-> Nil, obj |-> Nil, val |-> Nil, gone |-> FALSE]

OpType == [pc : {"idle", "insert", "set", "delmem", "delrow", "updrow", "updsel", "updmem",
                 "flagmem", "flagget", "flagrow", "enable", "startget", "disable"},
           name : Names \cup {Nil}, obj : Objs \cup {Nil}, val : Vals \cup {Nil},
           gone : BOOLEAN]

TypeOK ==
    /\ table \in [Names -> Objs \cup {Nil}]
    /\ heap \in [Objs -> Rule]
    /\ row \in [Names -> Rule \cup {Nil}]
    /\ count \in Int
    /\ op \in [Ops -> OpType]
    /\ panicked \in BOOLEAN
    /\ failed \in SUBSET Names

-----------------------------------------------------------------------------
(* ConfigLoad: every row becomes a fresh object.                            *)

\* t and h are what ConfigLoad makes of the rows rs.
Loads(rs, t, h) ==
    /\ \A n \in Names : rs[n] = Nil <=> t[n] = Nil
    /\ \A n \in Names : rs[n] # Nil => h[t[n]] = rs[n]
    /\ \A p \in Objs : (\A n \in Names : t[n] # p) => h[p] = Blank
    /\ \A m, n \in Names : t[m] = t[n] /\ t[m] # Nil => m = n

RowCount == Cardinality({n \in Names : row[n] # Nil})

Init ==
    /\ row \in [Names -> Rule \cup {Nil}]
    /\ table \in [Names -> Objs \cup {Nil}]
    /\ heap \in [Objs -> Rule]
    /\ Loads(row, table, heap)
    /\ count = RowCount
    /\ op = [o \in Ops |-> IdleOp]
    /\ panicked = FALSE
    /\ failed = {}

\* The process dies at any point and is started again.  The rows are not
\* loaded when the query fails.
Restart ==
    /\ \/ /\ table' \in [Names -> Objs \cup {Nil}]
          /\ heap' \in [Objs -> Rule]
          /\ Loads(row, table', heap')
          /\ count' = RowCount
       \/ /\ "load" \in Failing
          /\ table' = [n \in Names |-> Nil]
          /\ heap' = [p \in Objs |-> Blank]
          /\ count' = 0
    /\ op' = [o \in Ops |-> IdleOp]
    /\ panicked' = FALSE
    /\ failed' = {}
    /\ UNCHANGED row

-----------------------------------------------------------------------------
Free(p) == (\A n \in Names : table[n] # p) /\ (\A o \in Ops : op[o].obj # p)

Fails(o, kind) == kind \in Failing /\ op' = [op EXCEPT ![o] = IdleOp]
Goes(o, pc) == op' = [op EXCEPT ![o].pc = pc]
End(o) == op' = [op EXCEPT ![o] = IdleOp]

AllIdle == \A o \in Ops : op[o] = IdleOp

Begin(o, pc, n, p, v) ==
    /\ ~panicked
    /\ op[o] = IdleOp
    /\ op' = [op EXCEPT ![o] = [pc |-> pc, name |-> n, obj |-> p, val |-> v, gone |-> FALSE]]

-----------------------------------------------------------------------------
(* mapping add: check the name, insert the row, set the object.             *)

AddCheck(o, n, v) ==
    /\ table[n] = Nil
    /\ Begin(o, "insert", n, Nil, v)
    /\ UNCHANGED <<table, heap, row, count, panicked, failed>>

\* Variant: the row is written whether or not the name exists on disk.
AddInsert_NotUnique(o) ==
    /\ op[o].pc = "insert"
    /\ row' = [row EXCEPT ![op[o].name] = [val |-> op[o].val, enable |-> FALSE]]
    /\ Goes(o, "set")
    /\ UNCHANGED <<table, heap, count, panicked, failed>>

\* Variant: the enable column is not set.
AddInsert_NoEnable(o) ==
    /\ op[o].pc = "insert"
    /\ row[op[o].name] = Nil
    /\ row' = [row EXCEPT ![op[o].name] = [val |-> op[o].val, enable |-> Nil]]
    /\ Goes(o, "set")
    /\ UNCHANGED <<table, heap, count, panicked, failed>>

\* Variant: a failed insert is ignored.
AddInsert_Ignored(o) ==
    /\ op[o].pc = "insert"
    /\ \/ UNCHANGED row
       \/ /\ row[op[o].name] = Nil
          /\ row' = [row EXCEPT ![op[o].name] = [val |-> op[o].val, enable |-> FALSE]]
    /\ Goes(o, "set")
    /\ UNCHANGED <<table, heap, count, panicked, failed>>

\* The column name is UNIQUE: the insert fails if there is a row already.
AddInsert(o) ==
    /\ op[o].pc = "insert"
    /\ \/ /\ row[op[o].name] = Nil
          /\ row' = [row EXCEPT ![op[o].name] = [val |-> op[o].val, enable |-> FALSE]]
          /\ Goes(o, "set")
       \/ /\ row[op[o].name] # Nil \/ "insert" \in Failing
          /\ End(o)
          /\ UNCHANGED row
    /\ UNCHANGED <<table, heap, count, panicked, failed>>

\* SetMapping
AddSet(o) ==
    /\ op[o].pc = "set"
    /\ \E p \in Objs :
          /\ Free(p)
          /\ table' = [table EXCEPT ![op[o].name] = p]
          /\ heap' = [heap EXCEPT ![p] = [val |-> op[o].val, enable |-> FALSE]]
    /\ count' = count + 1
    /\ failed' = failed \ {op[o].name}
    /\ End(o)
    /\ UNCHANGED <<row, panicked>>

-----------------------------------------------------------------------------
(* mapping del: check the name, forget the object, delete the row.          *)

DelCheck(o, n) ==
    /\ table[n] # Nil
    /\ Begin(o, "delmem", n, Nil, Nil)
    /\ UNCHANGED <<table, heap, row, count, panicked, failed>>

SecondLook == {"flagget", "startget"}

\* totalConns is decremented even if somebody else has deleted the rule.
DelMem(o) ==
    /\ op[o].pc = "delmem"
    /\ table' = [table EXCEPT ![op[o].name] = Nil]
    /\ count' = count - 1
    /\ op' = [q \in Ops |->
                 IF q = o THEN [op[q] EXCEPT !.pc = "delrow"]
                 ELSE IF op[q].name = op[o].name /\ op[q].pc \in SecondLook
                 THEN [op[q] EXCEPT !.gone = TRUE]
                 ELSE op[q]]
    /\ UNCHANGED <<heap, row, panicked, failed>>

\* Its error is dropped.
DelRow(o) ==
    /\ op[o].pc = "delrow"
    /\ \/ row' = [row EXCEPT ![op[o].name] = Nil]
       \/ "delete" \in Failing /\ UNCHANGED row
    /\ End(o)
    /\ UNCHANGED <<table, heap, count, panicked, failed>>

-----------------------------------------------------------------------------
(* mapping upd: look the object up, update the row (models.UpdateMap: an    *)
(* UPDATE, then a SELECT), update the object that has the name by then.     *)

UpdCheck(o, n, v) ==
    /\ table[n] # Nil
    /\ Begin(o, "updrow", n, table[n], v)
    /\ UNCHANGED <<table, heap, row, count, panicked, failed>>

UpdateRow(n, new) ==
    row' = IF row[n] = Nil THEN row ELSE [row EXCEPT ![n] = new]

\* The operator reads that the update has failed.
Reported(o) == failed' = failed \cup {op[o].name}

\* Enable is read from the object found by the check.
UpdRow(o) ==
    /\ op[o].pc = "updrow"
    /\ \/ /\ UpdateRow(op[o].name, [val |-> op[o].val, enable |-> heap[op[o].obj].enable])
          /\ Goes(o, "updsel")
          /\ UNCHANGED failed
       \/ Fails(o, "update") /\ Reported(o) /\ UNCHANGED row
    /\ UNCHANGED <<table, heap, count, panicked>>

\* No row, or an error: the command reports a failed update and stops here.
UpdSelect(o) ==
    /\ op[o].pc = "updsel"
    /\ \/ row[op[o].name] # Nil /\ Goes(o, "updmem") /\ UNCHANGED failed
       \/ row[op[o].name] = Nil /\ End(o) /\ Reported(o)
       \/ Fails(o, "select") /\ Reported(o)
    /\ UNCHANGED <<table, heap, row, count, panicked>>

\* Variant: UpdateMapping is left out.
UpdMem_Skipped(o) ==
    /\ op[o].pc = "updmem"
    /\ End(o)
    /\ UNCHANGED <<table, heap, row, count, panicked, failed>>

UpdMem(o) ==
    /\ op[o].pc = "updmem"
    /\ heap' = IF table[op[o].name] = Nil THEN heap
               ELSE [heap EXCEPT ![table[op[o].name]].val = op[o].val]
    /\ failed' = failed \ {op[o].name}
    /\ End(o)
    /\ UNCHANGED <<table, row, count, panicked>>

-----------------------------------------------------------------------------
(* mapping start and stop.  Only the shell, and only while the service is   *)
(* stopped ("flag"), writes Enable to the row.                              *)

FlagCheck(o, n) ==
    /\ Begin(o, "flagmem", n, Nil, Nil)
    /\ UNCHANGED <<table, heap, row, count, panicked, failed>>

SetEnable(n, b) ==
    heap' = IF table[n] = Nil THEN heap ELSE [heap EXCEPT ![table[n]].enable = b]

\* Variant: UpdateEnable's result is not looked at.
FlagMem_Unchecked(o) ==
    /\ op[o].pc = "flagmem"
    /\ SetEnable(op[o].name, TRUE)
    /\ Goes(o, "flagget")
    /\ UNCHANGED <<table, row, count, panicked, failed>>

FlagMem(o) ==
    /\ op[o].pc = "flagmem"
    /\ SetEnable(op[o].name, TRUE)
    /\ IF table[op[o].name] = Nil THEN End(o) ELSE Goes(o, "flagget")
    /\ UNCHANGED <<table, row, count, panicked, failed>>

\* A nil rule is followed: the shell has no recover, the process dies and with it
\* every command; in the panel gin.Recovery ends the request.
FollowsNil(o) ==
    \/ /\ o \in ShellOps
       /\ panicked' = TRUE
       /\ op' = [q \in Ops |-> IdleOp]
    \/ /\ o \in WebOps
       /\ End(o)
       /\ UNCHANGED panicked

\* The second look-up is not checked: a rule deleted meanwhile is nil.
FlagGet(o) ==
    /\ op[o].pc = "flagget"
    /\ IF table[op[o].name] = Nil
       THEN FollowsNil(o)
       ELSE /\ op' = [op EXCEPT ![o].pc = "flagrow", ![o].obj = table[op[o].name],
                              ![o].gone = FALSE]
            /\ UNCHANGED panicked
    /\ UNCHANGED <<table, heap, row, count, failed>>

\* Both results of UpdateMap are dropped, so its SELECT does not matter.
FlagRow(o) ==
    /\ op[o].pc = "flagrow"
    /\ \/ UpdateRow(op[o].name, [val |-> heap[op[o].obj].val, enable |-> TRUE])
       \/ "update" \in Failing /\ UNCHANGED row
    /\ End(o)
    /\ UNCHANGED <<table, heap, count, panicked, failed>>

\* mapping start in a running service, and any start in the panel; the panel
\* does no more than set Enable while the service is stopped.
StartEnable(o, n) ==
    /\ Begin(o, "enable", n, Nil, Nil)
    /\ UNCHANGED <<table, heap, row, count, panicked, failed>>

EnableMem(o) ==
    /\ op[o].pc = "enable"
    /\ SetEnable(op[o].name, TRUE)
    /\ \/ table[op[o].name] # Nil /\ Goes(o, "startget")
       \/ (table[op[o].name] = Nil \/ o \in WebOps) /\ End(o)
    /\ UNCHANGED <<table, row, count, panicked, failed>>

\* The rule is looked up again to be given a context, and not checked.
StartGet(o) ==
    /\ op[o].pc = "startget"
    /\ IF table[op[o].name] = Nil THEN FollowsNil(o) ELSE End(o) /\ UNCHANGED panicked
    /\ UNCHANGED <<table, heap, row, count, failed>>

StopCheck(o, n) ==
    /\ table[n] # Nil
    /\ Begin(o, "disable", n, Nil, Nil)
    /\ UNCHANGED <<table, heap, row, count, panicked, failed>>

DisableMem(o) ==
    /\ op[o].pc = "disable"
    /\ SetEnable(op[o].name, FALSE)
    /\ End(o)
    /\ UNCHANGED <<table, row, count, panicked, failed>>

-----------------------------------------------------------------------------
\* The steps of the commands of each kind.
StepsOf == [add |-> {"insert", "set"}, del |-> {"delmem", "delrow"},
            upd |-> {"updrow", "updsel", "updmem"}, flag |-> {"flagmem", "flagget", "flagrow"},
            start |-> {"enable", "startget"}, stop |-> {"disable"}]
Executes(o, k, n) == op[o].pc \in StepsOf[k] /\ op[o].name = n

\* The operators give a command of this kind for this rule now.
Given(kind, n) ==
    /\ kind \in Commands
    /\ \A o \in Ops, k \in Commands : Executes(o, k, n) => {kind, k} \notin Apart

Command(o) ==
    \E n \in Names :
        \/ Given("add", n) /\ \E v \in Vals : AddCheck(o, n, v)
        \/ Given("upd", n) /\ \E v \in Vals : UpdCheck(o, n, v)
        \/ Given("del", n) /\ DelCheck(o, n)
        \/ Given("flag", n) /\ o \in ShellOps /\ FlagCheck(o, n)
        \/ Given("start", n) /\ StartEnable(o, n)
        \/ Given("stop", n) /\ StopCheck(o, n)

Step(o) ==
    \/ AddInsert(o) \/ AddSet(o)
    \/ DelMem(o) \/ DelRow(o)
    \/ UpdRow(o) \/ UpdSelect(o) \/ UpdMem(o)
    \/ FlagMem(o) \/ FlagGet(o) \/ FlagRow(o)
    \/ EnableMem(o) \/ StartGet(o) \/ DisableMem(o)

Next == Restart \/ \E o \in Ops : Command(o) \/ Step(o)

Spec == Init /\ [][Next]_vars

-----------------------------------------------------------------------------
\* A rule the server knows is on disk: at no point would a crash lose a rule
\* that is in the list (add inserts the row first, del removes it last;
\* shellcmd.go:208-220,237-238, web.go:270-283,306-307).
MemInDb == \A n \in Names : table[n] # Nil => row[n] # Nil

\* An add that has inserted its row finds the name still vacant in memory: no
\* live object is dropped from the table by another one taking its name
\* (manager.go:54), with the goroutines and counters that refer to it.
AddFindsVacancy ==
    \A o \in Ops : op[o].pc = "set" => table[op[o].name] = Nil

\* When the server runs and executes no command memory and disk agree on the
\* settings of every rule, unless an update of it was reported as failed: then
\* the row may already be the new one (mapping.go:87-99, shellcmd.go:264-269).
ValuesAgree ==
    AllIdle /\ ~panicked => \A n \in Names \ failed :
        table[n] # Nil /\ row[n] # Nil => heap[table[n]].val = row[n].val

\* A start follows a nil rule only if another command has deleted the rule
\* between its two look-ups, of which only the first one is checked: that is the
\* one way in which `mapping start` can kill the server (shellcmd.go:156-162,
\* 165-171) or fail without an answer in the panel (web.go:175-182).
NilNeedsDelete ==
    \A o \in Ops :
        op[o].pc \in SecondLook /\ table[op[o].name] = Nil => op[o].gone
=============================================================================
