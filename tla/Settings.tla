------------------------------- MODULE Settings -------------------------------
(***************************************************************************)
(* The server's configuration: rows of the SQLite table config and the     *)
(* fields of config.Config.  ConfigLoad runs once, before the consoles     *)
(* start; when a row is missing it inserts the defaults one by one, and    *)
(* the UNIQUE column refuses those that are there.  `config set` and the   *)
(* panel assign the field and then update the row, whose failure they      *)
(* ignore.  The process may die at any step and is started again.          *)
(*                                                                         *)
(* Nil is an absent row and a field that was left empty.  Texts that are   *)
(* not valid (an address, a port) are refused without effect and left out. *)
(* Loading is taken to be over before the first tick of the persister.     *)
(* `trouble` remembers, until the next start, what the properties exempt.  *)
(*                                                                         *)
(* Bound: Setters are slots for assignments being executed.                *)
(***************************************************************************)
EXTENDS Naturals, Sequences

CONSTANTS
    Keys,       \* the rows, in the order ConfigLoad inserts them; Total is the last
    Vals,       \* what a setting can be set to
    Default,    \* the value a setting is created with
    Setters,    \* settings being changed (slots)
    Failing,    \* the kinds of SQL statements that may fail
    Nil

Total == "total_traffic"
KeySet == {Keys[i] : i \in 1..Len(Keys)}
Settable == KeySet \ {Total}

ASSUME KeysAssumption == Keys \in Seq(STRING) /\ Keys # << >> /\ Keys[Len(Keys)] = Total
ASSUME ValsAssumption == Default \in Vals /\ Nil \notin Vals
ASSUME NilAssumption == Nil \notin KeySet \cup Nat
ASSUME FailingAssumption == Failing \subseteq {"query", "insert", "update", "rules", "traffic"}

VARIABLES
    cfg,        \* the fields of Config
    disk,       \* the rows of the table config
    boot,       \* where ConfigLoad stands
    set,        \* set[o]: the key and value whose row is still to be updated
    trouble     \* what has happened since the start

settings == <<cfg, disk, boot, set, trouble>>

Loading == [pc |-> "query", next |-> 1]
Up == [pc |-> "up", next |-> 1]
NoSet == [key |-> Nil, val |-> Nil]
Empty == [k \in KeySet |-> IF k = Total THEN 0 ELSE Nil]
Created == [k \in KeySet |-> IF k = Total THEN 0 ELSE Default]

SettingsTypeOK ==
    /\ \A k \in Settable : cfg[k] \in Vals \cup {Nil} /\ disk[k] \in Vals \cup {Nil}
    /\ cfg[Total] \in Nat /\ disk[Total] \in Nat \cup {Nil}
    /\ boot \in [pc : {"query", "seed", "again", "rules", "up"}, next : 1..Len(Keys)]
    /\ set \in [Setters -> [key : Settable, val : Vals] \cup {NoSet}]
    /\ trouble \in SUBSET {"load", "save", "overlap", "churn"}

SettingsInit ==
    /\ cfg = Empty
    /\ disk = [k \in KeySet |-> Nil]
    /\ boot = Loading
    /\ set = [o \in Setters |-> NoSet]
    /\ trouble = {}

\* The memory of a process that has just started.
SettingsRestart ==
    /\ cfg' = Empty
    /\ boot' = Loading
    /\ set' = [o \in Setters |-> NoSet]
    /\ trouble' = {}
    /\ UNCHANGED disk

-----------------------------------------------------------------------------
(* ConfigLoad, up to the rules.                                             *)

\* Without a total the parse fails and the rules are not loaded.
Assign ==
    /\ cfg' = [k \in KeySet |-> IF disk[k] = Nil THEN Empty[k] ELSE disk[k]]
    /\ boot' = IF disk[Total] = Nil THEN Up ELSE [pc |-> "rules", next |-> 1]
    /\ UNCHANGED <<disk, set, trouble>>

\* A failed query leaves the fields empty, and the server goes on.
QueryFails ==
    /\ "query" \in Failing
    /\ boot.pc \in {"query", "again"}
    /\ boot' = Up
    /\ trouble' = trouble \cup {"load"}
    /\ UNCHANGED <<cfg, disk, set>>

\* Variant: defaults are inserted only into an empty table.
Query_EmptyOnly ==
    /\ boot.pc = "query"
    /\ \/ \A k \in KeySet : disk[k] = Nil
          /\ boot' = [pc |-> "seed", next |-> 1]
          /\ UNCHANGED <<cfg, disk, set, trouble>>
       \/ (\E k \in KeySet : disk[k] # Nil) /\ Assign

Query ==
    /\ boot.pc = "query"
    /\ \/ /\ \E k \in KeySet : disk[k] = Nil
          /\ boot' = [pc |-> "seed", next |-> 1]
          /\ UNCHANGED <<cfg, disk, set, trouble>>
       \/ (\A k \in KeySet : disk[k] # Nil) /\ Assign

\* Variant: one insert too many.
Seeded_OffByOne == boot' = IF boot.next <= Len(Keys) THEN [boot EXCEPT !.next = @ + 1]
                                                    ELSE [pc |-> "again", next |-> 1]

Seeded == boot' = IF boot.next < Len(Keys) THEN [boot EXCEPT !.next = @ + 1]
                                            ELSE [pc |-> "again", next |-> 1]

\* Variant: insert or replace.
Seed_Replace ==
    /\ boot.pc = "seed"
    /\ \/ /\ disk' = [disk EXCEPT ![Keys[boot.next]] = Created[Keys[boot.next]]]
          /\ UNCHANGED trouble
       \/ /\ "insert" \in Failing
          /\ trouble' = trouble \cup {"load"}
          /\ UNCHANGED disk
    /\ Seeded
    /\ UNCHANGED <<cfg, set>>

\* A row that is there is kept: the insert fails on the UNIQUE column.
Seed ==
    /\ boot.pc = "seed"
    /\ LET k == Keys[boot.next]
       IN  \/ /\ disk[k] = Nil
              /\ disk' = [disk EXCEPT ![k] = Created[k]]
              /\ UNCHANGED trouble
           \/ disk[k] # Nil /\ UNCHANGED <<disk, trouble>>
           \/ /\ "insert" \in Failing /\ disk[k] = Nil
              /\ trouble' = trouble \cup {"load"}
              /\ UNCHANGED disk
    /\ Seeded
    /\ UNCHANGED <<cfg, set>>

QueryAgain == boot.pc = "again" /\ Assign

Load == Query \/ Seed \/ QueryAgain \/ QueryFails

-----------------------------------------------------------------------------
(* config set, and the form of the panel: the field, then the row.          *)

SetField(o, k, v) ==
    /\ boot = Up /\ set[o] = NoSet
    /\ cfg' = [cfg EXCEPT ![k] = v]
    /\ set' = [set EXCEPT ![o] = [key |-> k, val |-> v]]
    /\ trouble' = IF \E q \in Setters : set[q].key = k THEN trouble \cup {"overlap"} ELSE trouble
    /\ UNCHANGED <<disk, boot>>

\* An UPDATE of a row that is missing changes nothing and reports no error.
SetRow(o) ==
    /\ set[o] # NoSet
    /\ LET k == set[o].key
       IN  \/ disk[k] # Nil /\ disk' = [disk EXCEPT ![k] = set[o].val] /\ UNCHANGED trouble
           \/ disk[k] = Nil /\ UNCHANGED <<disk, trouble>>
           \/ "update" \in Failing /\ trouble' = trouble \cup {"save"} /\ UNCHANGED disk
    /\ set' = [set EXCEPT ![o] = NoSet]
    /\ UNCHANGED <<cfg, boot>>

SetStep == \E o \in Setters :
    SetRow(o) \/ \E k \in Settable, v \in Vals : SetField(o, k, v)

-----------------------------------------------------------------------------
\* A server that has started without a failing statement has every setting on
\* disk, the same as in memory unless it is just being changed: also when an
\* earlier start died between the inserts (config.go:28-44) and when the same
\* setting is changed again and again, one change after the other
\* (shellcmd.go:96-111, web.go:222-233).
SettingsAgree ==
    boot = Up /\ trouble \cap {"load", "save", "overlap"} = {} =>
        /\ disk[Total] # Nil
        /\ \A k \in Settable : (\A o \in Setters : set[o].key # k) =>
              disk[k] # Nil /\ disk[k] = cfg[k]
=============================================================================
