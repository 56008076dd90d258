------------------------------- MODULE Traffic -------------------------------
(***************************************************************************)
(* The traffic counters.  A pipe publishes an event for every chunk it has *)
(* written; the bus runs the handler of each event in a goroutine of its   *)
(* own, which adds to the rule of that name and then to the total.  Every  *)
(* ten seconds the persister writes the total to the table config and then *)
(* one row of the table mapping after the other, from the objects it found *)
(* at the beginning.  Settings loads the total; the rules are loaded here. *)
(*                                                                         *)
(* A chunk counts one.  A handler's look-up and its addition are one step: *)
(* an addition to an object that is removed in between is one made before. *)
(* The persister reads a counter when it writes it; adding and deleting a  *)
(* rule are one step each (RuleStore has theirs).                          *)
(*                                                                         *)
(* Bounds: MaxRule, MaxTotal end the traffic; Objs are heap slots.         *)
(***************************************************************************)
EXTENDS Settings, FiniteSets

CONSTANTS
    Names,      \* rule names
    Objs,       \* *Mapping objects (slots)
    MaxRule,    \* chunks the counter of a rule goes up to
    MaxTotal    \* chunks the total goes up to

ASSUME RulesAssumption == IsFiniteSet(Names) /\ Nil \notin Names \cup Objs
ASSUME MaxAssumption == MaxRule \in Nat /\ MaxTotal \in Nat

VARIABLES
    table,      \* table[n]: the object of rule n in memory
    heap,       \* heap[p]: Name and Traffic of an object
    row,        \* row[n]: the traffic column of rule n on disk
    late,       \* late[n]: chunks of rule n whose handler has not run yet
    half,       \* handlers that have counted for the rule and not for the total
    saver,      \* the persister: where it stands and the objects still to be saved
    due         \* what the total loaded at the start should have grown to

counters == <<table, heap, row, late, half, saver, due>>
vars == <<settings, counters>>

Blank == [name |-> Nil, traffic |-> 0]
Sleeping == [pc |-> "sleep", val |-> 0, todo |-> {}]

CountersTypeOK ==
    /\ table \in [Names -> Objs \cup {Nil}]
    /\ heap \in [Objs -> [name : Names \cup {Nil}, traffic : 0..MaxRule]]
    /\ row \in [Names -> 0..MaxRule \cup {Nil}]
    /\ late \in [Names -> 0..MaxRule] /\ half \in 0..MaxTotal
    /\ saver \in [pc : {"sleep", "total", "list", "rows"}, val : 0..MaxTotal, todo : SUBSET Objs]
    /\ due \in 0..MaxTotal

TypeOK == SettingsTypeOK /\ CountersTypeOK

Init ==
    /\ SettingsInit
    /\ row = [n \in Names |-> Nil]
    /\ table = [n \in Names |-> Nil]
    /\ heap = [p \in Objs |-> Blank]
    /\ late = [n \in Names |-> 0] /\ half = 0
    /\ saver = Sleeping
    /\ due = 0

\* The process dies: what was not on disk, and every pending event, is lost.
Restart ==
    /\ SettingsRestart
    /\ table' = [n \in Names |-> Nil]
    /\ heap' = [p \in Objs |-> Blank]
    /\ late' = [n \in Names |-> 0] /\ half' = 0
    /\ saver' = Sleeping
    /\ due' = 0
    /\ UNCHANGED row

\* h without what neither the table t nor the list todo refers to.
Collected(h, t, todo) ==
    [p \in Objs |-> IF p \in todo \/ \E n \in Names : t[n] = p THEN h[p] ELSE Blank]

-----------------------------------------------------------------------------
(* ConfigLoad: the total, and an object for every rule.                     *)

LoadSettings ==
    /\ Load
    /\ due' = cfg'[Total]
    /\ UNCHANGED <<table, heap, row, late, half, saver>>

\* Variant: the rules start to count at zero.
LoadRules_FromZero ==
    /\ boot.pc = "rules"
    /\ table' \in [Names -> Objs \cup {Nil}]
    /\ \A n \in Names : table'[n] = Nil <=> row[n] = Nil
    /\ \A m, n \in Names : table'[m] = table'[n] /\ table'[m] # Nil => m = n
    /\ heap' = [p \in Objs |->
                  IF \E n \in Names : table'[n] = p
                  THEN [name |-> CHOOSE n \in Names : table'[n] = p, traffic |-> 0]
                  ELSE Blank]
    /\ boot' = Up
    /\ UNCHANGED <<cfg, disk, set, trouble, row, late, half, saver, due>>

LoadRules ==
    /\ boot.pc = "rules"
    /\ \/ /\ table' \in [Names -> Objs \cup {Nil}]
          /\ \A n \in Names : table'[n] = Nil <=> row[n] = Nil
          /\ \A m, n \in Names : table'[m] = table'[n] /\ table'[m] # Nil => m = n
          /\ heap' = [p \in Objs |->
                        LET mine == {n \in Names : table'[n] = p}
                        IN  IF mine = {} THEN Blank
                            ELSE LET n == CHOOSE n \in mine : TRUE
                                 IN  [name |-> n, traffic |-> row[n]]]
          /\ UNCHANGED trouble
       \/ "rules" \in Failing /\ trouble' = trouble \cup {"load"} /\ UNCHANGED <<table, heap>>
    /\ boot' = Up
    /\ UNCHANGED <<cfg, disk, set, row, late, half, saver, due>>

-----------------------------------------------------------------------------
(* The pipes and the handler of their events.                               *)

\* A pipe of a started rule has written a chunk and published it.
Carry(n) ==
    /\ boot = Up /\ table[n] # Nil
    /\ due < MaxTotal /\ heap[table[n]].traffic + late[n] < MaxRule
    /\ late' = [late EXCEPT ![n] = @ + 1]
    /\ due' = due + 1
    /\ UNCHANGED <<settings, table, heap, row, half, saver>>

\* Variant: an event of a rule that is gone is dropped.
CountForRule_Listed(n) ==
    /\ late[n] > 0
    /\ late' = [late EXCEPT ![n] = @ - 1]
    /\ heap' = IF table[n] = Nil THEN heap ELSE [heap EXCEPT ![table[n]].traffic = @ + 1]
    /\ half' = IF table[n] = Nil THEN half ELSE half + 1
    /\ UNCHANGED <<settings, table, row, saver, due>>

\* Manager.AddTraffic: the rule may be gone, or be another one by now.
CountForRule(n) ==
    /\ late[n] > 0
    /\ late' = [late EXCEPT ![n] = @ - 1]
    /\ heap' = IF table[n] = Nil THEN heap ELSE [heap EXCEPT ![table[n]].traffic = @ + 1]
    /\ half' = half + 1
    /\ UNCHANGED <<settings, table, row, saver, due>>

CountInTotal ==
    /\ half > 0
    /\ half' = half - 1
    /\ cfg' = [cfg EXCEPT ![Total] = @ + 1]
    /\ UNCHANGED <<disk, boot, set, trouble, table, heap, row, late, saver, due>>

-----------------------------------------------------------------------------
(* The persister.                                                           *)

Tick ==
    /\ boot = Up /\ saver = Sleeping
    /\ saver' = [pc |-> "total", val |-> cfg[Total], todo |-> {}]
    /\ UNCHANGED <<settings, table, heap, row, late, half, due>>

\* ok: the statement succeeds.
SaveTotal(ok) ==
    /\ saver.pc = "total"
    /\ IF ok /\ disk[Total] # Nil THEN disk' = [disk EXCEPT ![Total] = saver.val]
                                  ELSE UNCHANGED disk
    /\ saver' = [saver EXCEPT !.pc = "list"]
    /\ UNCHANGED <<cfg, boot, set, trouble, table, heap, row, late, half, due>>

ListRules ==
    /\ saver.pc = "list"
    /\ LET todo == {table[n] : n \in Names} \ {Nil}
       IN  saver' = IF todo = {} THEN Sleeping ELSE [pc |-> "rows", val |-> 0, todo |-> todo]
    /\ UNCHANGED <<settings, table, heap, row, late, half, due>>

\* The row is found by the name the object was made with, whatever is there now.
SaveRow(p, ok) ==
    /\ p \in saver.todo
    /\ LET m == heap[p] IN
          row' = IF ok /\ m.traffic > 0 /\ row[m.name] # Nil
                 THEN [row EXCEPT ![m.name] = m.traffic] ELSE row
    /\ saver' = IF saver.todo = {p} THEN Sleeping ELSE [saver EXCEPT !.todo = @ \ {p}]
    /\ heap' = Collected(heap, table, saver'.todo)
    /\ UNCHANGED <<settings, table, late, half, due>>

-----------------------------------------------------------------------------
(* Rules come and go under the persister.                                   *)

Add(n) ==
    /\ boot = Up /\ table[n] = Nil /\ row[n] = Nil
    /\ \E p \in Objs :
          /\ heap[p] = Blank
          /\ table' = [table EXCEPT ![n] = p]
          /\ heap' = [heap EXCEPT ![p] = [name |-> n, traffic |-> 0]]
    /\ row' = [row EXCEPT ![n] = 0]
    /\ UNCHANGED <<settings, late, half, saver, due>>

Del(n) ==
    /\ boot = Up /\ table[n] # Nil
    /\ table' = [table EXCEPT ![n] = Nil]
    /\ heap' = Collected(heap, table', saver.todo)
    /\ row' = [row EXCEPT ![n] = Nil]
    /\ trouble' = IF table[n] \in saver.todo THEN trouble \cup {"churn"} ELSE trouble
    /\ UNCHANGED <<cfg, disk, boot, set, late, half, saver, due>>

-----------------------------------------------------------------------------
Ok == IF "traffic" \in Failing THEN BOOLEAN ELSE {TRUE}

Save == \E ok \in Ok : SaveTotal(ok) \/ \E p \in Objs : SaveRow(p, ok)

Next ==
    \/ Restart \/ LoadSettings \/ LoadRules
    \/ SetStep /\ UNCHANGED counters
    \/ \E n \in Names : Carry(n) \/ CountForRule(n) \/ Add(n) \/ Del(n)
    \/ CountInTotal \/ Tick \/ ListRules \/ Save

Spec == Init /\ [][Next]_vars

\* The scheduler runs the loading, the handlers and the persister, the ticker
\* keeps ticking, and a statement that is tried again and again succeeds.
\* Nothing makes traffic flow, rules come and go, or the process die.
Fairness ==
    /\ WF_vars(LoadSettings) /\ WF_vars(LoadRules)
    /\ \A n \in Names : WF_vars(CountForRule(n))
    /\ WF_vars(CountInTotal) /\ WF_vars(Tick) /\ WF_vars(ListRules)
    /\ SF_vars(SaveTotal(TRUE))
    /\ \A p \in Objs : SF_vars(SaveRow(p, TRUE))

FairSpec == Spec /\ Fairness

-----------------------------------------------------------------------------
\* The total on disk never falls, whatever dies, fails or overlaps, unless the
\* server has started without being able to read it (server.go:86-92,
\* config.go:22-54).
DiskTotalNeverFalls ==
    [][disk[Total] # Nil /\ "load" \notin trouble => disk'[Total] # Nil /\ disk'[Total] >= disk[Total]]_vars

\* The disk never claims more traffic for a rule than the rule has counted,
\* unless a rule was deleted while the persister held it: its last counter may
\* then go to a new rule of the same name (server.go:95-104).
RowNotAhead ==
    "churn" \notin trouble => \A n \in Names :
        table[n] # Nil /\ row[n] # Nil => row[n] <= heap[table[n]].traffic

\* Once the server stays up, and rules stay as they are, every chunk that was
\* carried gets into the total on disk and what each rule has counted into its
\* row: no event is lost between the bus, the two counters and the persister,
\* however they interleave (server.go:55-61,84-108).
Steady == boot = Up /\ trouble \cap {"load", "churn"} = {}
Saved ==
    /\ disk[Total] = due
    /\ \A n \in Names : table[n] # Nil => row[n] = heap[table[n]].traffic
TrafficIsSaved == <>[]Steady /\ <>[][UNCHANGED table]_vars => <>[]Saved
=============================================================================
