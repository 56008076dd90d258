----------------------------- MODULE TrafficProofs -----------------------------
(***************************************************************************)
(* What Traffic and Settings keep for any settings, rules, objects,        *)
(* overlapping changes and failing statements, and for any amount of       *)
(* traffic: their types, that memory and disk agree on every setting, that *)
(* no chunk is lost or counted twice in memory, and that the disk neither  *)
(* runs ahead of memory nor falls back.                                    *)
(***************************************************************************)
EXTENDS Traffic, FiniteSetTheorems, TLAPS

-----------------------------------------------------------------------------
(* The settings.                                                            *)

\* Fields and rows are functions on the keys; a server that has come up has
\* left every other field of boot behind, and before that nobody sets anything.
SettingsShape ==
    /\ SettingsTypeOK
    /\ cfg \in [KeySet -> Vals \cup Nat \cup {Nil}]
    /\ disk \in [KeySet -> Vals \cup Nat \cup {Nil}]
    /\ boot.pc = "up" => boot = Up
    /\ boot # Up => \A o \in Setters : set[o] = NoSet

\* The rows ConfigLoad has passed are there, unless a statement failed.
Seeding ==
    "load" \notin trouble =>
        /\ boot.pc = "seed" => \A i \in 1..(boot.next - 1) : disk[Keys[i]] # Nil
        /\ boot.pc \in {"again", "rules", "up"} => \A k \in KeySet : disk[k] # Nil

\* A setting that is being changed has its new value in memory, and only one
\* change of it is under way, unless two have overlapped.
LastWins ==
    "overlap" \notin trouble =>
        \A o \in Setters : set[o] # NoSet =>
            /\ cfg[set[o].key] = set[o].val
            /\ \A q \in Setters : set[q].key = set[o].key => q = o

\* The settings that are not being changed are the same in memory and on disk.
Agreed ==
    boot.pc \in {"rules", "up"} /\ trouble \cap {"load", "save", "overlap"} = {} =>
        \A k \in Settable : (\A o \in Setters : set[o].key # k) => disk[k] = cfg[k]

SettingsInv == SettingsShape /\ Seeding /\ LastWins /\ Agreed

-----------------------------------------------------------------------------
(* The counters.                                                            *)

\* The events whose handler has not run yet, each with a number of its own.
Events == {e \in Names \X (1..MaxRule) : e[2] <= late[e[1]]}

\* Every chunk that was carried is in the total, or between the two additions
\* of its handler, or waits for its handler.
Conserved == cfg[Total] + half + Cardinality(Events) = due

\* An object in the table, or held by the persister, has the name of a rule.
Named ==
    /\ \A n \in Names : table[n] # Nil => heap[table[n]].name = n
    /\ \A p \in saver.todo : heap[p].name \in Names

\* Until the server has come up there is neither traffic nor a persister.
Quiet ==
    boot # Up =>
        /\ \A n \in Names : table[n] = Nil /\ late[n] = 0
        /\ half = 0 /\ saver = Sleeping

\* What the bounds of the counters follow from.
Bounded ==
    /\ \A n \in Names : table[n] # Nil => heap[table[n]].traffic + late[n] <= MaxRule
    /\ disk[Total] # Nil => disk[Total] <= MaxTotal
    /\ saver.pc # "rows" => saver.todo = {}

TrafficInv == CountersTypeOK /\ Named /\ Quiet /\ Bounded /\ Conserved

\* The persister holds rules that are in the table, unless one was deleted.
HeldIsListed ==
    "churn" \notin trouble => \A p \in saver.todo : table[heap[p].name] = p

\* The total on disk is not ahead of memory, nor of what the persister writes.
TotalNotAhead ==
    "load" \notin trouble /\ boot.pc \in {"rules", "up"} =>
        /\ disk[Total] <= cfg[Total]
        /\ saver.pc = "total" => disk[Total] <= saver.val /\ saver.val <= cfg[Total]

IInv == SettingsInv /\ TrafficInv /\ HeldIsListed /\ RowNotAhead /\ TotalNotAhead

-----------------------------------------------------------------------------
(* The settings are the same in memory and on disk.                         *)

\* The keys are those ConfigLoad inserts, and the total is one of them.
LEMMA KeysFacts ==
  /\ Len(Keys) \in Nat /\ Len(Keys) >= 1
  /\ \A i \in 1..Len(Keys) : Keys[i] \in KeySet
  /\ \A k \in KeySet : \E i \in 1..Len(Keys) : Keys[i] = k
  /\ Total \in KeySet /\ Total \notin Settable
  /\ Settable \subseteq KeySet
  /\ Nil \notin KeySet
<1>1. Len(Keys) \in Nat /\ Len(Keys) >= 1
  BY KeysAssumption
<1>2. Keys[Len(Keys)] = Total
  BY KeysAssumption
<1>3. QED
  BY <1>1, <1>2, NilAssumption DEF KeySet, Settable

\* What a fresh field and a fresh row hold.
LEMMA FreshValues ==
  /\ \A k \in Settable : Empty[k] = Nil /\ Created[k] = Default
  /\ Empty[Total] = 0 /\ Created[Total] = 0
  /\ Empty \in [KeySet -> Vals \cup Nat \cup {Nil}]
  /\ Created \in [KeySet -> Vals \cup Nat]
BY KeysFacts, ValsAssumption DEF Empty, Created, Settable

\* No setting being changed is the empty slot.
LEMMA NoSetIsNone ==
  /\ NoSet \notin [key : Settable, val : Vals]
  /\ NoSet.key = Nil
BY ValsAssumption DEF NoSet

\* Coming up, and loading, are different.
LEMMA BootFacts == Up.pc = "up" /\ Loading.pc = "query" /\ Up # Loading
BY DEF Up, Loading

\* At the start nothing is there and nothing has happened.
LEMMA SettingsInitInv == SettingsInit => SettingsInv
<1> SUFFICES ASSUME SettingsInit PROVE SettingsInv
  OBVIOUS
<1>1. SettingsShape
  BY KeysFacts, FreshValues DEF SettingsInit, SettingsShape, SettingsTypeOK, Loading, Up
<1>2. Seeding /\ LastWins /\ Agreed
  BY DEF SettingsInit, Seeding, LastWins, Agreed, Loading
<1>3. QED
  BY <1>1, <1>2 DEF SettingsInv

\* A restart forgets the fields and keeps the rows.
LEMMA RestartSettings ==
  ASSUME SettingsInv, SettingsRestart
  PROVE  SettingsInv'
<1>1. SettingsShape'
  BY KeysFacts, FreshValues
     DEF SettingsInv, SettingsRestart, SettingsShape, SettingsTypeOK, Loading, Up
<1>2. Seeding' /\ LastWins' /\ Agreed'
  BY DEF SettingsRestart, Seeding, LastWins, Agreed, Loading
<1>3. QED
  BY <1>1, <1>2 DEF SettingsInv

\* Reading the rows into the fields makes them agree.
LEMMA AssignSettings ==
  ASSUME SettingsInv, Assign, boot.pc \in {"query", "again"},
         "load" \notin trouble => \A k \in KeySet : disk[k] # Nil
  PROVE  SettingsInv'
<1>1. \A o \in Setters : set[o] = NoSet
  BY BootFacts DEF SettingsInv, SettingsShape
<1>2. \A k \in KeySet : cfg'[k] = IF disk[k] = Nil THEN Empty[k] ELSE disk[k]
  BY DEF Assign
<1>3. boot' \in {Up, [pc |-> "rules", next |-> 1]} /\ UNCHANGED <<disk, set, trouble>>
  BY DEF Assign
<1>4. SettingsShape'
  <2>1. cfg' \in [KeySet -> Vals \cup Nat \cup {Nil}]
    BY FreshValues DEF Assign, SettingsInv, SettingsShape
  <2>2. \A k \in Settable : cfg'[k] \in Vals \cup {Nil}
    BY <1>2, KeysFacts, FreshValues DEF SettingsInv, SettingsShape, SettingsTypeOK
  <2>3. cfg'[Total] \in Nat
    BY <1>2, KeysFacts, FreshValues DEF SettingsInv, SettingsShape, SettingsTypeOK
  <2>4. boot' \in [pc : {"query", "seed", "again", "rules", "up"}, next : 1..Len(Keys)]
    BY <1>3, KeysFacts DEF Up
  <2>5. boot'.pc = "up" => boot' = Up
    BY <1>3
  <2>6. QED
    BY <1>1, <1>3, <2>1, <2>2, <2>3, <2>4, <2>5 DEF SettingsInv, SettingsShape, SettingsTypeOK
<1>5. Seeding'
  BY <1>3 DEF Seeding, Up
<1>6. LastWins'
  BY <1>1, <1>3 DEF LastWins
<1>7. Agreed'
  BY <1>2, <1>3, KeysFacts DEF Agreed
<1>8. QED
  BY <1>4, <1>5, <1>6, <1>7 DEF SettingsInv

\* An insert adds the row it is about, or leaves the row that is there.
LEMMA SeedSettings ==
  ASSUME SettingsInv, Seed
  PROVE  SettingsInv'
<1> DEFINE j == boot.next
           k == Keys[j]
<1>1. j \in 1..Len(Keys) /\ k \in KeySet /\ boot.pc = "seed"
  BY KeysFacts DEF Seed, SettingsInv, SettingsShape, SettingsTypeOK
<1>2. \A o \in Setters : set[o] = NoSet
  BY <1>1, BootFacts DEF SettingsInv, SettingsShape
<1>3. UNCHANGED <<cfg, set>> /\ trouble' \in {trouble, trouble \cup {"load"}}
  BY DEF Seed
<1>4. boot' = IF j < Len(Keys) THEN [boot EXCEPT !.next = j + 1]
                               ELSE [pc |-> "again", next |-> 1]
  BY DEF Seed, Seeded
<1>5. \/ disk' = [disk EXCEPT ![k] = Created[k]] /\ trouble' = trouble
      \/ disk' = disk /\ disk[k] # Nil /\ trouble' = trouble
      \/ disk' = disk /\ "load" \in trouble'
  BY DEF Seed
<1>6. boot' \in [pc : {"seed", "again"}, next : 1..Len(Keys)]
  BY <1>1, <1>4, KeysFacts DEF SettingsInv, SettingsShape, SettingsTypeOK
<1> HIDE DEF k
<1>7. Created[k] # Nil
  BY <1>1, FreshValues, KeysFacts, ValsAssumption, NilAssumption DEF Settable
<1>8. \A m \in KeySet : disk'[m] = IF m = k THEN disk'[k] ELSE disk[m]
  BY <1>5 DEF SettingsInv, SettingsShape
<1>9. "load" \notin trouble' => disk'[k] # Nil
  BY <1>1, <1>5, <1>7 DEF SettingsInv, SettingsShape
<1>10. SettingsShape'
  <2>1. disk' \in [KeySet -> Vals \cup Nat \cup {Nil}]
    BY <1>1, <1>5, FreshValues DEF SettingsInv, SettingsShape
  <2>2. \A m \in Settable : disk'[m] \in Vals \cup {Nil}
    BY <1>1, <1>5, FreshValues, KeysFacts, ValsAssumption
       DEF SettingsInv, SettingsShape, SettingsTypeOK
  <2>3. disk'[Total] \in Nat \cup {Nil}
    BY <1>1, <1>5, FreshValues, KeysFacts DEF SettingsInv, SettingsShape, SettingsTypeOK
  <2>4. boot' # Up /\ boot'.pc # "up"
    BY <1>6, BootFacts
  <2>5. QED
    BY <1>2, <1>3, <1>6, <2>1, <2>2, <2>3, <2>4 DEF SettingsInv, SettingsShape, SettingsTypeOK
<1>11. Seeding'
  <2> SUFFICES ASSUME "load" \notin trouble'
               PROVE  /\ boot'.pc = "seed" => \A i \in 1..(boot'.next - 1) : disk'[Keys[i]] # Nil
                      /\ boot'.pc = "again" => \A m \in KeySet : disk'[m] # Nil
    BY <1>6 DEF Seeding
  <2>1. \A i \in 1..j : disk'[Keys[i]] # Nil
    <3>1. \A i \in 1..(j - 1) : disk[Keys[i]] # Nil
      BY <1>1, <1>3 DEF SettingsInv, Seeding
    <3>2. ASSUME NEW i \in 1..j PROVE disk'[Keys[i]] # Nil
      <4>1. Keys[i] \in KeySet
        BY <1>1, KeysFacts
      <4>2. CASE Keys[i] = k
        BY <4>2, <1>9
      <4>3. CASE Keys[i] # k
        <5>1. i \in 1..(j - 1)
          BY <1>1, <4>3 DEF k
        <5>2. QED
          BY <5>1, <4>1, <4>3, <3>1, <1>8
      <4>4. QED
        BY <4>2, <4>3
    <3>3. QED
      BY <3>2
  <2>2. CASE j < Len(Keys)
    BY <1>1, <1>4, <2>1, <2>2 DEF SettingsInv, SettingsShape, SettingsTypeOK
  <2>3. CASE ~(j < Len(Keys))
    <3>1. j = Len(Keys) /\ boot'.pc = "again"
      BY <1>1, <1>4, <2>3, KeysFacts
    <3>2. QED
      BY <3>1, <2>1, KeysFacts
  <2>4. QED
    BY <2>2, <2>3
<1>12. LastWins'
  BY <1>2, <1>3 DEF LastWins
<1>13. Agreed'
  BY <1>6 DEF Agreed
<1>14. QED
  BY <1>10, <1>11, <1>12, <1>13 DEF SettingsInv

\* The queries.
LEMMA LoadSettingsInv ==
  ASSUME SettingsInv, Load
  PROVE  SettingsInv'
<1>1. CASE Query
  <2>1. CASE (\A k \in KeySet : disk[k] # Nil) /\ Assign
    BY <1>1, <2>1, AssignSettings DEF Query
  <2>2. CASE boot' = [pc |-> "seed", next |-> 1] /\ UNCHANGED <<cfg, disk, set, trouble>>
    <3>1. \A o \in Setters : set[o] = NoSet
      BY <1>1, BootFacts DEF Query, SettingsInv, SettingsShape
    <3>2. boot' # Up
      BY <2>2, BootFacts
    <3>3. SettingsShape'
      BY <2>2, <3>1, <3>2, KeysFacts DEF SettingsInv, SettingsShape, SettingsTypeOK
    <3>4. Seeding' /\ LastWins' /\ Agreed'
      BY <2>2, <3>1 DEF Seeding, LastWins, Agreed
    <3>5. QED
      BY <3>3, <3>4 DEF SettingsInv
  <2>3. QED
    BY <1>1, <2>1, <2>2 DEF Query
<1>2. CASE Seed
  BY <1>2, SeedSettings
<1>3. CASE QueryAgain
  BY <1>3, AssignSettings DEF QueryAgain, SettingsInv, Seeding
<1>4. CASE QueryFails
  <2>1. \A o \in Setters : set[o] = NoSet
    BY <1>4, BootFacts DEF QueryFails, SettingsInv, SettingsShape
  <2>2. SettingsShape'
    BY <1>4, KeysFacts DEF QueryFails, SettingsInv, SettingsShape, SettingsTypeOK, Up
  <2>3. Seeding' /\ LastWins' /\ Agreed'
    BY <1>4, <2>1 DEF QueryFails, Seeding, LastWins, Agreed
  <2>4. QED
    BY <2>2, <2>3 DEF SettingsInv
<1>5. QED
  BY <1>1, <1>2, <1>3, <1>4 DEF Load

\* A change takes the field first ...
LEMMA SetFieldInv ==
  ASSUME SettingsInv, NEW o \in Setters, NEW k \in Settable, NEW v \in Vals, SetField(o, k, v)
  PROVE  SettingsInv'
<1>1. k \in KeySet /\ k # Total /\ k # Nil
  BY KeysFacts DEF Settable
<1>2. /\ boot = Up /\ set[o] = NoSet /\ UNCHANGED <<disk, boot>>
      /\ cfg' = [cfg EXCEPT ![k] = v]
      /\ set' = [set EXCEPT ![o] = [key |-> k, val |-> v]]
      /\ trouble \subseteq trouble' /\ trouble' \subseteq trouble \cup {"overlap"}
      /\ (\E q \in Setters : set[q].key = k) => "overlap" \in trouble'
  BY DEF SetField
<1>3. /\ cfg'[k] = v /\ \A m \in KeySet \ {k} : cfg'[m] = cfg[m]
      /\ cfg' \in [KeySet -> Vals \cup Nat \cup {Nil}]
  BY <1>1, <1>2 DEF SettingsInv, SettingsShape
<1>4. /\ set'[o] = [key |-> k, val |-> v] /\ \A q \in Setters \ {o} : set'[q] = set[q]
      /\ set' \in [Setters -> [key : Settable, val : Vals] \cup {NoSet}]
  BY <1>2 DEF SettingsInv, SettingsShape, SettingsTypeOK
<1>5. SettingsShape'
  <2>1. \A m \in Settable : cfg'[m] \in Vals \cup {Nil}
    BY <1>3, KeysFacts DEF SettingsInv, SettingsShape, SettingsTypeOK
  <2>2. cfg'[Total] \in Nat
    BY <1>1, <1>3, KeysFacts DEF SettingsInv, SettingsShape, SettingsTypeOK
  <2>3. trouble' \in SUBSET {"load", "save", "overlap", "churn"}
    BY <1>2 DEF SettingsInv, SettingsShape, SettingsTypeOK
  <2>4. QED
    BY <1>2, <1>3, <1>4, <2>1, <2>2, <2>3 DEF SettingsInv, SettingsShape, SettingsTypeOK
<1>6. Seeding'
  BY <1>2 DEF SettingsInv, Seeding
<1>7. LastWins'
  <2> SUFFICES ASSUME "overlap" \notin trouble', NEW q \in Setters, set'[q] # NoSet
               PROVE  /\ cfg'[set'[q].key] = set'[q].val
                      /\ \A p \in Setters : set'[p].key = set'[q].key => p = q
    BY DEF LastWins
  <2>1. \A p \in Setters : set[p].key # k
    BY <1>2
  <2>2. CASE q = o
    BY <2>1, <2>2, <1>3, <1>4
  <2>3. CASE q # o
    <3>1. set[q] # NoSet /\ set'[q] = set[q] /\ set[q].key \in Settable \ {k}
      BY <2>1, <2>3, <1>4 DEF SettingsInv, SettingsShape, SettingsTypeOK
    <3>2. /\ cfg[set[q].key] = set[q].val
          /\ \A p \in Setters : set[p].key = set[q].key => p = q
      BY <3>1, <1>2 DEF SettingsInv, LastWins
    <3>3. cfg'[set[q].key] = cfg[set[q].key]
      BY <3>1, <1>3, KeysFacts
    <3>4. QED
      BY <3>1, <3>2, <3>3, <1>4
  <2>4. QED
    BY <2>2, <2>3
<1>8. Agreed'
  <2> SUFFICES ASSUME trouble' \cap {"load", "save", "overlap"} = {},
                      NEW m \in Settable, \A q \in Setters : set'[q].key # m
               PROVE  disk'[m] = cfg'[m]
    BY DEF Agreed
  <2>1. m # k
    BY <1>4
  <2>2. \A q \in Setters : set[q].key # m
    BY <1>2, <1>4, NoSetIsNone, KeysFacts
  <2>3. QED
    BY <2>1, <2>2, <1>2, <1>3, BootFacts, KeysFacts DEF SettingsInv, Agreed
<1>9. QED
  BY <1>5, <1>6, <1>7, <1>8 DEF SettingsInv

\* ... and then the row.
LEMMA SetRowInv ==
  ASSUME SettingsInv, NEW o \in Setters, SetRow(o)
  PROVE  SettingsInv'
<1> DEFINE k == set[o].key
           v == set[o].val
<1>1. boot = Up /\ k \in Settable /\ v \in Vals /\ set[o] # NoSet
  BY DEF SetRow, SettingsInv, SettingsShape, SettingsTypeOK
<1>2. k \in KeySet /\ k # Total /\ k # Nil /\ v # Nil
  BY <1>1, KeysFacts, ValsAssumption DEF Settable
<1>3. UNCHANGED <<cfg, boot>> /\ set' = [set EXCEPT ![o] = NoSet]
  BY DEF SetRow
<1>4. \/ disk' = [disk EXCEPT ![k] = v] /\ trouble' = trouble
      \/ disk' = disk /\ disk[k] = Nil /\ trouble' = trouble
      \/ disk' = disk /\ trouble' = trouble \cup {"save"}
  BY DEF SetRow
<1> HIDE DEF k, v
<1>5. /\ \A m \in KeySet \ {k} : disk'[m] = disk[m]
      /\ disk'[k] \in {disk[k], v}
      /\ disk' \in [KeySet -> Vals \cup Nat \cup {Nil}]
  BY <1>1, <1>2, <1>4 DEF SettingsInv, SettingsShape
<1>6. /\ set'[o] = NoSet /\ \A q \in Setters \ {o} : set'[q] = set[q]
      /\ set' \in [Setters -> [key : Settable, val : Vals] \cup {NoSet}]
  BY <1>3 DEF SettingsInv, SettingsShape, SettingsTypeOK
<1>7. trouble \subseteq trouble' /\ trouble' \subseteq trouble \cup {"save"}
  BY <1>4
<1>8. SettingsShape'
  <2>1. \A m \in Settable : disk'[m] \in Vals \cup {Nil}
    <3>1. ASSUME NEW m \in Settable PROVE m \in KeySet /\ disk[m] \in Vals \cup {Nil}
      BY KeysFacts DEF SettingsInv, SettingsShape, SettingsTypeOK
    <3>2. QED
      BY <1>1, <1>5, <3>1
  <2>2. disk'[Total] \in Nat \cup {Nil}
    BY <1>2, <1>5, KeysFacts DEF SettingsInv, SettingsShape, SettingsTypeOK
  <2>3. trouble' \in SUBSET {"load", "save", "overlap", "churn"}
    BY <1>7 DEF SettingsInv, SettingsShape, SettingsTypeOK
  <2>4. QED
    BY <1>1, <1>3, <1>5, <1>6, <2>1, <2>2, <2>3 DEF SettingsInv, SettingsShape, SettingsTypeOK
<1>9. Seeding'
  BY <1>1, <1>2, <1>3, <1>5, <1>7, BootFacts DEF SettingsInv, Seeding
<1>10. LastWins'
  <2> SUFFICES ASSUME "overlap" \notin trouble', NEW q \in Setters, set'[q] # NoSet
               PROVE  /\ cfg'[set'[q].key] = set'[q].val
                      /\ \A p \in Setters : set'[p].key = set'[q].key => p = q
    BY DEF LastWins
  <2>1. q # o /\ set'[q] = set[q] /\ set[q].key \in Settable /\ set[q].key # Nil
    BY <1>6, KeysFacts DEF SettingsInv, SettingsShape, SettingsTypeOK
  <2>2. /\ cfg[set[q].key] = set[q].val
        /\ \A p \in Setters : set[p].key = set[q].key => p = q
    BY <2>1, <1>7 DEF SettingsInv, LastWins
  <2>3. QED
    BY <2>1, <2>2, <1>3, <1>6, NoSetIsNone
<1>11. Agreed'
  <2> SUFFICES ASSUME trouble' \cap {"load", "save", "overlap"} = {},
                      NEW m \in Settable, \A q \in Setters : set'[q].key # m
               PROVE  disk'[m] = cfg'[m]
    BY DEF Agreed
  <2>1. trouble \cap {"load", "save", "overlap"} = {}
    BY <1>7
  <2>2. CASE m = k
    <3>1. cfg[k] = v
      BY <1>1, <2>1 DEF SettingsInv, LastWins, k, v
    <3>2. disk[k] # Nil
      BY <1>1, <1>2, <2>1, BootFacts DEF SettingsInv, Seeding
    <3>3. disk'[k] = v
      BY <3>2, <1>2, <1>4 DEF SettingsInv, SettingsShape
    <3>4. QED
      BY <2>2, <3>1, <3>3, <1>3
  <2>3. CASE m # k
    <3>1. \A q \in Setters : set[q].key # m
      BY <2>3, <1>6 DEF k
    <3>2. disk[m] = cfg[m]
      BY <3>1, <2>1, <1>1, BootFacts DEF SettingsInv, Agreed
    <3>3. QED
      BY <3>2, <2>3, <1>3, <1>5, KeysFacts
  <2>4. QED
    BY <2>2, <2>3
<1>12. QED
  BY <1>8, <1>9, <1>10, <1>11 DEF SettingsInv

\* The counters touch the total, and what they add to trouble excuses no setting.
LEMMA OtherSettings ==
  ASSUME SettingsInv,
         UNCHANGED set,
         boot' = boot \/ (boot.pc = "rules" /\ boot' = Up),
         \E x \in Nat : cfg' = [cfg EXCEPT ![Total] = x],
         disk' = disk \/ (disk[Total] # Nil /\ \E x \in Nat : disk' = [disk EXCEPT ![Total] = x]),
         trouble \subseteq trouble', trouble' \subseteq trouble \cup {"load", "churn"}
  PROVE  SettingsInv'
<1>1. /\ \A m \in KeySet \ {Total} : cfg'[m] = cfg[m]
      /\ cfg'[Total] \in Nat
      /\ cfg' \in [KeySet -> Vals \cup Nat \cup {Nil}]
  BY KeysFacts DEF SettingsInv, SettingsShape
<1>2. /\ \A m \in KeySet \ {Total} : disk'[m] = disk[m]
      /\ disk'[Total] \in Nat \cup {Nil}
      /\ disk[Total] # Nil => disk'[Total] # Nil
      /\ disk' \in [KeySet -> Vals \cup Nat \cup {Nil}]
  <2>1. Total \in KeySet /\ disk[Total] \in Nat \cup {Nil}
        /\ disk \in [KeySet -> Vals \cup Nat \cup {Nil}]
    BY KeysFacts DEF SettingsInv, SettingsShape, SettingsTypeOK
  <2>2. CASE disk' = disk
    BY <2>1, <2>2
  <2>3. CASE \E x \in Nat : disk' = [disk EXCEPT ![Total] = x]
    <3>1. PICK x \in Nat : disk' = [disk EXCEPT ![Total] = x]
      BY <2>3
    <3>2. QED
      BY <2>1, <3>1, NilAssumption
  <2>4. QED
    BY <2>2, <2>3
<1>3. \A m \in Settable : m \in KeySet \ {Total}
  BY KeysFacts DEF Settable
<1>4. SettingsShape'
  <2>1. \A m \in Settable : cfg'[m] \in Vals \cup {Nil} /\ disk'[m] \in Vals \cup {Nil}
    BY <1>1, <1>2, <1>3 DEF SettingsInv, SettingsShape, SettingsTypeOK
  <2>2. boot' \in [pc : {"query", "seed", "again", "rules", "up"}, next : 1..Len(Keys)]
    BY KeysFacts DEF SettingsInv, SettingsShape, SettingsTypeOK, Up
  <2>3. trouble' \in SUBSET {"load", "save", "overlap", "churn"}
    BY DEF SettingsInv, SettingsShape, SettingsTypeOK
  <2>4. boot'.pc = "up" => boot' = Up
    BY DEF SettingsInv, SettingsShape
  <2>5. boot' # Up => \A o \in Setters : set'[o] = NoSet
    BY DEF SettingsInv, SettingsShape
  <2>6. QED
    BY <1>1, <1>2, <2>1, <2>2, <2>3, <2>4, <2>5 DEF SettingsInv, SettingsShape, SettingsTypeOK
<1>5. Seeding'
  <2> SUFFICES ASSUME "load" \notin trouble' PROVE Seeding'
    BY DEF Seeding
  <2>1. \A m \in KeySet : disk[m] # Nil => disk'[m] # Nil
    BY <1>2
  <2>2. CASE boot' = boot
    <3>1. boot.pc = "seed" => \A i \in 1..(boot.next - 1) : Keys[i] \in KeySet
      BY KeysFacts DEF SettingsInv, SettingsShape, SettingsTypeOK
    <3>2. QED
      BY <2>1, <2>2, <3>1 DEF SettingsInv, Seeding
  <2>3. CASE boot.pc = "rules" /\ boot' = Up
    BY <2>1, <2>3, BootFacts DEF SettingsInv, Seeding
  <2>4. QED
    BY <2>2, <2>3
<1>6. LastWins'
  <2>1. ASSUME NEW o \in Setters, set[o] # NoSet PROVE cfg'[set[o].key] = cfg[set[o].key]
    BY <2>1, <1>1, <1>3 DEF SettingsInv, SettingsShape, SettingsTypeOK
  <2>2. QED
    BY <2>1 DEF SettingsInv, LastWins
<1>7. Agreed'
  BY <1>1, <1>2, <1>3, BootFacts DEF SettingsInv, Agreed
<1>8. QED
  BY <1>4, <1>5, <1>6, <1>7 DEF SettingsInv

\* Steps that touch no setting.
LEMMA SameSettings ==
  ASSUME SettingsInv, UNCHANGED settings
  PROVE  SettingsInv'
BY DEF settings, SettingsInv, SettingsShape, SettingsTypeOK, Seeding, LastWins, Agreed

\* The settings keep step with the counters.
LEMMA LoadRulesSettings ==
  ASSUME SettingsInv, LoadRules
  PROVE  SettingsInv'
<1>1. cfg' = [cfg EXCEPT ![Total] = cfg[Total]] /\ cfg[Total] \in Nat
  BY KeysFacts DEF LoadRules, SettingsInv, SettingsShape, SettingsTypeOK
<1>2. /\ UNCHANGED set /\ boot.pc = "rules" /\ boot' = Up /\ disk' = disk
      /\ trouble \subseteq trouble' /\ trouble' \subseteq trouble \cup {"load", "churn"}
  BY DEF LoadRules
<1>3. QED
  BY <1>1, <1>2, OtherSettings

\* A handler that adds to the total touches no setting.
LEMMA CountInTotalSettings ==
  ASSUME SettingsInv, CountInTotal
  PROVE  SettingsInv'
<1>1. cfg[Total] + 1 \in Nat
  BY DEF SettingsInv, SettingsShape, SettingsTypeOK
<1>2. /\ cfg' = [cfg EXCEPT ![Total] = cfg[Total] + 1]
      /\ UNCHANGED <<set, boot, disk, trouble>>
  BY DEF CountInTotal
<1>3. QED
  BY <1>1, <1>2, OtherSettings

\* The persister writes the row of the total, which is no setting and stays there.
LEMMA SaveTotalSettings ==
  ASSUME SettingsInv, CountersTypeOK, NEW ok \in BOOLEAN, SaveTotal(ok)
  PROVE  SettingsInv'
<1>1. cfg' = [cfg EXCEPT ![Total] = cfg[Total]] /\ cfg[Total] \in Nat
  BY KeysFacts DEF SaveTotal, SettingsInv, SettingsShape, SettingsTypeOK
<1>2. saver.val \in Nat
  BY MaxAssumption DEF CountersTypeOK
<1>3. /\ UNCHANGED <<set, boot, trouble>>
      /\ disk' = disk \/ (disk[Total] # Nil /\ disk' = [disk EXCEPT ![Total] = saver.val])
  BY DEF SaveTotal
<1>4. QED
  BY <1>1, <1>2, <1>3, OtherSettings

\* A rule that is deleted is no setting.
LEMMA DelSettings ==
  ASSUME SettingsInv, NEW n \in Names, Del(n)
  PROVE  SettingsInv'
<1>1. cfg' = [cfg EXCEPT ![Total] = cfg[Total]] /\ cfg[Total] \in Nat
  BY KeysFacts DEF Del, SettingsInv, SettingsShape, SettingsTypeOK
<1>2. /\ UNCHANGED <<set, boot, disk>>
      /\ trouble \subseteq trouble' /\ trouble' \subseteq trouble \cup {"load", "churn"}
  BY DEF Del
<1>3. QED
  BY <1>1, <1>2, OtherSettings

\* Changing a setting.
LEMMA SetStepSettings ==
  ASSUME SettingsInv, SetStep
  PROVE  SettingsInv'
BY SetFieldInv, SetRowInv DEF SetStep

-----------------------------------------------------------------------------
(* The events whose handler has not run yet are counted.                    *)

\* There are finitely many of them.
LEMMA EventsFinite ==
  IsFiniteSet(Events) /\ Cardinality(Events) \in Nat
<1>1. IsFiniteSet(Names \X (1..MaxRule))
  <2>1. IsFiniteSet(1..MaxRule)
    <3>1. 1 \in Int /\ MaxRule \in Int
      BY MaxAssumption
    <3>2. QED
      BY <3>1, FS_Interval
  <2>2. IsFiniteSet(Names)
    BY RulesAssumption
  <2>3. QED
    BY <2>1, <2>2, FS_Product
<1>2. Events \in SUBSET (Names \X (1..MaxRule))
  BY DEF Events
<1>3. IsFiniteSet(Events)
  BY <1>1, <1>2, FS_Subset
<1>4. QED
  BY <1>3, FS_CardinalityType

\* One chunk more is one event more.
LEMMA OneMore ==
  ASSUME CountersTypeOK, NEW n \in Names, late[n] < MaxRule,
         late' = [late EXCEPT ![n] = @ + 1]
  PROVE  Cardinality(Events') = Cardinality(Events) + 1
<1> DEFINE e == <<n, late[n] + 1>>
<1>1. late \in [Names -> 0..MaxRule] /\ late[n] \in Nat
  BY MaxAssumption DEF CountersTypeOK
<1>2. /\ late'[n] = late[n] + 1
      /\ \A m \in Names \ {n} : late'[m] = late[m]
  BY <1>1
<1>3. e \in Names \X (1..MaxRule) /\ e[1] = n /\ e[2] = late[n] + 1
  BY <1>1, MaxAssumption
<1>4. e \notin Events
  BY <1>1, <1>3 DEF Events
<1>5. Events' = Events \cup {e}
  <2>1. ASSUME NEW x \in Names \X (1..MaxRule)
        PROVE  x[2] <= late'[x[1]] <=> (x[2] <= late[x[1]] \/ x = e)
    <3>1. x = <<x[1], x[2]>> /\ x[1] \in Names /\ x[2] \in 1..MaxRule
      BY <2>1
    <3>2. CASE x[1] = n
      BY <3>1, <3>2, <1>1, <1>2, MaxAssumption
    <3>3. CASE x[1] # n
      BY <3>1, <3>3, <1>2, <1>3
    <3>4. QED
      BY <3>2, <3>3
  <2> HIDE DEF e
  <2>2. QED
    BY <2>1, <1>3 DEF Events
<1> HIDE DEF e
<1>6. QED
  BY <1>4, <1>5, EventsFinite, FS_AddElement

\* One handler that runs is one event less.
LEMMA OneLess ==
  ASSUME CountersTypeOK, NEW n \in Names, late[n] > 0,
         late' = [late EXCEPT ![n] = @ - 1]
  PROVE  Cardinality(Events') = Cardinality(Events) - 1 /\ Cardinality(Events) > 0
<1> DEFINE e == <<n, late[n]>>
<1>1. late \in [Names -> 0..MaxRule] /\ late[n] \in 1..MaxRule
  BY MaxAssumption DEF CountersTypeOK
<1>2. /\ late'[n] = late[n] - 1
      /\ \A m \in Names \ {n} : late'[m] = late[m]
  BY <1>1
<1>3. e \in Names \X (1..MaxRule) /\ e[1] = n /\ e[2] = late[n]
  BY <1>1
<1>4. e \in Events
  BY <1>1, <1>3, MaxAssumption DEF Events
<1>5. Events' = Events \ {e}
  <2>1. ASSUME NEW x \in Names \X (1..MaxRule)
        PROVE  x[2] <= late'[x[1]] <=> (x[2] <= late[x[1]] /\ x # e)
    <3>1. x = <<x[1], x[2]>> /\ x[1] \in Names /\ x[2] \in 1..MaxRule
      BY <2>1
    <3>2. CASE x[1] = n
      BY <3>1, <3>2, <1>1, <1>2, MaxAssumption
    <3>3. CASE x[1] # n
      BY <3>1, <3>3, <1>2, <1>3
    <3>4. QED
      BY <3>2, <3>3
  <2> HIDE DEF e
  <2>2. QED
    BY <2>1 DEF Events
<1> HIDE DEF e
<1>6. Cardinality(Events') = Cardinality(Events) - 1
  BY <1>4, <1>5, EventsFinite, FS_RemoveElement
<1>7. Cardinality(Events) # 0
  BY <1>4, EventsFinite, FS_EmptySet
<1>8. QED
  BY <1>6, <1>7, EventsFinite

\* No chunk under way, no event.
LEMMA NoEvents ==
  ASSUME \A n \in Names : late[n] = 0
  PROVE  Cardinality(Events) = 0
<1>1. Events = {}
  BY DEF Events
<1>2. QED
  BY <1>1, FS_EmptySet

-----------------------------------------------------------------------------
(* Every step keeps the counters.                                           *)

\* What is collected is what nobody refers to.
LEMMA CollectedIs ==
  ASSUME CountersTypeOK, NEW t, NEW todo
  PROVE  /\ Collected(heap, t, todo)
              \in [Objs -> [name : Names \cup {Nil}, traffic : 0..MaxRule]]
         /\ \A p \in Objs : p \in todo \/ (\E n \in Names : t[n] = p)
              => Collected(heap, t, todo)[p] = heap[p]
<1>1. Blank \in [name : Names \cup {Nil}, traffic : 0..MaxRule]
  BY MaxAssumption DEF Blank
<1>2. QED
  BY <1>1 DEF Collected, CountersTypeOK

\* The bounds of the total.
LEMMA TotalFacts ==
  ASSUME IInv
  PROVE  /\ cfg[Total] \in 0..MaxTotal /\ half \in 0..MaxTotal /\ due \in 0..MaxTotal
         /\ cfg[Total] + half <= due
         /\ disk[Total] \in 0..MaxTotal \cup {Nil}
         /\ cfg \in [KeySet -> Vals \cup Nat \cup {Nil}] /\ Total \in KeySet
         /\ disk \in [KeySet -> Vals \cup Nat \cup {Nil}]
<1>1. cfg[Total] \in Nat /\ disk[Total] \in Nat \cup {Nil}
  BY DEF IInv, SettingsInv, SettingsShape, SettingsTypeOK
<1>2. half \in 0..MaxTotal /\ due \in 0..MaxTotal
  BY DEF IInv, TrafficInv, CountersTypeOK
<1>3. cfg[Total] + half + Cardinality(Events) = due
  BY DEF IInv, TrafficInv, Conserved
<1>4. cfg[Total] + half <= due
  BY <1>1, <1>2, <1>3, EventsFinite, MaxAssumption
<1>5. disk[Total] # Nil => disk[Total] <= MaxTotal
  BY DEF IInv, TrafficInv, Bounded
<1>6. QED
  BY <1>1, <1>2, <1>4, <1>5, KeysFacts, MaxAssumption DEF IInv, SettingsInv, SettingsShape

\* The parts of IInv that are about the counters.
CountersInv == TrafficInv /\ HeldIsListed /\ RowNotAhead /\ TotalNotAhead

\* A process that has just started has no rule, no traffic and no persister.
LEMMA FreshCounters ==
  ASSUME table' = [n \in Names |-> Nil], heap' = [p \in Objs |-> Blank],
         late' = [n \in Names |-> 0], half' = 0, saver' = Sleeping, due' = 0,
         cfg'[Total] = 0, boot' = Loading,
         row' \in [Names -> 0..MaxRule \cup {Nil}],
         disk'[Total] # Nil => disk'[Total] <= MaxTotal
  PROVE  CountersInv'
<1>1. CountersTypeOK'
  BY MaxAssumption DEF CountersTypeOK, Blank, Sleeping
<1>2. Named' /\ Quiet' /\ Bounded' /\ HeldIsListed' /\ RowNotAhead' /\ TotalNotAhead'
  BY BootFacts DEF Named, Quiet, Bounded, HeldIsListed, RowNotAhead, TotalNotAhead, Sleeping, Loading
<1>3. Cardinality(Events') = 0
  <2>1. \A n \in Names : late'[n] = 0
    OBVIOUS
  <2>2. Events' = {}
    BY <2>1 DEF Events
  <2>3. QED
    BY <2>2, FS_EmptySet
<1>4. Conserved'
  BY <1>3 DEF Conserved
<1>5. QED
  BY <1>1, <1>2, <1>4 DEF CountersInv, TrafficInv

\* What loading the settings does to the total.
LEMMA LoadTotal ==
  ASSUME IInv, Load
  PROVE  /\ boot # Up
         /\ cfg'[Total] \in 0..MaxTotal /\ disk'[Total] \in 0..MaxTotal \cup {Nil}
         /\ disk[Total] # Nil => disk'[Total] = disk[Total]
         /\ "load" \notin trouble' => "load" \notin trouble
         /\ "load" \notin trouble' /\ boot'.pc \in {"rules", "up"} => disk'[Total] = cfg'[Total]
         /\ trouble' \subseteq trouble \cup {"load"}
<1>1. CASE Assign /\ boot.pc \in {"query", "again"} /\ (boot.pc = "query" => disk[Total] # Nil)
  <2>1. disk'[Total] = disk[Total] /\ trouble' = trouble
        /\ cfg'[Total] = IF disk[Total] = Nil THEN Empty[Total] ELSE disk[Total]
    BY <1>1, KeysFacts DEF Assign
  <2>2. "load" \notin trouble => disk[Total] # Nil
    BY <1>1, KeysFacts DEF IInv, SettingsInv, Seeding
  <2>3. QED
    BY <1>1, <2>1, <2>2, TotalFacts, FreshValues, BootFacts, MaxAssumption
<1>2. CASE UNCHANGED <<cfg, disk>> /\ boot.pc \in {"query", "again"}
           /\ \/ boot'.pc = "seed" /\ trouble' = trouble
              \/ trouble' = trouble \cup {"load"}
  BY <1>2, TotalFacts, BootFacts
<1>3. CASE Seed
  <2> DEFINE k == Keys[boot.next]
  <2>1. boot.pc = "seed" /\ cfg' = cfg /\ boot'.pc \in {"seed", "again"}
        /\ trouble' \in {trouble, trouble \cup {"load"}}
    BY <1>3 DEF Seed, Seeded, IInv, SettingsInv, SettingsShape, SettingsTypeOK
  <2>2. disk' = disk \/ (disk[k] = Nil /\ disk' = [disk EXCEPT ![k] = Created[k]])
    BY <1>3 DEF Seed
  <2>3. disk'[Total] = disk[Total] \/ (disk[Total] = Nil /\ disk'[Total] = 0)
    BY <2>2, TotalFacts, FreshValues
  <2>4. QED
    BY <2>1, <2>3, TotalFacts, BootFacts, MaxAssumption
<1>4. QED
  <2>1. CASE Query
    BY <1>1, <1>2, <2>1, KeysFacts DEF Query
  <2>2. CASE QueryAgain
    BY <1>1, <2>2 DEF QueryAgain
  <2>3. CASE QueryFails
    BY <1>2, <2>3 DEF QueryFails
  <2>4. QED
    BY <1>3, <2>1, <2>2, <2>3 DEF Load

\* The process dies.
LEMMA RestartCounters ==
  ASSUME IInv, Restart
  PROVE  CountersInv'
<1>1. row' \in [Names -> 0..MaxRule \cup {Nil}]
  BY DEF IInv, TrafficInv, CountersTypeOK, Restart
<1>2. disk'[Total] # Nil => disk'[Total] <= MaxTotal
  BY DEF IInv, TrafficInv, Bounded, Restart, SettingsRestart
<1>3. cfg'[Total] = 0 /\ boot' = Loading
  BY FreshValues DEF Restart, SettingsRestart
<1>4. QED
  BY <1>1, <1>2, <1>3, FreshCounters DEF Restart

\* What the total is loaded with is what it should have counted by then.
LEMMA LoadCounters ==
  ASSUME IInv, LoadSettings
  PROVE  CountersInv'
<1>1. Load /\ UNCHANGED <<table, heap, row, late, half, saver>> /\ due' = cfg'[Total]
  BY DEF LoadSettings
<1>2. /\ \A n \in Names : table[n] = Nil /\ late[n] = 0
      /\ half = 0 /\ saver = Sleeping
  BY <1>1, LoadTotal DEF IInv, TrafficInv, Quiet
<1>3. CountersTypeOK'
  BY <1>1, LoadTotal DEF IInv, TrafficInv, CountersTypeOK
<1>4. Named' /\ Quiet'
  BY <1>1, <1>2 DEF Named, Quiet, Sleeping
<1>5. Bounded'
  BY <1>1, <1>2, LoadTotal, MaxAssumption DEF Bounded, Sleeping
<1>6. Conserved'
  <2>1. Events' = Events
    BY <1>1 DEF Events
  <2>2. Cardinality(Events') = 0
    BY <2>1, <1>2, NoEvents
  <2>3. QED
    BY <2>2, <1>1, <1>2, LoadTotal, MaxAssumption DEF Conserved
<1>7. HeldIsListed' /\ RowNotAhead'
  BY <1>1, <1>2 DEF HeldIsListed, RowNotAhead, Sleeping
<1>8. TotalNotAhead'
  BY <1>1, <1>2, LoadTotal, MaxAssumption DEF TotalNotAhead, Sleeping
<1>9. QED
  BY <1>3, <1>4, <1>5, <1>6, <1>7, <1>8 DEF CountersInv, TrafficInv

\* A loaded rule counts on from its row.
LEMMA LoadRulesCounters ==
  ASSUME IInv, LoadRules
  PROVE  CountersInv'
<1>1. /\ boot.pc = "rules" /\ boot' = Up
      /\ UNCHANGED <<cfg, disk, row, late, half, saver, due>>
      /\ trouble \subseteq trouble'
  BY DEF LoadRules
<1>2. /\ \A n \in Names : table[n] = Nil /\ late[n] = 0
      /\ half = 0 /\ saver = Sleeping
  BY <1>1, BootFacts DEF IInv, TrafficInv, Quiet
<1>3. /\ table' \in [Names -> Objs \cup {Nil}]
      /\ heap' \in [Objs -> [name : Names \cup {Nil}, traffic : 0..MaxRule]]
      /\ \A n \in Names : table'[n] # Nil =>
            /\ heap'[table'[n]].name = n
            /\ heap'[table'[n]].traffic \in 0..MaxRule
            /\ row[n] = heap'[table'[n]].traffic
  <2>1. CASE UNCHANGED <<table, heap>>
    BY <1>2, <2>1 DEF IInv, TrafficInv, CountersTypeOK
  <2>2. CASE ~ UNCHANGED <<table, heap>>
    <3> DEFINE mine(p) == {n \in Names : table'[n] = p}
               first(p) == CHOOSE n \in mine(p) : TRUE
    <3>1. /\ table' \in [Names -> Objs \cup {Nil}]
          /\ \A n \in Names : table'[n] = Nil <=> row[n] = Nil
          /\ \A m, n \in Names : table'[m] = table'[n] /\ table'[m] # Nil => m = n
          /\ heap' = [p \in Objs |-> IF mine(p) = {} THEN Blank
                                     ELSE [name |-> first(p), traffic |-> row[first(p)]]]
      BY <2>2 DEF LoadRules
    <3>2. \A n \in Names : row[n] # Nil => row[n] \in 0..MaxRule
      BY DEF IInv, TrafficInv, CountersTypeOK
    <3>3. ASSUME NEW p \in Objs, mine(p) # {}
          PROVE  first(p) \in Names /\ table'[first(p)] = p /\ row[first(p)] \in 0..MaxRule
      <4>1. first(p) \in mine(p)
        BY <3>3
      <4>2. p # Nil
        BY RulesAssumption
      <4>3. QED
        BY <4>1, <4>2, <3>1, <3>2
    <3>4. Blank \in [name : Names \cup {Nil}, traffic : 0..MaxRule]
      BY MaxAssumption DEF Blank
    <3>5. ASSUME NEW n \in Names, table'[n] # Nil
          PROVE  table'[n] \in Objs /\ mine(table'[n]) # {} /\ first(table'[n]) = n
      <4>1. table'[n] \in Objs /\ n \in mine(table'[n])
        BY <3>1, <3>5
      <4>2. QED
        BY <4>1, <3>1, <3>3, <3>5
    <3> HIDE DEF mine, first
    <3>6. heap' \in [Objs -> [name : Names \cup {Nil}, traffic : 0..MaxRule]]
      <4>1. ASSUME NEW p \in Objs
            PROVE  heap'[p] \in [name : Names \cup {Nil}, traffic : 0..MaxRule]
        BY <3>1, <3>3, <3>4
      <4>2. QED
        BY <4>1, <3>1
    <3>7. ASSUME NEW n \in Names, table'[n] # Nil
          PROVE  heap'[table'[n]] = [name |-> n, traffic |-> row[n]] /\ row[n] \in 0..MaxRule
      BY <3>1, <3>3, <3>5, <3>7
    <3>8. ASSUME NEW n \in Names, table'[n] # Nil
          PROVE  /\ heap'[table'[n]].name = n
                 /\ heap'[table'[n]].traffic \in 0..MaxRule
                 /\ row[n] = heap'[table'[n]].traffic
      <4> DEFINE r == heap'[table'[n]]
      <4>1. r = [name |-> n, traffic |-> row[n]] /\ row[n] \in 0..MaxRule
        BY <3>7, <3>8
      <4> HIDE DEF r
      <4>2. r.name = n /\ r.traffic = row[n] /\ r.traffic \in 0..MaxRule
        BY <4>1
      <4>3. QED
        BY <4>2 DEF r
    <3>9. table' \in [Names -> Objs \cup {Nil}]
      BY <3>1
    <3>10. QED
      BY <3>6, <3>8, <3>9
  <2>3. QED
    BY <2>1, <2>2
<1>4. CountersTypeOK'
  BY <1>1, <1>3 DEF IInv, TrafficInv, CountersTypeOK
<1>5. Named' /\ Quiet'
  BY <1>1, <1>2, <1>3 DEF Named, Quiet, Sleeping
<1>6. Bounded'
  BY <1>1, <1>2, <1>3, MaxAssumption DEF IInv, TrafficInv, Bounded, Sleeping
<1>7. Conserved'
  BY <1>1 DEF IInv, TrafficInv, Conserved, Events
<1>8. HeldIsListed' /\ RowNotAhead'
  BY <1>1, <1>2, <1>3, MaxAssumption DEF HeldIsListed, RowNotAhead, Sleeping
<1>9. TotalNotAhead'
  BY <1>1, <1>2 DEF IInv, TotalNotAhead, Sleeping
<1>10. QED
  BY <1>4, <1>5, <1>6, <1>7, <1>8, <1>9 DEF CountersInv, TrafficInv

\* No setting is the total.
LEMMA SetStepTotal ==
  ASSUME IInv, SetStep
  PROVE  /\ cfg'[Total] = cfg[Total] /\ disk'[Total] = disk[Total]
         /\ boot' = boot /\ trouble \subseteq trouble'
         /\ "churn" \in trouble' => "churn" \in trouble
<1>1. CASE \E o \in Setters : SetRow(o)
  <2>1. PICK o \in Setters : SetRow(o)
    BY <1>1
  <2>2. set[o].key \in Settable
    BY <2>1 DEF SetRow, IInv, SettingsInv, SettingsShape, SettingsTypeOK
  <2>3. set[o].key # Total
    BY <2>2, KeysFacts
  <2>4. disk'[Total] = disk[Total]
    BY <2>1, <2>3, TotalFacts DEF SetRow
  <2>5. QED
    BY <2>1, <2>4 DEF SetRow
<1>2. CASE \E o \in Setters, k \in Settable, v \in Vals : SetField(o, k, v)
  BY <1>2, TotalFacts, KeysFacts DEF SetField
<1>3. QED
  BY <1>1, <1>2 DEF SetStep

\* Changing a setting disturbs no counter.
LEMMA SetStepCounters ==
  ASSUME IInv, SetStep, UNCHANGED counters
  PROVE  CountersInv'
<1>1. UNCHANGED <<table, heap, row, late, half, saver, due>>
  BY DEF counters
<1>2. CountersTypeOK' /\ Named' /\ Quiet' /\ Bounded'
  BY <1>1, SetStepTotal DEF IInv, TrafficInv, CountersTypeOK, Named, Quiet, Bounded
<1>3. Conserved'
  BY <1>1, SetStepTotal DEF IInv, TrafficInv, Conserved, Events
<1>4. HeldIsListed' /\ RowNotAhead' /\ TotalNotAhead'
  BY <1>1, SetStepTotal DEF IInv, HeldIsListed, RowNotAhead, TotalNotAhead
<1>5. QED
  BY <1>2, <1>3, <1>4 DEF CountersInv, TrafficInv

\* A chunk that is carried is one event more, and one more is due.
LEMMA CarryCounters ==
  ASSUME IInv, NEW n \in Names, Carry(n)
  PROVE  CountersInv'
<1>1. /\ boot = Up /\ table[n] # Nil
      /\ due < MaxTotal /\ heap[table[n]].traffic + late[n] < MaxRule
      /\ late' = [late EXCEPT ![n] = @ + 1] /\ due' = due + 1
      /\ UNCHANGED <<cfg, disk, boot, set, trouble, table, heap, row, half, saver>>
  BY DEF Carry, settings
<1>2. /\ table[n] \in Objs /\ heap[table[n]].traffic \in Nat
      /\ late \in [Names -> 0..MaxRule] /\ due \in Nat /\ half \in Nat
      /\ CountersTypeOK
  BY <1>1, MaxAssumption DEF IInv, TrafficInv, CountersTypeOK
<1>3. late[n] < MaxRule
  BY <1>1, <1>2, MaxAssumption
<1>4. CountersTypeOK'
  <2>1. late' \in [Names -> 0..MaxRule] /\ due' \in 0..MaxTotal
    BY <1>1, <1>2, <1>3, MaxAssumption
  <2>2. QED
    BY <1>1, <2>1 DEF IInv, TrafficInv, CountersTypeOK
<1>5. Named' /\ Quiet'
  BY <1>1 DEF IInv, TrafficInv, Named, Quiet
<1>6. Bounded'
  <2>1. ASSUME NEW m \in Names, table[m] # Nil
        PROVE  heap[table[m]].traffic + late'[m] <= MaxRule
    <3>1. CASE m = n
      <4>1. late'[m] = late[n] + 1
        BY <1>1, <1>2, <3>1
      <4>2. QED
        BY <4>1, <3>1, <1>1, <1>2, MaxAssumption
    <3>2. CASE m # n
      BY <2>1, <3>2, <1>1, <1>2 DEF IInv, TrafficInv, Bounded
    <3>3. QED
      BY <3>1, <3>2
  <2>2. QED
    BY <2>1, <1>1 DEF IInv, TrafficInv, Bounded
<1>7. Conserved'
  <2>1. Cardinality(Events') = Cardinality(Events) + 1
    BY <1>1, <1>2, <1>3, OneMore
  <2>2. QED
    BY <2>1, <1>1, <1>2, EventsFinite, TotalFacts, MaxAssumption DEF IInv, TrafficInv, Conserved
<1>8. HeldIsListed' /\ RowNotAhead' /\ TotalNotAhead'
  BY <1>1 DEF IInv, HeldIsListed, RowNotAhead, TotalNotAhead
<1>9. QED
  BY <1>4, <1>5, <1>6, <1>7, <1>8 DEF CountersInv, TrafficInv

\* The first addition of a handler: one event less, one chunk between the two.
LEMMA CountForRuleCounters ==
  ASSUME IInv, NEW n \in Names, CountForRule(n)
  PROVE  CountersInv'
<1>1. /\ late[n] > 0
      /\ late' = [late EXCEPT ![n] = @ - 1] /\ half' = half + 1
      /\ heap' = IF table[n] = Nil THEN heap ELSE [heap EXCEPT ![table[n]].traffic = @ + 1]
      /\ UNCHANGED <<cfg, disk, boot, set, trouble, table, row, saver, due>>
  BY DEF CountForRule, settings
<1>2. /\ CountersTypeOK
      /\ table \in [Names -> Objs \cup {Nil}]
      /\ heap \in [Objs -> [name : Names \cup {Nil}, traffic : 0..MaxRule]]
      /\ late \in [Names -> 0..MaxRule] /\ half \in Nat
  BY MaxAssumption DEF IInv, TrafficInv, CountersTypeOK
<1>3. Cardinality(Events') = Cardinality(Events) - 1 /\ Cardinality(Events) > 0
  BY <1>1, <1>2, OneLess
<1>4. Conserved' /\ half' \in 0..MaxTotal
  <2>1. cfg[Total] + half + Cardinality(Events) = due
    BY DEF IInv, TrafficInv, Conserved
  <2>2. cfg[Total] \in Nat /\ due \in Nat /\ due <= MaxTotal
    BY TotalFacts, MaxAssumption
  <2>3. cfg'[Total] = cfg[Total] /\ due' = due /\ half' = half + 1
    BY <1>1
  <2>4. cfg'[Total] + half' + Cardinality(Events') = due'
    BY <2>1, <2>2, <2>3, <1>2, <1>3, EventsFinite
  <2>5. half' \in 0..MaxTotal
    BY <2>1, <2>2, <2>3, <1>2, <1>3, EventsFinite, MaxAssumption
  <2>6. QED
    BY <2>4, <2>5 DEF Conserved
<1>5. \A m \in Names : late'[m] = IF m = n THEN late[n] - 1 ELSE late[m]
  BY <1>1, <1>2
<1>6. ASSUME table[n] # Nil
      PROVE  /\ table[n] \in Objs /\ heap[table[n]].traffic \in Nat
             /\ heap[table[n]].traffic + late[n] <= MaxRule
  BY <1>2, <1>6, MaxAssumption DEF IInv, TrafficInv, Bounded
<1>7. ASSUME NEW p \in Objs
      PROVE  /\ heap'[p].name = heap[p].name
             /\ heap'[p].traffic = IF p = table[n] THEN heap[p].traffic + 1 ELSE heap[p].traffic
  BY <1>1, <1>2, RulesAssumption
<1>8. heap' \in [Objs -> [name : Names \cup {Nil}, traffic : 0..MaxRule]]
  <2>1. CASE table[n] = Nil
    BY <1>1, <1>2, <2>1
  <2>2. CASE table[n] # Nil
    <3>1. heap[table[n]].traffic + 1 \in 0..MaxRule
      BY <1>1, <1>2, <1>6, <2>2, MaxAssumption
    <3>2. QED
      BY <1>1, <1>2, <1>6, <2>2, <3>1
  <2>3. QED
    BY <2>1, <2>2
<1>9. late' \in [Names -> 0..MaxRule]
  BY <1>1, <1>2, MaxAssumption
<1>10. CountersTypeOK'
  BY <1>1, <1>4, <1>8, <1>9 DEF IInv, TrafficInv, CountersTypeOK
<1>11. Named'
  <2>1. saver \in [pc : {"sleep", "total", "list", "rows"}, val : 0..MaxTotal, todo : SUBSET Objs]
    BY DEF IInv, TrafficInv, CountersTypeOK
  <2>2. QED
    BY <1>1, <1>2, <1>7, <2>1 DEF IInv, TrafficInv, Named
<1>12. Quiet'
  BY <1>1, MaxAssumption DEF IInv, TrafficInv, Quiet
<1>13. Bounded'
  <2>1. ASSUME NEW m \in Names, table[m] # Nil
        PROVE  heap'[table[m]].traffic + late'[m] <= MaxRule
    <3>1. table[m] \in Objs /\ heap[table[m]].traffic \in Nat /\ late[m] \in Nat
      BY <1>2, <2>1, MaxAssumption
    <3>2. heap[table[m]].traffic + late[m] <= MaxRule
      BY <2>1 DEF IInv, TrafficInv, Bounded
    <3>3. CASE m = n
      BY <3>1, <3>2, <3>3, <1>1, <1>5, <1>7, MaxAssumption
    <3>4. CASE m # n
      <4>1. table[m] # table[n]
        BY <2>1, <3>4 DEF IInv, TrafficInv, Named
      <4>2. QED
        BY <3>1, <3>2, <3>4, <4>1, <1>5, <1>7
    <3>5. QED
      BY <3>3, <3>4
  <2>2. QED
    BY <2>1, <1>1 DEF IInv, TrafficInv, Bounded
<1>14. HeldIsListed'
  <2>1. \A p \in saver.todo : p \in Objs
    BY DEF IInv, TrafficInv, CountersTypeOK
  <2>2. QED
    BY <1>1, <1>7, <2>1 DEF IInv, HeldIsListed
<1>15. RowNotAhead'
  <2> SUFFICES ASSUME "churn" \notin trouble, NEW m \in Names, table[m] # Nil, row[m] # Nil
               PROVE  row[m] <= heap'[table[m]].traffic
    BY <1>1 DEF RowNotAhead
  <2>1. row[m] <= heap[table[m]].traffic
    BY DEF IInv, RowNotAhead
  <2>2. table[m] \in Objs /\ row[m] \in Nat /\ heap[table[m]].traffic \in Nat
    BY <1>2, MaxAssumption DEF IInv, TrafficInv, CountersTypeOK
  <2>3. QED
    BY <2>1, <2>2, <1>7
<1>16. TotalNotAhead'
  BY <1>1 DEF IInv, TotalNotAhead
<1>17. QED
  BY <1>4, <1>10, <1>11, <1>12, <1>13, <1>14, <1>15, <1>16 DEF CountersInv, TrafficInv

\* The second addition of a handler.
LEMMA CountInTotalCounters ==
  ASSUME IInv, CountInTotal
  PROVE  CountersInv'
<1>1. /\ half > 0 /\ half' = half - 1
      /\ cfg' = [cfg EXCEPT ![Total] = @ + 1]
      /\ UNCHANGED <<disk, boot, set, trouble, table, heap, row, late, saver, due>>
  BY DEF CountInTotal
<1>2. cfg'[Total] = cfg[Total] + 1 /\ cfg[Total] \in Nat /\ half \in 0..MaxTotal
  BY <1>1, TotalFacts, MaxAssumption
<1>3. CountersTypeOK' /\ Named' /\ Quiet' /\ Bounded'
  BY <1>1, <1>2, MaxAssumption
     DEF IInv, TrafficInv, CountersTypeOK, Named, Quiet, Bounded
<1>4. Conserved'
  <2>1. Events' = Events
    BY <1>1 DEF Events
  <2>2. QED
    BY <1>1, <1>2, <2>1, EventsFinite, MaxAssumption DEF IInv, TrafficInv, Conserved
<1>5. HeldIsListed' /\ RowNotAhead'
  BY <1>1 DEF IInv, HeldIsListed, RowNotAhead
<1>6. TotalNotAhead'
  <2> SUFFICES ASSUME "load" \notin trouble, boot.pc \in {"rules", "up"}
               PROVE  /\ disk[Total] <= cfg[Total] + 1
                      /\ saver.pc = "total" => disk[Total] <= saver.val /\ saver.val <= cfg[Total] + 1
    BY <1>1, <1>2 DEF TotalNotAhead
  <2>1. disk[Total] <= cfg[Total]
        /\ (saver.pc = "total" => disk[Total] <= saver.val /\ saver.val <= cfg[Total])
    BY DEF IInv, TotalNotAhead
  <2>2. disk[Total] \in Nat
    BY BootFacts, KeysFacts DEF IInv, SettingsInv, SettingsShape, SettingsTypeOK, Seeding
  <2>3. saver.val \in Nat
    BY MaxAssumption DEF IInv, TrafficInv, CountersTypeOK
  <2>4. QED
    BY <2>1, <2>2, <2>3, <1>2
<1>7. QED
  BY <1>3, <1>4, <1>5, <1>6 DEF CountersInv, TrafficInv

\* The persister reads the total, and it is not ahead of it.
LEMMA TickCounters ==
  ASSUME IInv, Tick
  PROVE  CountersInv'
<1>1. /\ boot = Up
      /\ saver' = [pc |-> "total", val |-> cfg[Total], todo |-> {}]
      /\ UNCHANGED <<cfg, disk, boot, set, trouble, table, heap, row, late, half, due>>
  BY DEF Tick, settings
<1>2. saver'.pc = "total" /\ saver'.val = cfg[Total] /\ saver'.todo = {}
  BY <1>1
<1>3. saver' \in [pc : {"sleep", "total", "list", "rows"}, val : 0..MaxTotal, todo : SUBSET Objs]
  BY <1>1, TotalFacts
<1>4. CountersTypeOK'
  BY <1>1, <1>3 DEF IInv, TrafficInv, CountersTypeOK
<1>5. Named' /\ Quiet' /\ Bounded' /\ HeldIsListed'
  BY <1>1, <1>2 DEF IInv, TrafficInv, Named, Quiet, Bounded, HeldIsListed
<1>6. Conserved'
  BY <1>1 DEF IInv, TrafficInv, Conserved, Events
<1>7. RowNotAhead'
  BY <1>1 DEF IInv, RowNotAhead
<1>8. TotalNotAhead'
  BY <1>1, <1>2, TotalFacts, MaxAssumption DEF IInv, TotalNotAhead
<1>9. QED
  BY <1>4, <1>5, <1>6, <1>7, <1>8 DEF CountersInv, TrafficInv

\* The total that is written is one memory has had.
LEMMA SaveTotalCounters ==
  ASSUME IInv, NEW ok \in BOOLEAN, SaveTotal(ok)
  PROVE  CountersInv'
<1>1. /\ saver.pc = "total" /\ saver' = [saver EXCEPT !.pc = "list"]
      /\ UNCHANGED <<cfg, boot, set, trouble, table, heap, row, late, half, due>>
  BY DEF SaveTotal
<1>2. /\ saver \in [pc : {"sleep", "total", "list", "rows"}, val : 0..MaxTotal, todo : SUBSET Objs]
      /\ saver.val \in 0..MaxTotal /\ saver.todo = {}
  BY <1>1 DEF IInv, TrafficInv, CountersTypeOK, Bounded
<1>3. disk'[Total] = disk[Total] \/ disk'[Total] = saver.val
  BY TotalFacts DEF SaveTotal
<1>4. saver' = [pc |-> "list", val |-> saver.val, todo |-> saver.todo]
  BY <1>1, <1>2
<1>5. saver'.pc = "list" /\ saver'.todo = {}
  BY <1>2, <1>4
<1>6. CountersTypeOK'
  <2>1. saver' \in [pc : {"sleep", "total", "list", "rows"}, val : 0..MaxTotal, todo : SUBSET Objs]
    BY <1>2, <1>4
  <2>2. QED
    BY <1>1, <2>1 DEF IInv, TrafficInv, CountersTypeOK
<1>7. boot = Up
  BY <1>1 DEF IInv, TrafficInv, Quiet, Sleeping
<1>8. Named' /\ Quiet' /\ HeldIsListed'
  BY <1>1, <1>5, <1>7 DEF IInv, TrafficInv, Named, Quiet, HeldIsListed
<1>9. Bounded'
  BY <1>1, <1>2, <1>3, <1>5, MaxAssumption DEF IInv, TrafficInv, Bounded
<1>10. Conserved'
  BY <1>1 DEF IInv, TrafficInv, Conserved, Events
<1>11. RowNotAhead'
  BY <1>1 DEF IInv, RowNotAhead
<1>12. TotalNotAhead'
  BY <1>1, <1>3, <1>5 DEF IInv, TotalNotAhead
<1>13. QED
  BY <1>6, <1>8, <1>9, <1>10, <1>11, <1>12 DEF CountersInv, TrafficInv

\* The persister takes the objects of the rules that are there.
LEMMA ListRulesCounters ==
  ASSUME IInv, ListRules
  PROVE  CountersInv'
<1> DEFINE todo == {table[n] : n \in Names} \ {Nil}
<1>1. /\ saver.pc = "list"
      /\ saver' = IF todo = {} THEN Sleeping ELSE [pc |-> "rows", val |-> 0, todo |-> todo]
      /\ UNCHANGED <<cfg, disk, boot, set, trouble, table, heap, row, late, half, due>>
  BY DEF ListRules, settings
<1>2. \A p \in todo : p \in Objs /\ \E n \in Names : table[n] = p /\ table[n] # Nil
  BY DEF IInv, TrafficInv, CountersTypeOK
<1>3. \A p \in todo : heap[p].name \in Names /\ table[heap[p].name] = p
  BY <1>2 DEF IInv, TrafficInv, Named
<1> HIDE DEF todo
<1>4. saver'.todo = todo /\ saver'.pc \in {"sleep", "rows"}
      /\ (saver'.pc # "rows" => saver'.todo = {})
  BY <1>1 DEF Sleeping
<1>5. saver' \in [pc : {"sleep", "total", "list", "rows"}, val : 0..MaxTotal, todo : SUBSET Objs]
  BY <1>1, <1>2, MaxAssumption DEF Sleeping
<1>6. CountersTypeOK'
  BY <1>1, <1>5 DEF IInv, TrafficInv, CountersTypeOK
<1>7. boot = Up
  BY <1>1 DEF IInv, TrafficInv, Quiet, Sleeping
<1>8. Named' /\ HeldIsListed'
  BY <1>1, <1>3, <1>4 DEF IInv, TrafficInv, Named, HeldIsListed
<1>9. Quiet' /\ Bounded'
  BY <1>1, <1>4, <1>7 DEF IInv, TrafficInv, Quiet, Bounded
<1>10. Conserved'
  BY <1>1 DEF IInv, TrafficInv, Conserved, Events
<1>11. RowNotAhead' /\ TotalNotAhead'
  BY <1>1, <1>4 DEF IInv, RowNotAhead, TotalNotAhead
<1>12. QED
  BY <1>6, <1>8, <1>9, <1>10, <1>11 DEF CountersInv, TrafficInv

\* What the persister writes for a rule, the rule has counted, unless another
\* rule has taken its name.
LEMMA SaveRowCounters ==
  ASSUME IInv, NEW p \in Objs, NEW ok \in BOOLEAN, SaveRow(p, ok)
  PROVE  CountersInv'
<1> DEFINE o == heap[p].name
           t == heap[p].traffic
<1>1. /\ p \in saver.todo
      /\ row' = row \/ (row[o] # Nil /\ row' = [row EXCEPT ![o] = t])
      /\ saver' = IF saver.todo = {p} THEN Sleeping ELSE [saver EXCEPT !.todo = @ \ {p}]
      /\ heap' = Collected(heap, table, saver'.todo)
      /\ UNCHANGED <<cfg, disk, boot, set, trouble, table, late, half, due>>
  BY DEF SaveRow, settings
<1>2. /\ CountersTypeOK
      /\ table \in [Names -> Objs \cup {Nil}]
      /\ row \in [Names -> 0..MaxRule \cup {Nil}]
      /\ saver \in [pc : {"sleep", "total", "list", "rows"}, val : 0..MaxTotal, todo : SUBSET Objs]
  BY DEF IInv, TrafficInv, CountersTypeOK
<1>3. o \in Names /\ t \in 0..MaxRule
  BY <1>1 DEF IInv, TrafficInv, CountersTypeOK, Named
<1> HIDE DEF o, t
<1>4. boot = Up /\ saver.pc = "rows"
  BY <1>1 DEF IInv, TrafficInv, Quiet, Bounded, Sleeping
<1>5. /\ saver'.todo = saver.todo \ {p}
      /\ saver'.pc # "rows" => saver'.todo = {}
      /\ saver'.pc \in {"sleep", "rows"}
      /\ saver' \in [pc : {"sleep", "total", "list", "rows"}, val : 0..MaxTotal, todo : SUBSET Objs]
  BY <1>1, <1>2, <1>4, MaxAssumption DEF Sleeping
<1>6. /\ heap' \in [Objs -> [name : Names \cup {Nil}, traffic : 0..MaxRule]]
      /\ \A q \in Objs : q \in saver'.todo \/ (\E n \in Names : table[n] = q) => heap'[q] = heap[q]
  BY <1>1, <1>2, CollectedIs
<1>7. \A n \in Names : table[n] # Nil => heap'[table[n]] = heap[table[n]]
  BY <1>2, <1>6
<1>8. \A q \in saver'.todo : q \in saver.todo /\ heap'[q] = heap[q]
  BY <1>2, <1>5, <1>6
<1>9. row' \in [Names -> 0..MaxRule \cup {Nil}]
  BY <1>1, <1>2, <1>3
<1>10. CountersTypeOK'
  BY <1>1, <1>5, <1>6, <1>9 DEF IInv, TrafficInv, CountersTypeOK
<1>11. Named' /\ HeldIsListed'
  <2>1. table' = table /\ trouble' = trouble
    BY <1>1
  <2>2. Named'
    BY <2>1, <1>7, <1>8 DEF IInv, TrafficInv, Named
  <2>3. HeldIsListed'
    BY <2>1, <1>8 DEF IInv, HeldIsListed
  <2>4. QED
    BY <2>2, <2>3
<1>12. Quiet' /\ Bounded'
  <2>1. Quiet'
    BY <1>1, <1>4 DEF Quiet
  <2>2. \A n \in Names : table[n] # Nil => heap'[table[n]].traffic + late[n] <= MaxRule
    BY <1>7 DEF IInv, TrafficInv, Bounded
  <2>3. Bounded'
    BY <2>2, <1>1, <1>5 DEF IInv, TrafficInv, Bounded
  <2>4. QED
    BY <2>1, <2>3
<1>13. Conserved'
  BY <1>1 DEF IInv, TrafficInv, Conserved, Events
<1>14. RowNotAhead'
  <2> SUFFICES ASSUME "churn" \notin trouble, NEW n \in Names, table[n] # Nil, row'[n] # Nil
               PROVE  row'[n] <= heap[table[n]].traffic
    BY <1>1, <1>7 DEF RowNotAhead
  <2>1. CASE row'[n] = row[n]
    BY <2>1 DEF IInv, RowNotAhead
  <2>2. CASE row'[n] # row[n]
    <3>1. n = o /\ row'[n] = t
      BY <1>1, <1>2, <1>3, <2>2
    <3>2. table[o] = p
      BY <1>1 DEF IInv, HeldIsListed, o
    <3>3. row'[n] = heap[table[n]].traffic
      BY <3>1, <3>2 DEF t
    <3>4. QED
      BY <1>3, <3>1, <3>3, MaxAssumption
  <2>3. QED
    BY <2>1, <2>2
<1>15. TotalNotAhead'
  BY <1>1, <1>5 DEF IInv, TotalNotAhead
<1>16. QED
  BY <1>10, <1>11, <1>12, <1>13, <1>14, <1>15 DEF CountersInv, TrafficInv

\* A new rule gets an object nobody refers to.
LEMMA AddCounters ==
  ASSUME IInv, NEW n \in Names, Add(n)
  PROVE  CountersInv'
<1>1. PICK p \in Objs :
        /\ heap[p] = Blank
        /\ table' = [table EXCEPT ![n] = p]
        /\ heap' = [heap EXCEPT ![p] = [name |-> n, traffic |-> 0]]
  BY DEF Add
<1>2. /\ boot = Up /\ table[n] = Nil /\ row' = [row EXCEPT ![n] = 0]
      /\ UNCHANGED <<cfg, disk, boot, set, trouble, late, half, saver, due>>
  BY DEF Add, settings
<1>3. /\ table \in [Names -> Objs \cup {Nil}]
      /\ heap \in [Objs -> [name : Names \cup {Nil}, traffic : 0..MaxRule]]
      /\ row \in [Names -> 0..MaxRule \cup {Nil}]
      /\ late \in [Names -> 0..MaxRule]
      /\ saver.todo \subseteq Objs
  BY DEF IInv, TrafficInv, CountersTypeOK
<1>4. heap[p].name \notin Names
  BY <1>1, RulesAssumption DEF Blank
<1>5. p \notin saver.todo /\ \A m \in Names : table[m] # p
  BY <1>4, RulesAssumption DEF IInv, TrafficInv, Named
<1>6. /\ table' \in [Names -> Objs \cup {Nil}]
      /\ heap' \in [Objs -> [name : Names \cup {Nil}, traffic : 0..MaxRule]]
      /\ row' \in [Names -> 0..MaxRule \cup {Nil}]
  <2>1. [name |-> n, traffic |-> 0] \in [name : Names \cup {Nil}, traffic : 0..MaxRule]
    BY MaxAssumption
  <2>2. QED
    BY <2>1, <1>1, <1>2, <1>3, MaxAssumption
<1>7. /\ table'[n] = p /\ heap'[p].name = n /\ heap'[p].traffic = 0 /\ row'[n] = 0
      /\ \A m \in Names \ {n} : table'[m] = table[m] /\ row'[m] = row[m]
                                /\ (table[m] # Nil => heap'[table[m]] = heap[table[m]])
      /\ \A q \in saver.todo : heap'[q] = heap[q]
  BY <1>1, <1>2, <1>3, <1>5
<1>8. CountersTypeOK'
  BY <1>2, <1>6 DEF IInv, TrafficInv, CountersTypeOK
<1>9. Named'
  BY <1>2, <1>7 DEF IInv, TrafficInv, Named
<1>10. Quiet'
  BY <1>2 DEF Quiet
<1>11. Bounded'
  <2>1. ASSUME NEW m \in Names, table'[m] # Nil
        PROVE  heap'[table'[m]].traffic + late[m] <= MaxRule
    <3>1. CASE m = n
      <4>1. late[n] \in 0..MaxRule
        BY <1>3
      <4>2. QED
        BY <3>1, <4>1, <1>7, MaxAssumption
    <3>2. CASE m # n
      BY <2>1, <3>2, <1>7 DEF IInv, TrafficInv, Bounded
    <3>3. QED
      BY <3>1, <3>2
  <2>2. QED
    BY <2>1, <1>2 DEF IInv, TrafficInv, Bounded
<1>12. Conserved'
  BY <1>2 DEF IInv, TrafficInv, Conserved, Events
<1>13. HeldIsListed'
  <2> SUFFICES ASSUME "churn" \notin trouble, NEW q \in saver.todo
               PROVE  table'[heap'[q].name] = q
    BY <1>2 DEF HeldIsListed
  <2>1. table[heap[q].name] = q /\ heap[q].name \in Names
    BY DEF IInv, TrafficInv, Named, HeldIsListed
  <2>2. heap[q].name # n
    BY <2>1, <1>2, <1>3, RulesAssumption
  <2>3. QED
    BY <2>1, <2>2, <1>7
<1>14. RowNotAhead'
  <2> SUFFICES ASSUME "churn" \notin trouble, NEW m \in Names, table'[m] # Nil, row'[m] # Nil
               PROVE  row'[m] <= heap'[table'[m]].traffic
    BY <1>2 DEF RowNotAhead
  <2>1. CASE m = n
    BY <2>1, <1>7
  <2>2. CASE m # n
    BY <2>2, <1>7 DEF IInv, RowNotAhead
  <2>3. QED
    BY <2>1, <2>2
<1>15. TotalNotAhead'
  BY <1>2 DEF IInv, TotalNotAhead
<1>16. QED
  BY <1>8, <1>9, <1>10, <1>11, <1>12, <1>13, <1>14, <1>15 DEF CountersInv, TrafficInv

\* The object of a deleted rule lives on in the persister only.
LEMMA DelCounters ==
  ASSUME IInv, NEW n \in Names, Del(n)
  PROVE  CountersInv'
<1>1. /\ boot = Up /\ table[n] # Nil
      /\ table' = [table EXCEPT ![n] = Nil]
      /\ heap' = Collected(heap, table', saver.todo)
      /\ row' = [row EXCEPT ![n] = Nil]
      /\ trouble \subseteq trouble'
      /\ table[n] \in saver.todo => "churn" \in trouble'
      /\ "load" \in trouble' => "load" \in trouble
      /\ UNCHANGED <<cfg, disk, boot, set, late, half, saver, due>>
  BY DEF Del
<1>2. /\ CountersTypeOK
      /\ table \in [Names -> Objs \cup {Nil}]
      /\ row \in [Names -> 0..MaxRule \cup {Nil}]
      /\ saver.todo \subseteq Objs
  BY DEF IInv, TrafficInv, CountersTypeOK
<1>3. /\ table' \in [Names -> Objs \cup {Nil}] /\ row' \in [Names -> 0..MaxRule \cup {Nil}]
      /\ table'[n] = Nil /\ row'[n] = Nil
      /\ \A m \in Names \ {n} : table'[m] = table[m] /\ row'[m] = row[m]
  BY <1>1, <1>2
<1>4. /\ heap' \in [Objs -> [name : Names \cup {Nil}, traffic : 0..MaxRule]]
      /\ \A q \in Objs : q \in saver.todo \/ (\E m \in Names : table'[m] = q) => heap'[q] = heap[q]
  <2>1. Blank \in [name : Names \cup {Nil}, traffic : 0..MaxRule]
    BY MaxAssumption DEF Blank
  <2>2. QED
    BY <1>1, <1>2, <2>1 DEF Collected, CountersTypeOK
<1>5. /\ \A m \in Names : table'[m] # Nil => heap'[table'[m]] = heap[table[m]] /\ m # n
                                             /\ table'[m] = table[m]
      /\ \A q \in saver.todo : heap'[q] = heap[q]
  BY <1>2, <1>3, <1>4
<1>6. CountersTypeOK'
  BY <1>1, <1>3, <1>4 DEF IInv, TrafficInv, CountersTypeOK
<1>7. Named' /\ Quiet'
  <2>1. Quiet'
    BY <1>1 DEF Quiet
  <2>2. saver' = saver
    BY <1>1
  <2>3. Named'
    BY <2>2, <1>5 DEF IInv, TrafficInv, Named
  <2>4. QED
    BY <2>1, <2>3
<1>8. Bounded'
  <2>1. \A m \in Names : table'[m] # Nil => heap'[table'[m]].traffic + late[m] <= MaxRule
    BY <1>5 DEF IInv, TrafficInv, Bounded
  <2>2. QED
    BY <2>1, <1>1 DEF IInv, TrafficInv, Bounded
<1>9. Conserved'
  BY <1>1 DEF IInv, TrafficInv, Conserved, Events
<1>10. HeldIsListed'
  <2> SUFFICES ASSUME "churn" \notin trouble', NEW q \in saver.todo
               PROVE  table'[heap[q].name] = q
    BY <1>1, <1>5 DEF HeldIsListed
  <2>1. table[heap[q].name] = q /\ heap[q].name \in Names
    BY <1>1 DEF IInv, TrafficInv, Named, HeldIsListed
  <2>2. heap[q].name # n
    BY <2>1, <1>1
  <2>3. QED
    BY <2>1, <2>2, <1>3
<1>11. RowNotAhead'
  BY <1>1, <1>3, <1>5 DEF IInv, RowNotAhead
<1>12. TotalNotAhead'
  BY <1>1 DEF IInv, TotalNotAhead
<1>13. QED
  BY <1>6, <1>7, <1>8, <1>9, <1>10, <1>11, <1>12 DEF CountersInv, TrafficInv

-----------------------------------------------------------------------------
(* The theorems.                                                            *)

\* The first state is one of a process that has just started, with empty tables.
LEMMA InitIInv == Init => IInv
<1> SUFFICES ASSUME Init PROVE IInv
  OBVIOUS
<1>1. SettingsInv
  BY SettingsInitInv DEF Init
<1>2. CountersTypeOK
  BY MaxAssumption DEF Init, CountersTypeOK, Blank, Sleeping
<1>3. Named /\ Quiet /\ Bounded /\ HeldIsListed /\ RowNotAhead
  BY KeysFacts DEF Init, SettingsInit, Named, Quiet, Bounded, HeldIsListed, RowNotAhead, Sleeping
<1>4. Conserved
  <2>1. Cardinality(Events) = 0
    BY NoEvents DEF Init
  <2>2. cfg[Total] = 0 /\ half = 0 /\ due = 0
    BY FreshValues DEF Init, SettingsInit
  <2>3. QED
    BY <2>1, <2>2 DEF Conserved
<1>5. TotalNotAhead
  BY DEF Init, SettingsInit, Loading, TotalNotAhead
<1>6. QED
  BY <1>1, <1>2, <1>3, <1>4, <1>5 DEF IInv, TrafficInv

\* Every step keeps the invariant.
LEMMA NextIInv == IInv /\ [Next]_vars => IInv'
<1> SUFFICES ASSUME IInv, [Next]_vars PROVE IInv'
  OBVIOUS
<1> USE DEF IInv
<1>1. CASE Restart
  BY <1>1, RestartSettings, RestartCounters DEF Restart, CountersInv
<1>2. CASE LoadSettings
  BY <1>2, LoadSettingsInv, LoadCounters DEF LoadSettings, CountersInv
<1>3. CASE LoadRules
  BY <1>3, LoadRulesCounters, LoadRulesSettings DEF CountersInv
<1>4. CASE SetStep /\ UNCHANGED counters
  BY <1>4, SetStepSettings, SetStepCounters DEF CountersInv
<1>5. ASSUME NEW n \in Names, Carry(n) PROVE IInv'
  BY <1>5, CarryCounters, SameSettings DEF Carry, CountersInv
<1>6. ASSUME NEW n \in Names, CountForRule(n) PROVE IInv'
  BY <1>6, CountForRuleCounters, SameSettings DEF CountForRule, CountersInv
<1>7. ASSUME NEW n \in Names, Add(n) PROVE IInv'
  BY <1>7, AddCounters, SameSettings DEF Add, CountersInv
<1>8. ASSUME NEW n \in Names, Del(n) PROVE IInv'
  BY <1>8, DelCounters, DelSettings DEF CountersInv
<1>9. CASE CountInTotal
  BY <1>9, CountInTotalCounters, CountInTotalSettings DEF CountersInv
<1>10. CASE Tick
  BY <1>10, TickCounters, SameSettings DEF Tick, CountersInv
<1>11. CASE ListRules
  BY <1>11, ListRulesCounters, SameSettings DEF ListRules, CountersInv
<1>12. ASSUME NEW ok \in BOOLEAN, SaveTotal(ok) PROVE IInv'
  BY <1>12, SaveTotalCounters, SaveTotalSettings DEF CountersInv, TrafficInv
<1>13. ASSUME NEW p \in Objs, NEW ok \in BOOLEAN, SaveRow(p, ok) PROVE IInv'
  BY <1>13, SaveRowCounters, SameSettings DEF SaveRow, CountersInv
<1>14. CASE UNCHANGED vars
  <2>1. UNCHANGED <<cfg, disk, boot, set, trouble, table, heap, row, late, half, saver, due>>
    BY <1>14 DEF vars, settings, counters
  <2>2. SettingsInv'
    BY <1>14, SameSettings DEF vars
  <2>3. TrafficInv' /\ HeldIsListed' /\ RowNotAhead' /\ TotalNotAhead'
    BY <2>1 DEF TrafficInv, CountersTypeOK, Named, Quiet, Bounded, Conserved, Events,
                HeldIsListed, RowNotAhead, TotalNotAhead
  <2>4. QED
    BY <2>2, <2>3
<1>15. QED
  <2>1. Ok \subseteq BOOLEAN
    BY DEF Ok
  <2>2. Save => (\E ok \in BOOLEAN : SaveTotal(ok) \/ \E p \in Objs : SaveRow(p, ok))
    BY <2>1 DEF Save
  <2>3. QED
    BY <1>1, <1>2, <1>3, <1>4, <1>5, <1>6, <1>7, <1>8, <1>9, <1>10, <1>11, <1>12,
       <1>13, <1>14, <2>2 DEF Next

\* Always, for any number of settings, rules and objects.
LEMMA AlwaysIInv == Spec => []IInv
<1>1. Init => IInv
  BY InitIInv
<1>2. IInv /\ [Next]_vars => IInv'
  BY NextIInv
<1>3. QED
  BY <1>1, <1>2, PTL DEF Spec

\* The variables have their types, and the counters stay within their bounds.
THEOREM TypeCorrect == Spec => []TypeOK
<1>1. IInv => TypeOK
  BY DEF IInv, SettingsInv, SettingsShape, TrafficInv, TypeOK
<1>2. QED
  BY <1>1, AlwaysIInv, PTL

\* A server that has started without a failing statement has every setting on
\* disk, the same as in memory unless it is just being changed (config.go:28-44,
\* shellcmd.go:96-111, web.go:222-233).
THEOREM MemoryAndDiskAgree == Spec => []SettingsAgree
<1>1. IInv => SettingsAgree
  BY KeysFacts, BootFacts DEF IInv, SettingsInv, Seeding, Agreed, SettingsAgree
<1>2. QED
  BY <1>1, AlwaysIInv, PTL

\* No chunk is lost and none is counted twice while the process runs: what was
\* carried is in the total, between the two additions of a handler, or waits for
\* its handler, however the handlers interleave and whatever rules are deleted
\* (server.go:55-61, manager.go:255-263).
THEOREM NoChunkIsLost == Spec => []Conserved
<1>1. IInv => Conserved
  BY DEF IInv, TrafficInv
<1>2. QED
  BY <1>1, AlwaysIInv, PTL

\* The disk never claims more traffic for a rule than the rule has counted, unless
\* a rule was deleted while the persister held it (server.go:95-104).
THEOREM RowBehindCounter == Spec => []RowNotAhead
<1>1. IInv => RowNotAhead
  BY DEF IInv
<1>2. QED
  BY <1>1, AlwaysIInv, PTL

\* The total on disk never falls while the server that runs has read it, across
\* crashes, failing statements and late writes (server.go:86-92, config.go:22-54).
THEOREM TotalOnDiskGrows == Spec => DiskTotalNeverFalls
<1> DEFINE Falls == ~ (disk[Total] # Nil /\ "load" \notin trouble
                         => disk'[Total] # Nil /\ disk'[Total] >= disk[Total])
<1>1. IInv /\ [Next]_vars => [~ Falls]_vars
  <2> SUFFICES ASSUME IInv, [Next]_vars, disk[Total] # Nil, "load" \notin trouble
               PROVE  disk'[Total] # Nil /\ disk'[Total] >= disk[Total]
    OBVIOUS
  <2>1. disk[Total] \in Nat /\ disk[Total] \in 0..MaxTotal
    BY TotalFacts, NilAssumption
  <2>2. CASE disk'[Total] = disk[Total]
    BY <2>1, <2>2
  <2>3. ASSUME NEW ok \in BOOLEAN, SaveTotal(ok)
        PROVE  disk'[Total] # Nil /\ disk'[Total] >= disk[Total]
    <3>1. disk'[Total] = disk[Total] \/ disk'[Total] = saver.val
      BY <2>3, TotalFacts DEF SaveTotal
    <3>2. boot = Up /\ saver.pc = "total"
      BY <2>3 DEF SaveTotal, IInv, TrafficInv, Quiet, Sleeping
    <3>3. disk[Total] <= saver.val
      BY <3>2, BootFacts DEF IInv, TotalNotAhead
    <3>4. saver.val \in Nat
      BY MaxAssumption DEF IInv, TrafficInv, CountersTypeOK
    <3>5. QED
      BY <3>1, <3>3, <3>4, <2>1, NilAssumption
  <2>4. CASE LoadSettings
    BY <2>1, <2>2, <2>4, LoadTotal DEF LoadSettings
  <2>5. CASE SetStep
    BY <2>2, <2>5, SetStepTotal
  <2>6. CASE Restart \/ LoadRules \/ CountInTotal \/ Tick \/ ListRules
             \/ (\E n \in Names : Carry(n) \/ CountForRule(n) \/ Add(n) \/ Del(n))
             \/ (\E p \in Objs, ok \in Ok : SaveRow(p, ok))
    BY <2>2, <2>6 DEF Restart, SettingsRestart, LoadRules, CountInTotal, Tick, ListRules,
                      Carry, CountForRule, Add, Del, SaveRow, settings
  <2>7. CASE UNCHANGED vars
    BY <2>2, <2>7 DEF vars, settings
  <2>8. QED
    <3>1. Ok \subseteq BOOLEAN
      BY DEF Ok
    <3>2. QED
      BY <2>3, <2>4, <2>5, <2>6, <2>7, <3>1 DEF Next, Save
<1>2. QED
  BY <1>1, AlwaysIInv, PTL DEF Spec, DiskTotalNeverFalls
=============================================================================
