CONSTANTS
  Keys <- MCKeys
  Vals = {p1, p2}
  Default = p1
  Setters = {s1}
  Failing = {"query", "insert", "update", "rules", "traffic"}
  Nil = Nil
  Names = {a}
  Objs = {o1, o2}
  MaxRule = 2
  MaxTotal = 3
SPECIFICATION FairSpec
INVARIANTS TypeOK SettingsAgree RowNotAhead
PROPERTY DiskTotalNeverFalls TrafficIsSaved
