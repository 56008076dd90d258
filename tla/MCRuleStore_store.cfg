CONSTANTS
  Names = {n1, n2}
  Vals = {v1, v2}
  Objs = {x1, x2}
  ShellOps = {sh}
  WebOps = {wb}
  Commands = {"add", "del", "upd", "flag", "start", "stop"}
  Apart = {{"del"}, {"upd"}, {"upd", "flag"}, {"upd", "add"}, {"flag", "add"}}
  Failing = {"insert", "delete", "update", "select", "load"}
  Nil = Nil
SPECIFICATION Spec
SYMMETRY Symmetry
INVARIANTS TypeOK MemInDb ValuesAgree NilNeedsDelete AddFindsVacancy
