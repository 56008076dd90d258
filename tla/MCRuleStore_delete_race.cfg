CONSTANTS
  Names = {n1}
  Vals = {v1, v2}
  Objs = {x1, x2, x3}
  ShellOps = {}
  WebOps = {a, b}
  Commands = {"add", "del"}
  Apart = {}
  Failing = {}
  Nil = Nil
SPECIFICATION Spec
SYMMETRY Symmetry
INVARIANTS MemInDb
