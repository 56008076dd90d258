CONSTANTS
  CaKeys = {k1, k2, k3}
  Leafs = {g1, g2, g3}
  Ops = {a, b}
  Faults = {"create", "write", "crash"}
  Torn = Torn
  Nil = Nil
SPECIFICATION Spec
SYMMETRY Symmetry
INVARIANTS TypeOK PanicNeedsDamage
PROPERTIES GenLeavesUsable CaLeavesPair
