CONSTANTS
  Rules = {r1}
  Ports = {p1}
  Jobs = {w1, w2}
  Ctxs = {c1, c2}
  SrvCtxs = {s1, s2}
  Ctls = {k1}
  ShellOps = {sh}
  WebOps = {}
  Nil = Nil
SPECIFICATION FairPatientSpec
PROPERTY RuleStopCloses
CHECK_DEADLOCK FALSE
