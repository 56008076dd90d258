CONSTANTS
  Rules = {r1, r2}
  Ports = {p1, p2}
  Jobs = {w1, w2}
  Ctxs = {c1, c2, c3}
  SrvCtxs = {s1, s2}
  Ctls = {k1}
  ShellOps = {sh}
  WebOps = {wb}
  Nil = Nil
SPECIFICATION GatewaySpec
INVARIANTS OneGoroutinePerRule SettledExact
PROPERTIES ImplementsRulePort
