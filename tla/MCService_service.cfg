CONSTANTS
  Ports = {p1, p2}
  Runs = {r1, r2}
  Ctxs = {c1, c2, c3}
  Consoles = {"shell", "web"}
  Nil = Nil
SPECIFICATION FairSpec
INVARIANTS TypeOK PanicNeedsHaste SpinNeedsHaste SettledControl
PROPERTY StopReleasesControlPort
