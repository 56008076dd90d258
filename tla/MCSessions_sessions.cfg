CONSTANTS
  Clients = {a, b}
  Conns = {s1, s2}
  Addrs = {x1, x2}
  Controllers = 2
  AddrReuse = FALSE
  Nil = Nil
SPECIFICATION FairSpec
INVARIANTS TypeOK DefaultIsRegistered RegisteredIsWatched ConnectedIsRegistered
PROPERTIES NoForgottenClient DeathIsAnnounced ReturningClientsAreServed
