CONSTANTS
  Clients = {a, b}
  Conns = {s1, s2}
  Addrs = {x1, x2}
  Controllers = 2
  AddrReuse = FALSE
  Nil = Nil
SPECIFICATION FairSpec
PROPERTY ClientIsServed
