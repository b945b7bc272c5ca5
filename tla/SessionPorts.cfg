\* Two partitions and two ports: the second partition is set up before the handler of
\* the first listens.
CONSTANTS
  Partitions = {p1, p2}
  Ports = {a, b}
  MaxSessions = 1

SPECIFICATION SessionsSpec
INVARIANT OwnHandler
