\* Two sessions are enough for one to follow another, two partitions for one claim to
\* be consumed and the other not.
CONSTANTS
  Partitions = {p1, p2}
  Ports = {a, b}
  MaxSessions = 2

SPECIFICATION SessionsFairSpec
INVARIANTS
  SessionsTypeOK
  SessionsDisjoint
  NothingLeftBehind
PROPERTIES
  SessionReleased
  InterruptEndsProgram
