SPECIFICATION Spec
CONSTANTS
  p1 = p1
  p2 = p2
  None = None
  N = 2
  Ids = {p1, p2}
  Kind = "flag"
  Rebuilds = {TRUE, FALSE}
  MaxReservations = 2
  Rejoin = 2
  Delay = 1
  Retry = 0
  Pulse = 1
  AutoTimeout = 2
  Resume = 0
  Crowds = {{}}
  MaxGen = 3
  MaxRound = 2
  MaxMatch = 1
INVARIANTS
  OneIdentity
  ItemOnce
  ParticipantKept
  NeverSpawnsBeforeBegin
PROPERTIES
  SlotNotStolen
  OwnerResumes
SYMMETRY Symmetry
