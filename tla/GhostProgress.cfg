SPECIFICATION FairSpec
CONSTANTS
  p1 = p1
  p2 = p2
  None = None
  N = 1
  Ids = {p1}
  Kind = "tech"
  Rebuilds = {TRUE, FALSE}
  MaxReservations = 1
  Rejoin = 2
  Delay = 2
  Retry = 1
  Pulse = 1
  AutoTimeout = 2
  Resume = 1
  Crowds = {{}, {1}}
  MaxGen = 3
  MaxRound = 2
  MaxMatch = 1
INVARIANTS
  TimeoutOwned
PROPERTIES
  ReservationEnds
