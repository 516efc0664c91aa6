SPECIFICATION Spec
CONSTANTS
  h1 = h1
  h2 = h2
  b1 = b1
  b2 = b2
  NoClient = NoClient
  Humans = {h1, h2}
  Bots = {b1}
  Admins = {h1}
  Teamplay = FALSE
  MinPlayers = 1
  ForceBalance = FALSE
  DoWarmup = TRUE
  DoReadyup = TRUE
  ReadyPercent = 51
  AllowNoHumans = TRUE
  DelayFrames = 1
  CountdownFrames = 1
  CancelFrames = 1
  TimeoutFrames = 1
  ResumeFrames = 1
  QueueFrames = 1
  FloorFrames = 1
  ExitFrames = 1
  TimeLimit = 2
  TieFrames = 1
  MapExits = TRUE
  CvarChanges = FALSE
INVARIANTS
  TimeoutHasOwner
  RecordersAgree
  QueuedMatchIsOver
PROPERTIES
  NoStartDuringIntermission
  ResultsAreKept
