SPECIFICATION Spec
CONSTANTS
  h1 = h1
  h2 = h2
  b1 = b1
  b2 = b2
  NoClient = NoClient
  Humans = {h1, h2}
  Bots = {b1}
  Admins = {}
  Teamplay = TRUE
  MinPlayers = 2
  ForceBalance = FALSE
  DoWarmup = TRUE
  DoReadyup = TRUE
  ReadyPercent = 51
  AllowNoHumans = TRUE
  DelayFrames = 1
  CountdownFrames = 1
  CancelFrames = 1
  TimeoutFrames = 0
  ResumeFrames = 0
  QueueFrames = 1
  FloorFrames = 1
  ExitFrames = 1
  TimeLimit = 0
  TieFrames = 0
  MapExits = FALSE
  CvarChanges = TRUE
INVARIANTS
  ReadyIsCurrent
  AutomaticLocksHavePhase
PROPERTIES
  StartNeedsRoster
  CountdownNeedsConsent
  UnlockSurvives
SYMMETRY Symmetry
