SPECIFICATION FairSpec
CONSTANTS
  h1 = h1
  h2 = h2
  b1 = b1
  b2 = b2
  NoClient = NoClient
  Humans = {h1}
  Bots = {b1}
  Admins = {}
  Teamplay = FALSE
  MinPlayers = 1
  ForceBalance = FALSE
  DoWarmup = TRUE
  DoReadyup = FALSE
  ReadyPercent = 51
  AllowNoHumans = TRUE
  DelayFrames = 1
  CountdownFrames = 2
  CancelFrames = 1
  TimeoutFrames = 1
  ResumeFrames = 1
  QueueFrames = 1
  FloorFrames = 2
  ExitFrames = 2
  TimeLimit = 2
  TieFrames = 0
  MapExits = TRUE
  CvarChanges = FALSE
PROPERTIES
  TimeoutEnds
  CountdownResolves
  EndReachesIntermission
  BotScoreboardEnds
