SPECIFICATION FairSpec
CONSTANTS
  h1 = h1
  h2 = h2
  h3 = h3
  b1 = b1
  NoClient = NoClient
  NoCommand = NoCommand
  Humans = {h1, h2}
  Bots = {}
  Admins = {h1}
  Commands = {"setting", "readyall", "shuffle", "nextmap", "map"}
  SpecVote = TRUE
  MidgameVote = FALSE
  VoteLimit = 0
  GraceFrames = 1
  VoteFrames = 2
  ExecuteFrames = 1
INVARIANTS
  CallerStays
  FailedHadNoEffect
PROPERTIES
  KeepsPromise
  VoteEnds
