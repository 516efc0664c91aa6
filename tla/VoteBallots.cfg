SPECIFICATION Spec
CONSTANTS
  h1 = h1
  h2 = h2
  h3 = h3
  b1 = b1
  NoClient = NoClient
  NoCommand = NoCommand
  Humans = {h1, h2, h3}
  Bots = {b1}
  Admins = {}
  Commands = {"restart"}
  SpecVote = FALSE
  MidgameVote = TRUE
  VoteLimit = 0
  GraceFrames = 1
  VoteFrames = 2
  ExecuteFrames = 1
INVARIANTS
  CountedAnswersAreCurrent
PROPERTIES
  PassNeedsMajority
SYMMETRY Symmetry
