SPECIFICATION FairSpec
CONSTANTS
  p1 = p1
  p2 = p2
  f1 = f1
  f2 = f2
  Player = {p1, p2}
  Field = {f1, f2}
  Value = {0, 1}
  Default = 0
  Unset = 2
  CacheLimit = 1
  QueueLimit = 2
  DebounceFrames = 1
  RetryFrames = 2
  MaxEvents = 3
INVARIANTS
  CountedOnce
  ChoiceKept
  LastSettlementShown
PROPERTIES
  ResultKept
  OthersKept
  Drained
