SPECIFICATION FairSpec
CONSTANTS
  Slots = {1, 2, 3}
  Bots = {2}
  Nobody = Nobody
  MaxOrder = 4
INVARIANTS
  OneVerdict
PROPERTIES
  KeepsLine
  VacancyFills
