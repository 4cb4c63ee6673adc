SPECIFICATION FairSpec
CONSTANTS
  Ops = {o1, o2}
  Kinds <- MCKinds
  Cursors <- MCCursors
  MaxSets = 2
  MaxRows = 1
  MaxColumns = 2
  MaxInFlight = 1
  OtherReplies = TRUE
CHECK_DEADLOCK FALSE
INVARIANTS TypeOK OwnReplies SettledInOrder 
PROPERTIES SettledOnce ImplementsPipeline EverySettles
