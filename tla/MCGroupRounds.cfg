SPECIFICATION FairSpec
CONSTANTS
  Small = {s1, s2, s3}
  Large = {l1}
  Tables0 = 1
  Tables1 = 1
  Groups <- MCGroups
  NoGroup = NoGroup
  T = 2
  Size <- MCSize
  num_tables <- MCTables
  BatchSize = 1
INVARIANTS NoIdleTable TestsNeverFail WaiterInScope StatesInScope RoundsInv
PROPERTIES ImplementsSeating RoundsEnd
CHECK_DEADLOCK FALSE
