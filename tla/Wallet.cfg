CONSTANTS
  FirstCoins = 2
  MaxTxs = 3
  Foreign <- MCForeign
  ForeignIns <- MCForeignIns
  MaxCrashes = 1
SPECIFICATION FairSpec
CHECK_DEADLOCK FALSE
INVARIANTS
  BooksAreRight
  ChangeKeyIsTaken
  CommitDoesNotFail
PROPERTIES
  FileIsWhole
