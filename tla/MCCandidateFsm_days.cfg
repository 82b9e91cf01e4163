CONSTANTS
  Modes = {"advisory", "enforce"}
  StaleDays = 2
  StallDays = 1
  Delivered <- MCDelivered
  ByHand = {"moves", "tasks"}
  VetoAt = 7
  ConflictAt = 6
  AdvanceAt = 6
SPECIFICATION FairSpec
PROPERTIES ConfirmedIsReviewed WatchEnds
