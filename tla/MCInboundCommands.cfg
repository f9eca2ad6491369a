SPECIFICATION FairSpec
CONSTANTS
  w1 = w1
  w2 = w2
  NoWorker = none
  Plans <- MCPlans
  CommandTTL = 4
  ConfirmTTL = 2
  StaleClaim = 2
  RetryDelay = 1
  MaxAttempts = 2
  LastArrival = 2
  MaxNow = 6
INVARIANTS IntentAuthorised ReplyIsTrue
PROPERTIES SettledForever CommandsSettle
