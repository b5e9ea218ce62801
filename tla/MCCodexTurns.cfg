CONSTANTS
  t1 = t1
  s1 = s1
  x1 = x1
  x2 = x2
  NoClient = NoClient
  NoAsk = NoAsk
  Clients = {t1}
  Calls <- MCCalls
  Starts <- MCStarts
  Asks = {x1, x2}
  AskOn <- MCAskOn
  IdOf <- MCIdOf
  Slots = 1
  Stops = {s1}
  StartOf <- MCStartOf
  InterruptOf <- MCInterruptOf
  StopOf <- MCStopOf
SPECIFICATION FairSpec
CHECK_DEADLOCK FALSE
INVARIANTS ClosedReleasesWaiters ActiveIsFollowed
PROPERTIES TurnsEnd
