CONSTANTS
  a1 = a1
  a2 = a2
  s1 = s1
  b1 = b1
  ia = ia
  ib = ib
  NoCall = NoCall
  Calls = {a1, s1}
  Instances <- MCInstances
  InstanceOf <- MCInstanceOf
  IsSend <- MCIsSend
  TTL = 1
  MaxTime = 2
  MaxFaults = 1
SPECIFICATION FairWriterSpec
CHECK_DEADLOCK FALSE
INVARIANTS OneWriterInProcess ConfirmedHolds
PROPERTIES ImplementsLock OperationsEnd
