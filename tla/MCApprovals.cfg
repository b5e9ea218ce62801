CONSTANTS
  ra = ra
  t = t
  ka = ka
  kd = kd
  q1 = q1
  q2 = q2
  m1 = m1
  m2 = m2
  Requests = {ra}
  Turns = {t}
  Clicks = {ka, kd}
  TurnOf <- MCTurnOf
  IdOf <- MCIdOf
  ClickOn <- MCClickOn
  Choice <- MCChoice
  Timeouts = TRUE
  NoQuestion = NoQuestion
  NoText = NoText
  Questions = {q1, q2}
  AskedBy = t
  Texts = {m1, m2}
  MaxArrivals = 2
  Mixed = FALSE
SPECIFICATION FairBridge
CHECK_DEADLOCK FALSE
SYMMETRY InputSymmetry
INVARIANTS AcceptIsDurable AnswerIsNoTask
PROPERTIES DecidedIsFinalized
