CONSTANTS
  a1 = a1
  p1 = p1
  p2 = p2
  p3 = p3
  NoMessage = NoMessage
  Ends <- MCEnds
  Attachments = {a1}
  Prompts = {p1, p2, p3}
  Turns = {p3}
  Mails <- MCMails
  Keys <- MCKeys
  MaxFaults = 1
  MaxCrashes = 1
SPECIFICATION FairSpec
SYMMETRY PromptSymmetry
CHECK_DEADLOCK FALSE
INVARIANTS RowHasFile CompletedWasAnswered SentOnce LastCardIsOutcome
PROPERTIES ConsumedOnce KeptForItsPrompt FinishedCardCloses
